--------------------------- MODULE DocumentsProofs ---------------------------
(***************************************************************************)
(* Proofs about four of the parts that MCDocuments joins: the evaluation   *)
(* ledger (EvaluationLedger), project files (ProjectHistory), the nodes of *)
(* a CAD program (ProgramTree) and the bodies, edges and vertices of a     *)
(* triangle mesh (MeshSolid).  They share no state, and each is proved     *)
(* alone.                                                                  *)
(***************************************************************************)
EXTENDS EvaluationLedger, ProjectHistory, ProgramTree, MeshSolid,
        FiniteSetTheorems, SequenceTheorems, InductionTheorems

(***************************************************************************)
(* EvaluationLedger: what the audit accepts, and what a ledger that passes *)
(* it with the hashes kept outside tells.                                  *)
(***************************************************************************)
N == Len(Schedule)
Index == 1 .. N

LEMMA LedgerConstants ==
  /\ N \in Nat /\ N > 0
  /\ \A i \in Index : Schedule[i] \in Sample /\ Schedule[i] \in Name
  /\ \A i, j \in Index : Schedule[i] = Schedule[j] => i = j
  /\ \A i \in Index : Schedule[i] # "manifest" /\ Schedule[i] # "summary"
  /\ \A s \in Sample : \E i \in Index : s = Schedule[i]
  /\ "manifest" \in Name /\ "summary" \in Name
PROOF
  <1>1. N \in Nat /\ N > 0
    BY ScheduleAssumption DEF N
  <1>2. \A i \in Index : Schedule[i] \in Sample
    BY DEF Sample, Index, N
  <1>3. \A i \in Index : Schedule[i] # "manifest" /\ Schedule[i] # "summary"
    BY <1>2, ScheduleAssumption
  <1> QED
    BY <1>1, <1>2, <1>3, ScheduleAssumption DEF Sample, Index, N, Name

(* The hashes the audit derives from the rows of a summary.                *)
LEMMA DerivedHashes ==
  ASSUME NEW m, NEW rows, NEW i \in Index
  PROVE  /\ HashesOf(m, rows)["manifest"] = m
         /\ HashesOf(m, rows)["summary"] = None
         /\ rows[i].persisted => HashesOf(m, rows)[Schedule[i]] = rows[i]
         /\ ~ rows[i].persisted => HashesOf(m, rows)[Schedule[i]] = None
PROOF
  <1>1. HashesOf(m, rows)["manifest"] = m
    BY LedgerConstants DEF HashesOf
  <1>2. HashesOf(m, rows)["summary"] = None
    BY LedgerConstants DEF HashesOf, Index, N
  <1>3. ASSUME rows[i].persisted PROVE HashesOf(m, rows)[Schedule[i]] = rows[i]
    <2>1. \E j \in Index : Schedule[i] = Schedule[j]
      OBVIOUS
    <2>2. (CHOOSE j \in Index : Schedule[i] = Schedule[j]) = i
      BY <2>1, LedgerConstants
    <2> QED
      BY <1>3, <2>2, LedgerConstants DEF HashesOf, Index, N
  <1>4. ASSUME ~ rows[i].persisted PROVE HashesOf(m, rows)[Schedule[i]] = None
    BY <1>4, LedgerConstants DEF HashesOf, Index, N
  <1> QED
    BY <1>1, <1>2, <1>3, <1>4

(* The documents of the outcomes said to be persisted, and the manifest,   *)
(* are all there is to check.                                              *)
LEMMA NoIssues ==
  ASSUME NEW m \in {Manifest, OtherManifest}, NEW rows \in Ledgers
  PROVE  Issues(HashesOf(m, rows)) = {} <=>
           /\ disk["manifest"] = m
           /\ \A i \in Index : rows[i].persisted => disk[Schedule[i]] = rows[i]
PROOF
  <1> DEFINE h == HashesOf(m, rows)
  <1>1. \A i \in Index : /\ h["manifest"] = m /\ h["summary"] = None
                         /\ rows[i].persisted => h[Schedule[i]] = rows[i]
                         /\ ~ rows[i].persisted => h[Schedule[i]] = None
    BY DerivedHashes
  <1>2. h["manifest"] = m /\ h["summary"] = None
    BY <1>1, LedgerConstants DEF Index
  <1>3. \A i \in Index : rows[i] \in Row /\ rows[i] # None
    BY DocumentAssumption DEF Ledgers, Index, N
  <1>4. m # None
    BY DocumentAssumption
  <1> HIDE DEF h
  <1>5. ASSUME Issues(h) = {}
        PROVE  /\ disk["manifest"] = m
               /\ \A i \in Index : rows[i].persisted => disk[Schedule[i]] = rows[i]
    <2>1. \A n \in Name : h[n] # None => disk[n] = h[n]
      BY <1>5 DEF Issues
    <2> QED
      BY <2>1, <1>1, <1>2, <1>3, <1>4, LedgerConstants
  <1>6. ASSUME disk["manifest"] = m,
               \A i \in Index : rows[i].persisted => disk[Schedule[i]] = rows[i]
        PROVE  Issues(h) = {}
    <2>1. ASSUME NEW n \in Name, h[n] # None PROVE disk[n] = h[n]
      <3>1. CASE n = "manifest"
        BY <3>1, <1>2, <1>6
      <3>2. CASE n = "summary"
        BY <3>2, <1>2, <2>1
      <3>3. CASE n \in Sample
        BY <3>3, <1>1, <1>6, <2>1, LedgerConstants
      <3> QED
        BY <3>1, <3>2, <3>3 DEF Name
    <2> QED
      BY <2>1 DEF Issues
  <1> QED
    BY <1>5, <1>6 DEF h

LEMMA AuditEquivalence == AuditIsExact
PROOF
  <1>1. ASSUME Verified PROVE Honest
    <2> DEFINE m == disk["manifest"]
               rows == disk["summary"].outcomes
    <2>1. m \in {Manifest, OtherManifest} /\ rows \in Ledgers
      BY <1>1 DEF Verified, Readable
    <2>2. Issues(HashesOf(m, rows)) = {}
      BY <1>1 DEF Verified
    <2>3. disk["summary"] = Summary(rows, HashesOf(m, rows), {})
      BY <1>1, <2>2 DEF Verified
    <2>4. \A i \in Index : rows[i].persisted => disk[Schedule[i]] = rows[i]
      BY <2>1, <2>2, NoIssues
    <2> QED
      BY <2>1, <2>3, <2>4 DEF Honest, Index, N
  <1>2. ASSUME Honest PROVE Verified
    <2>1. PICK m \in {Manifest, OtherManifest}, rows \in Ledgers :
            /\ disk["manifest"] = m
            /\ disk["summary"] = Summary(rows, HashesOf(m, rows), {})
            /\ \A i \in 1 .. Len(Schedule) : rows[i].persisted => disk[Schedule[i]] = rows[i]
      BY <1>2 DEF Honest
    <2>2. Issues(HashesOf(m, rows)) = {}
      BY <2>1, NoIssues DEF Index, N
    <2>3. /\ disk["summary"].outcomes = rows
          /\ disk["summary"].hashes = HashesOf(m, rows)
      BY <2>1 DEF Summary
    <2>4. Readable
      BY <2>1, DocumentAssumption DEF Readable
    <2> QED
      BY <2>1, <2>2, <2>3, <2>4 DEF Verified
  <1> QED
    BY <1>1, <1>2 DEF AuditIsExact

(* The audit accepts a directory exactly when an undisturbed run could     *)
(* have left it, for every schedule and every content of the directory.    *)
THEOREM AuditExact == Spec => []AuditIsExact
PROOF
  BY AuditEquivalence, PTL
-----------------------------------------------------------------------------
(* The inductive invariant: the rows are in the order of the schedule and  *)
(* hold what was measured; what was hashed is what they say was persisted; *)
(* and as long as nobody changes a document, the disk holds what was       *)
(* hashed.                                                                 *)
TypeInv ==
  /\ pc \in {"manifest", "evaluate", "persist", "summary", "done", "aborted"}
  /\ outcomes \in Seq(Row) /\ Len(outcomes) <= N
  /\ hashes \in [Name -> Row \cup {Manifest, None}]
  /\ DOMAIN disk = Name /\ disk = [n \in Name |-> disk[n]]
  /\ measured \in [Sample -> Endpoint \cup {None}]
  /\ changes \in Nat

Measured ==
  \A i \in 1 .. Len(outcomes) :
    /\ outcomes[i].id = Schedule[i]
    /\ Has(outcomes[i]) => outcomes[i].metrics = measured[Schedule[i]]

PhaseInv ==
  /\ pc = "manifest" => outcomes = << >> /\ hashes = [n \in Name |-> None]
  /\ pc = "evaluate" => Len(outcomes) < N
  /\ pc = "persist" => Len(outcomes) > 0 /\ ~ outcomes[Len(outcomes)].persisted
  /\ pc \in {"summary", "done"} => Len(outcomes) = N

HashInv ==
  pc \notin {"manifest", "aborted"} =>
    /\ hashes["manifest"] = Manifest /\ hashes["summary"] = None
    /\ \A i \in Index :
         hashes[Schedule[i]] = IF i \in 1 .. Len(outcomes) /\ outcomes[i].persisted
                               THEN outcomes[i] ELSE None

DiskInv == changes = 0 => Issues(hashes) = {}

ReturnInv ==
  pc = "done" => /\ returned = Summary(outcomes, hashes, returned.issues)
                 /\ changes = 0 => returned.issues = {} /\ disk["summary"] = returned

LInv == TypeInv /\ Measured /\ PhaseInv /\ HashInv /\ DiskInv /\ ReturnInv

LEMMA RowFields ==
  ASSUME NEW row \in Row
  PROVE  LET kept == [row EXCEPT !.persisted = TRUE]
         IN  /\ kept \in Row /\ kept.persisted
             /\ kept.id = row.id /\ kept.metrics = row.metrics
             /\ Has(kept) = Has(row) /\ row # None /\ kept # None
PROOF
  <1> DEFINE kept == [row EXCEPT !.persisted = TRUE]
  <1>1. CASE row \in [id : Sample, status : {"load_error", "execution_error"},
                      metrics : {None}, persisted : BOOLEAN]
    <2>1. kept \in [id : Sample, status : {"load_error", "execution_error"},
                    metrics : {None}, persisted : BOOLEAN]
      BY <1>1
    <2>2. kept.persisted /\ kept.id = row.id /\ kept.metrics = row.metrics
      BY <1>1
    <2> QED
      BY <2>1, <2>2, DocumentAssumption DEF Row, Has
  <1>2. CASE row \in [id : Sample, status : {"evaluated"},
                      metrics : {e \in Endpoint : Consistent(e)}, persisted : BOOLEAN]
    <2>1. kept \in [id : Sample, status : {"evaluated"},
                    metrics : {e \in Endpoint : Consistent(e)}, persisted : BOOLEAN]
      BY <1>2
    <2>2. kept.persisted /\ kept.id = row.id /\ kept.metrics = row.metrics
      BY <1>2
    <2> QED
      BY <2>1, <2>2, DocumentAssumption DEF Row, Has
  <1> QED
    BY <1>1, <1>2 DEF Row

(* A finished run has hashed what the audit derives from its rows.         *)
LEMMA FinishedLedger ==
  ASSUME LInv, pc = "done"
  PROVE  outcomes \in Ledgers /\ hashes = HashesOf(Manifest, outcomes)
PROOF
  <1>1. Len(outcomes) = N /\ outcomes \in Seq(Row)
    BY DEF LInv, TypeInv, PhaseInv
  <1>2. outcomes \in [1 .. Len(Schedule) -> Row]
    BY <1>1 DEF N
  <1>3. outcomes \in Ledgers
    BY <1>1, <1>2 DEF LInv, Measured, Ledgers, N
  <1>4. ASSUME NEW n \in Name PROVE hashes[n] = HashesOf(Manifest, outcomes)[n]
    <2>1. PICK k \in Index : TRUE
      BY LedgerConstants DEF Index
    <2>2. CASE n \in {"manifest", "summary"}
      <3>1. /\ HashesOf(Manifest, outcomes)["manifest"] = Manifest
            /\ HashesOf(Manifest, outcomes)["summary"] = None
        BY <2>1, DerivedHashes
      <3> QED
        BY <2>2, <3>1 DEF LInv, HashInv
    <2>3. CASE n \in Sample
      <3>1. PICK i \in Index : n = Schedule[i]
        BY <2>3, LedgerConstants
      <3>2. /\ outcomes[i].persisted => HashesOf(Manifest, outcomes)[n] = outcomes[i]
            /\ ~ outcomes[i].persisted => HashesOf(Manifest, outcomes)[n] = None
        BY <3>1, DerivedHashes
      <3>3. hashes[n] = IF outcomes[i].persisted THEN outcomes[i] ELSE None
        BY <3>1, <1>1 DEF LInv, HashInv, Index
      <3> QED
        BY <3>2, <3>3
    <2> QED
      BY <2>2, <2>3 DEF Name
  <1>5. hashes = HashesOf(Manifest, outcomes)
    <2>1. hashes = [n \in Name |-> hashes[n]]
      BY DEF LInv, TypeInv
    <2>2. HashesOf(Manifest, outcomes) = [n \in Name |-> HashesOf(Manifest, outcomes)[n]]
      BY DEF HashesOf
    <2> QED
      BY <1>4, <2>1, <2>2
  <1> QED
    BY <1>3, <1>5

LEMMA Anchoring == LInv => AnchoredIsTrue
PROOF
  <1> SUFFICES ASSUME LInv, pc = "done"
               PROVE  /\ changes = 0 => Anchored
                      /\ Anchored => \A i \in 1 .. Len(Schedule) :
                           LET row == disk["summary"].outcomes[i]
                           IN  /\ Has(row) => row.metrics = measured[Schedule[i]]
                               /\ AuditValid => /\ disk[Schedule[i]] = row
                                                /\ Has(row) /\ row.metrics.total > 0
    BY DEF AnchoredIsTrue
  <1>1. outcomes \in Ledgers /\ hashes = HashesOf(Manifest, outcomes)
    BY FinishedLedger
  <1>2. returned = Summary(outcomes, hashes, returned.issues)
    BY DEF LInv, ReturnInv
  <1>3. returned.outcomes = outcomes
    BY <1>2 DEF Summary
  <1>4. ASSUME changes = 0 PROVE Anchored
    <2>1. Issues(hashes) = {} /\ returned.issues = {} /\ disk["summary"] = returned
      BY <1>4 DEF LInv, DiskInv, ReturnInv
    <2>2. /\ disk["manifest"] = Manifest
          /\ \A i \in Index : outcomes[i].persisted => disk[Schedule[i]] = outcomes[i]
      BY <2>1, <1>1, NoIssues
    <2>3. disk["summary"] = Summary(outcomes, HashesOf(Manifest, outcomes), {})
      BY <2>1, <1>1, <1>2
    <2>4. Verified
      BY <2>2, <2>3, <1>1, AuditEquivalence DEF AuditIsExact, Honest, Index, N
    <2> QED
      BY <2>1, <2>2, <2>4 DEF Anchored
  <1>5. ASSUME Anchored, NEW i \in Index
        PROVE  LET row == disk["summary"].outcomes[i]
               IN  /\ Has(row) => row.metrics = measured[Schedule[i]]
                   /\ AuditValid => /\ disk[Schedule[i]] = row
                                    /\ Has(row) /\ row.metrics.total > 0
    <2>1. disk["summary"] = returned /\ disk["manifest"] = Manifest /\ Verified
      BY <1>5 DEF Anchored
    <2>2. disk["summary"].outcomes[i] = outcomes[i]
      BY <2>1, <1>3
    <2>3. Len(outcomes) = N
      BY DEF LInv, PhaseInv
    <2>4. Has(outcomes[i]) => outcomes[i].metrics = measured[Schedule[i]]
      BY <2>3 DEF LInv, Measured, Index
    <2>5. ASSUME AuditValid
          PROVE  /\ disk[Schedule[i]] = outcomes[i]
                 /\ Has(outcomes[i]) /\ outcomes[i].metrics.total > 0
      <3>1. ValidForInference(outcomes, returned.issues)
        BY <2>5, <2>1, <1>2 DEF AuditValid, Summary
      <3>2. outcomes[i].persisted /\ Has(outcomes[i]) /\ outcomes[i].metrics.total > 0
        BY <3>1 DEF ValidForInference, Available, Index, N
      <3>3. Issues(HashesOf(Manifest, outcomes)) = {}
        BY <2>1, <1>3 DEF Verified
      <3>4. disk[Schedule[i]] = outcomes[i]
        BY <3>2, <3>3, <1>1, NoIssues
      <3> QED
        BY <3>2, <3>4
    <2> QED
      BY <2>2, <2>4, <2>5
  <1> QED
    BY <1>4, <1>5 DEF Index, N
-----------------------------------------------------------------------------
LEMMA LedgerInit == Init => LInv
PROOF
  <1> SUFFICES ASSUME Init PROVE LInv
    OBVIOUS
  <1>1. TypeInv
    BY LedgerConstants DEF Init, TypeInv
  <1>2. Measured /\ PhaseInv /\ HashInv /\ ReturnInv
    BY LedgerConstants DEF Init, Measured, PhaseInv, HashInv, ReturnInv
  <1>3. DiskInv
    BY DEF Init, DiskInv, Issues
  <1> QED
    BY <1>1, <1>2, <1>3 DEF LInv

(* Publishing a document under a free name disturbs none that was hashed.  *)
LEMMA WrittenKeeps ==
  ASSUME TypeInv, DiskInv, NEW n \in Name, NEW document, Written(n, document), changes = 0
  PROVE  /\ \A k \in Name : hashes[k] # None => disk'[k] = hashes[k]
         /\ disk'[n] = document
PROOF
  <1>1. Issues(hashes) = {}
    BY DEF DiskInv
  <1>2. \A k \in Name : hashes[k] # None => disk[k] = hashes[k]
    BY <1>1 DEF Issues
  <1>3. disk[n] = None /\ disk' = [disk EXCEPT ![n] = document]
    BY DEF Written
  <1>4. disk'[n] = document /\ \A k \in Name : k # n => disk'[k] = disk[k]
    BY <1>3 DEF TypeInv
  <1> QED
    BY <1>2, <1>3, <1>4

LEMMA WrittenType ==
  ASSUME TypeInv, NEW n \in Name, NEW document, Written(n, document) \/ UNCHANGED disk
  PROVE  DOMAIN disk' = Name /\ disk' = [k \in Name |-> disk'[k]]
PROOF
  <1>1. CASE UNCHANGED disk
    BY <1>1 DEF TypeInv
  <1>2. CASE Written(n, document)
    BY <1>2 DEF TypeInv, Written
  <1> QED
    BY <1>1, <1>2

LEMMA AbortKeeps ==
  ASSUME LInv, Abort, NEW n \in Name, NEW document,
         Written(n, document) \/ UNCHANGED disk
  PROVE  LInv'
PROOF
  <1> USE DEF LInv
  <1>1. TypeInv'
    BY WrittenType DEF TypeInv, Abort
  <1>2. Measured' /\ PhaseInv' /\ HashInv' /\ ReturnInv'
    BY DEF Abort, Measured, PhaseInv, HashInv, ReturnInv
  <1>3. DiskInv'
    <2>1. CASE UNCHANGED disk
      BY <2>1 DEF DiskInv, Issues, Abort
    <2>2. CASE Written(n, document)
      BY <2>2, WrittenKeeps DEF DiskInv, Issues, Abort
    <2> QED
      BY <2>1, <2>2
  <1> QED
    BY <1>1, <1>2, <1>3

LEMMA ManifestKeeps == LInv /\ WriteManifest => LInv'
PROOF
  <1> SUFFICES ASSUME LInv, WriteManifest PROVE LInv'
    OBVIOUS
  <1> USE DEF LInv
  <1>1. /\ outcomes = << >> /\ outcomes' = outcomes /\ hashes = [n \in Name |-> None]
        /\ hashes' = [hashes EXCEPT !["manifest"] = Manifest]
        /\ Written("manifest", Manifest)
        /\ pc' = "evaluate" /\ measured' = measured /\ changes' = changes
    BY DEF WriteManifest, PhaseInv
  <1>2. TypeInv'
    BY <1>1, LedgerConstants, WrittenType DEF TypeInv
  <1>3. Measured' /\ PhaseInv' /\ ReturnInv'
    BY <1>1, LedgerConstants DEF Measured, PhaseInv, ReturnInv
  <1>4. HashInv'
    BY <1>1, LedgerConstants DEF HashInv
  <1>5. DiskInv'
    BY <1>1, WrittenKeeps, LedgerConstants DEF DiskInv, Issues
  <1> QED
    BY <1>2, <1>3, <1>4, <1>5

LEMMA EvaluateKeeps == LInv /\ Evaluate => LInv'
PROOF
  <1> SUFFICES ASSUME LInv, Evaluate PROVE LInv'
    OBVIOUS
  <1> USE DEF LInv
  <1> DEFINE k == Len(outcomes) + 1
  <1>1. k \in Index /\ outcomes \in Seq(Row) /\ pc' = "persist" /\ pc = "evaluate"
        /\ hashes' = hashes /\ disk' = disk /\ changes' = changes
    BY LedgerConstants DEF Evaluate, TypeInv, Index, N
  <1>2. \E row \in Row :
          /\ outcomes' = Append(outcomes, row) /\ row.id = Schedule[k] /\ ~ row.persisted
          /\ measured' \in [Sample -> Endpoint \cup {None}]
          /\ \A s \in Sample : s # Schedule[k] => measured'[s] = measured[s]
          /\ Has(row) => row.metrics = measured'[Schedule[k]]
    <2>1. CASE \E status \in {"load_error", "execution_error"} :
                 outcomes' = Append(outcomes, Outcome(status, None)) /\ UNCHANGED measured
      <3>1. PICK status \in {"load_error", "execution_error"} :
              outcomes' = Append(outcomes, Outcome(status, None)) /\ UNCHANGED measured
        BY <2>1
      <3>2. Outcome(status, None) \in Row
        BY <1>1, LedgerConstants DEF Outcome, Row
      <3> QED
        BY <3>1, <3>2 DEF Outcome, Has, TypeInv
    <2>2. CASE \E e \in Endpoint :
                 /\ outcomes' = Append(outcomes, IF Consistent(e) THEN Outcome("evaluated", e)
                                                 ELSE Outcome("execution_error", None))
                 /\ measured' = [measured EXCEPT ![Schedule[Len(outcomes) + 1]] = e]
      <3>1. PICK e \in Endpoint :
              /\ outcomes' = Append(outcomes, IF Consistent(e) THEN Outcome("evaluated", e)
                                              ELSE Outcome("execution_error", None))
              /\ measured' = [measured EXCEPT ![Schedule[k]] = e]
        BY <2>2
      <3>2. /\ measured' \in [Sample -> Endpoint \cup {None}]
            /\ measured'[Schedule[k]] = e
            /\ \A s \in Sample : s # Schedule[k] => measured'[s] = measured[s]
        BY <3>1, <1>1, LedgerConstants DEF TypeInv
      <3>3. CASE Consistent(e)
        <4>1. Outcome("evaluated", e) \in Row
          BY <1>1, <3>3, LedgerConstants DEF Outcome, Row
        <4> QED
          BY <3>1, <3>2, <3>3, <4>1 DEF Outcome
      <3>4. CASE ~ Consistent(e)
        <4>1. Outcome("execution_error", None) \in Row
          BY <1>1, LedgerConstants DEF Outcome, Row
        <4> QED
          BY <3>1, <3>2, <3>4, <4>1 DEF Outcome, Has
      <3> QED
        BY <3>3, <3>4
    <2> QED
      BY <2>1, <2>2 DEF Evaluate
  <1>3. PICK row \in Row :
          /\ outcomes' = Append(outcomes, row) /\ row.id = Schedule[k] /\ ~ row.persisted
          /\ measured' \in [Sample -> Endpoint \cup {None}]
          /\ \A s \in Sample : s # Schedule[k] => measured'[s] = measured[s]
          /\ Has(row) => row.metrics = measured'[Schedule[k]]
    BY <1>2
  <1>4. /\ outcomes' \in Seq(Row) /\ Len(outcomes') = k /\ outcomes'[k] = row
        /\ \A i \in 1 .. Len(outcomes) : outcomes'[i] = outcomes[i]
    BY <1>1, <1>3
  <1>5. TypeInv'
    BY <1>1, <1>3, <1>4 DEF TypeInv, Index
  <1>6. Measured'
    <2> SUFFICES ASSUME NEW i \in 1 .. k
                 PROVE  /\ outcomes'[i].id = Schedule[i]
                        /\ Has(outcomes'[i]) => outcomes'[i].metrics = measured'[Schedule[i]]
      BY <1>4 DEF Measured, Has
    <2>1. CASE i = k
      BY <2>1, <1>3, <1>4
    <2>2. CASE i \in 1 .. Len(outcomes)
      <3>1. Schedule[i] \in Sample /\ Schedule[i] # Schedule[k]
        BY <2>2, <1>1, LedgerConstants DEF Index
      <3> QED
        BY <2>2, <3>1, <1>3, <1>4 DEF Measured
    <2> QED
      BY <1>1, <2>1, <2>2
  <1>7. PhaseInv' /\ ReturnInv'
    BY <1>1, <1>3, <1>4 DEF PhaseInv, ReturnInv, Index
  <1>8. HashInv'
    <2>1. \A i \in Index : hashes'[Schedule[i]] =
            IF i \in 1 .. Len(outcomes') /\ outcomes'[i].persisted THEN outcomes'[i] ELSE None
      <3> SUFFICES ASSUME NEW i \in Index
                   PROVE  hashes[Schedule[i]] =
                            IF i \in 1 .. k /\ outcomes'[i].persisted THEN outcomes'[i] ELSE None
        BY <1>1, <1>4
      <3>0. hashes[Schedule[i]] = IF i \in 1 .. Len(outcomes) /\ outcomes[i].persisted
                                  THEN outcomes[i] ELSE None
        BY <1>1 DEF HashInv
      <3>1. CASE i = k
        BY <3>1, <3>0, <1>1, <1>3, <1>4
      <3>2. CASE i # k
        BY <3>2, <3>0, <1>1, <1>4
      <3> QED
        BY <3>1, <3>2
    <2> QED
      BY <2>1, <1>1 DEF HashInv
  <1>9. DiskInv'
    BY <1>1 DEF DiskInv, Issues
  <1> QED
    BY <1>5, <1>6, <1>7, <1>8, <1>9

(* The last outcome, as it is written to its file.                         *)
LEMMA LastRow ==
  ASSUME LInv, pc = "persist"
  PROVE  LET n == Len(outcomes)
         IN  /\ n \in Index /\ n > 0 /\ Current = Schedule[n] /\ Current \in Name
             /\ Retained \in Row /\ Retained.persisted /\ Retained # None
             /\ Retained.id = Schedule[n] /\ Has(Retained) = Has(outcomes[n])
             /\ Retained.metrics = outcomes[n].metrics
             /\ hashes[Current] = None
             /\ AfterRow = IF n = N THEN "summary" ELSE "evaluate"
PROOF
  <1> DEFINE n == Len(outcomes)
  <1>1. n \in Index /\ n > 0 /\ ~ outcomes[n].persisted /\ outcomes[n] \in Row
    BY LedgerConstants DEF LInv, TypeInv, PhaseInv, Index
  <1>2. Current = Schedule[n] /\ Current \in Name
    BY <1>1, LedgerConstants DEF Current
  <1>3. /\ Retained \in Row /\ Retained.persisted /\ Retained # None
        /\ Retained.id = outcomes[n].id /\ Has(Retained) = Has(outcomes[n])
        /\ Retained.metrics = outcomes[n].metrics
    BY <1>1, RowFields DEF Retained
  <1>4. outcomes[n].id = Schedule[n]
    BY <1>1 DEF LInv, Measured, Index
  <1>5. hashes[Current] = None
    BY <1>1, <1>2 DEF LInv, HashInv
  <1>6. AfterRow = IF n = N THEN "summary" ELSE "evaluate"
    BY DEF AfterRow, N
  <1> QED
    BY <1>1, <1>2, <1>3, <1>4, <1>5, <1>6

LEMMA PersistKeeps == LInv /\ Persist => LInv'
PROOF
  <1> SUFFICES ASSUME LInv, Persist PROVE LInv'
    OBVIOUS
  <1> USE DEF LInv
  <1> DEFINE n == Len(outcomes)
             row == Retained
  <1>0. pc = "persist"
    BY DEF Persist
  <1>1. /\ n \in Index /\ n > 0 /\ Current = Schedule[n] /\ Current \in Name
        /\ row \in Row /\ row.persisted /\ row # None
        /\ row.id = Schedule[n] /\ Has(row) = Has(outcomes[n])
        /\ row.metrics = outcomes[n].metrics /\ hashes[Current] = None
        /\ AfterRow = IF n = N THEN "summary" ELSE "evaluate"
    BY <1>0, LastRow
  <1> HIDE DEF row
  <1>2. /\ outcomes' = [outcomes EXCEPT ![n] = row]
        /\ hashes' = [hashes EXCEPT ![Current] = row]
        /\ Written(Current, row) /\ pc' = AfterRow
        /\ measured' = measured /\ changes' = changes
    BY DEF Persist, row
  <1>3. /\ outcomes' \in Seq(Row) /\ Len(outcomes') = n /\ outcomes'[n] = row
        /\ \A i \in 1 .. n : i # n => outcomes'[i] = outcomes[i]
    BY <1>1, <1>2 DEF TypeInv
  <1>4. /\ hashes' \in [Name -> Row \cup {Manifest, None}]
        /\ hashes'[Current] = row
        /\ \A k \in Name : k # Current => hashes'[k] = hashes[k]
    BY <1>1, <1>2 DEF TypeInv
  <1>5. TypeInv'
    BY <1>1, <1>2, <1>3, <1>4, WrittenType DEF TypeInv
  <1>6. Measured'
    BY <1>1, <1>2, <1>3 DEF Measured, Has
  <1>7. PhaseInv' /\ ReturnInv'
    BY <1>1, <1>2, <1>3, LedgerConstants DEF PhaseInv, ReturnInv, Index, TypeInv
  <1>8. HashInv'
    <2>1. hashes'["manifest"] = Manifest /\ hashes'["summary"] = None
      BY <1>0, <1>1, <1>4, LedgerConstants DEF HashInv
    <2>2. ASSUME NEW i \in Index
          PROVE  hashes'[Schedule[i]] =
                   IF i \in 1 .. n /\ outcomes'[i].persisted THEN outcomes'[i] ELSE None
      <3>0. hashes[Schedule[i]] = IF i \in 1 .. n /\ outcomes[i].persisted
                                  THEN outcomes[i] ELSE None
        BY <1>0 DEF HashInv
      <3>1. CASE i = n
        BY <3>1, <1>1, <1>3, <1>4 DEF Index
      <3>2. CASE i # n
        <4>1. Schedule[i] # Current /\ Schedule[i] \in Name
          BY <3>2, <1>1, LedgerConstants
        <4> QED
          BY <3>0, <3>2, <4>1, <1>3, <1>4
      <3> QED
        BY <3>1, <3>2
    <2> QED
      BY <2>1, <2>2, <1>3 DEF HashInv
  <1>9. DiskInv'
    BY <1>1, <1>2, <1>4, WrittenKeeps DEF DiskInv, Issues
  <1> QED
    BY <1>5, <1>6, <1>7, <1>8, <1>9

LEMMA PersistFailsKeeps == LInv /\ PersistFails => LInv'
PROOF
  <1> SUFFICES ASSUME LInv, PersistFails PROVE LInv'
    OBVIOUS
  <1> USE DEF LInv
  <1>0. /\ pc = "persist" /\ pc' = AfterRow /\ UNCHANGED <<outcomes, hashes, measured, changes>>
        /\ UNCHANGED disk \/ Written(Current, Retained)
    BY DEF PersistFails, NotWritten
  <1>1. /\ Len(outcomes) \in Index /\ Current \in Name
        /\ AfterRow = IF Len(outcomes) = N THEN "summary" ELSE "evaluate"
    BY <1>0, LastRow
  <1>2. TypeInv'
    BY <1>0, <1>1, WrittenType DEF TypeInv
  <1>3. Measured' /\ PhaseInv' /\ HashInv' /\ ReturnInv'
    BY <1>0, <1>1, LedgerConstants DEF Measured, PhaseInv, HashInv, ReturnInv, Index, TypeInv
  <1>4. DiskInv'
    <2>1. CASE UNCHANGED disk
      BY <2>1, <1>0 DEF DiskInv, Issues
    <2>2. CASE Written(Current, Retained)
      BY <2>2, <1>0, <1>1, WrittenKeeps DEF DiskInv, Issues
    <2> QED
      BY <2>1, <2>2, <1>0
  <1> QED
    BY <1>2, <1>3, <1>4

LEMMA SummaryKeeps == LInv /\ WriteSummary => LInv'
PROOF
  <1> SUFFICES ASSUME LInv, WriteSummary PROVE LInv'
    OBVIOUS
  <1> USE DEF LInv
  <1> DEFINE s == Summary(outcomes, hashes, Issues(hashes))
  <1>1. /\ pc = "summary" /\ pc' = "done" /\ Written("summary", s) /\ returned' = s
        /\ UNCHANGED <<outcomes, hashes, measured, changes>>
    BY DEF WriteSummary
  <1>2. s.issues = Issues(hashes)
    BY DEF Summary
  <1> HIDE DEF s
  <1>3. TypeInv'
    BY <1>1, LedgerConstants, WrittenType DEF TypeInv
  <1>4. Measured' /\ PhaseInv' /\ HashInv'
    BY <1>1 DEF Measured, PhaseInv, HashInv
  <1>5. DiskInv'
    BY <1>1, WrittenKeeps, LedgerConstants DEF DiskInv, Issues
  <1>6. ReturnInv'
    <2>1. returned' = Summary(outcomes', hashes', returned'.issues)
      BY <1>1, <1>2 DEF s
    <2>2. changes' = 0 => returned'.issues = {} /\ disk'["summary"] = returned'
      BY <1>1, <1>2, WrittenKeeps, LedgerConstants DEF DiskInv
    <2> QED
      BY <2>1, <2>2 DEF ReturnInv
  <1> QED
    BY <1>3, <1>4, <1>5, <1>6

(* What somebody changes afterwards is on the disk only.                   *)
LEMMA ChangesKeep == LInv /\ (Change \/ Forge) => LInv'
PROOF
  <1> SUFFICES ASSUME LInv, Change \/ Forge PROVE LInv'
    OBVIOUS
  <1> USE DEF LInv
  <1>1. /\ changes' = changes + 1
        /\ UNCHANGED <<pc, outcomes, hashes, returned, measured>>
    BY DEF Change, Forge
  <1>2. DOMAIN disk' = Name /\ disk' = [n \in Name |-> disk'[n]]
    <2>1. CASE Change
      <3>1. PICK n \in Name : \E document : disk' = [disk EXCEPT ![n] = document]
        BY <2>1 DEF Change
      <3> QED
        BY <3>1 DEF TypeInv
    <2>2. CASE Forge
      <3>1. PICK m, rows :
              disk' = [HashesOf(m, rows) EXCEPT !["summary"] =
                         Summary(rows, HashesOf(m, rows), {})]
        BY <2>2 DEF Forge
      <3> DEFINE h == HashesOf(m, rows)
                 document == Summary(rows, h, {})
      <3>2. h = [n \in Name |-> h[n]]
        BY DEF HashesOf
      <3>3. disk' = [h EXCEPT !["summary"] = document]
        BY <3>1
      <3> HIDE DEF h, document
      <3> QED
        BY <3>2, <3>3
    <2> QED
      BY <2>1, <2>2
  <1>3. changes' \in Nat /\ changes' # 0
    BY <1>1 DEF TypeInv
  <1>4. TypeInv'
    BY <1>1, <1>2, <1>3 DEF TypeInv
  <1>5. Measured' /\ PhaseInv' /\ HashInv'
    BY <1>1 DEF Measured, PhaseInv, HashInv
  <1>6. DiskInv' /\ ReturnInv'
    BY <1>1, <1>3 DEF DiskInv, ReturnInv
  <1> QED
    BY <1>4, <1>5, <1>6

LEMMA LedgerStep == LInv /\ [Next]_vars => LInv'
PROOF
  <1> SUFFICES ASSUME LInv, [Next]_vars PROVE LInv'
    OBVIOUS
  <1>1. CASE WriteManifest
    BY <1>1, ManifestKeeps
  <1>2. CASE ManifestFails
    BY <1>2, AbortKeeps, LedgerConstants DEF ManifestFails, NotWritten
  <1>3. CASE Evaluate
    BY <1>3, EvaluateKeeps
  <1>4. CASE Persist
    BY <1>4, PersistKeeps
  <1>5. CASE PersistFails
    BY <1>5, PersistFailsKeeps
  <1>6. CASE WriteSummary
    BY <1>6, SummaryKeeps
  <1>7. CASE SummaryFails
    <2>1. Abort /\ NotWritten("summary", Summary(outcomes, hashes, Issues(hashes)))
      BY <1>7 DEF SummaryFails
    <2> QED
      BY <2>1, AbortKeeps, LedgerConstants DEF NotWritten
  <1>8. CASE Interrupted
    BY <1>8, AbortKeeps, LedgerConstants DEF Interrupted
  <1>9. CASE Change \/ Forge
    BY <1>9, ChangesKeep
  <1>10. CASE UNCHANGED vars
    <2>1. UNCHANGED <<pc, outcomes, hashes, disk, returned, measured, changes>>
      BY <1>10 DEF vars
    <2> QED
      BY <2>1 DEF LInv, TypeInv, Measured, PhaseInv, HashInv, DiskInv, ReturnInv, Issues
  <1> QED
    BY <1>1, <1>2, <1>3, <1>4, <1>5, <1>6, <1>7, <1>8, <1>9, <1>10 DEF Next

(* A finished ledger nobody touched passes the audit; one that passes with *)
(* the hashes kept outside tells what the executor measured, and is valid  *)
(* for inference only with every sample's record in place.                 *)
THEOREM AnchoredTrue == Spec => []AnchoredIsTrue
PROOF
  <1>1. Spec => []LInv
    BY LedgerInit, LedgerStep, PTL DEF Spec
  <1> QED
    BY <1>1, Anchoring, PTL
-----------------------------------------------------------------------------
(***************************************************************************)
(* ProjectHistory: what reading a file accepts, and what an applied        *)
(* proposal has made of a project.                                         *)
(***************************************************************************)

(***************************************************************************)
(* Fields: what is put is got, and nothing else is touched.                *)
(***************************************************************************)
AnyValues(field) == Values(field, Seq(Cutouts))

(* The fields that instructions change.                                    *)
EditedFields == {"wall", "lid.clearance", "cutouts"}

LEMMA SpecShape ==
  ASSUME NEW s \in Specs
  PROVE  /\ s.wall \in Value /\ s.cutouts \in Seq(Cutouts)
         /\ s.lid \in Lids /\ s.lid.kind \in Kinds /\ s.lid.clearance \in Value
         /\ s = [wall |-> s.wall, lid |-> s.lid, cutouts |-> s.cutouts]
         /\ s.lid = [kind |-> s.lid.kind, clearance |-> s.lid.clearance]
BY DEF Specs, Lids

LEMMA GetIs ==
  ASSUME NEW s
  PROVE  /\ Get(s, "wall") = s.wall
         /\ Get(s, "lid") = s.lid
         /\ Get(s, "lid.kind") = s.lid.kind
         /\ Get(s, "lid.clearance") = s.lid.clearance
         /\ Get(s, "cutouts") = s.cutouts
BY DEF Get

LEMMA PutIs ==
  ASSUME NEW s \in Specs, NEW v
  PROVE  /\ Put(s, "wall", v) = [wall |-> v, lid |-> s.lid, cutouts |-> s.cutouts]
         /\ Put(s, "lid", v) = [wall |-> s.wall, lid |-> v, cutouts |-> s.cutouts]
         /\ Put(s, "lid.kind", v) = [wall |-> s.wall, cutouts |-> s.cutouts,
                                     lid |-> [kind |-> v, clearance |-> s.lid.clearance]]
         /\ Put(s, "lid.clearance", v) = [wall |-> s.wall, cutouts |-> s.cutouts,
                                          lid |-> [kind |-> s.lid.kind, clearance |-> v]]
         /\ Put(s, "cutouts", v) = [wall |-> s.wall, lid |-> s.lid, cutouts |-> v]
<1>1. Put(s, "wall", v) = [wall |-> v, lid |-> s.lid, cutouts |-> s.cutouts]
  BY DEF Put, Specs, Lids
<1>2. Put(s, "lid", v) = [wall |-> s.wall, lid |-> v, cutouts |-> s.cutouts]
  BY DEF Put, Specs, Lids
<1>3. Put(s, "cutouts", v) = [wall |-> s.wall, lid |-> s.lid, cutouts |-> v]
  BY DEF Put, Specs, Lids
<1>4. Put(s, "lid.kind", v) = [wall |-> s.wall, cutouts |-> s.cutouts,
                               lid |-> [kind |-> v, clearance |-> s.lid.clearance]]
  BY DEF Put, Specs, Lids
<1>5. Put(s, "lid.clearance", v) = [wall |-> s.wall, cutouts |-> s.cutouts,
                                    lid |-> [kind |-> s.lid.kind, clearance |-> v]]
  BY DEF Put, Specs, Lids
<1> QED BY <1>1, <1>2, <1>3, <1>4, <1>5

(* The three laws of a field, and its type.                                *)
LEMMA FieldLaws ==
  ASSUME NEW s \in Specs, NEW field \in Fields, NEW v \in AnyValues(field)
  PROVE  /\ Get(s, field) \in AnyValues(field)
         /\ Put(s, field, v) \in Specs
         /\ Get(Put(s, field, v), field) = v
         /\ Put(s, field, Get(s, field)) = s
         /\ \A w : Put(Put(s, field, v), field, w) = Put(s, field, w)
<1>1. /\ AnyValues("wall") = Value /\ AnyValues("lid") = Lids
      /\ AnyValues("lid.kind") = Kinds /\ AnyValues("lid.clearance") = Value
      /\ AnyValues("cutouts") = Seq(Cutouts)
  BY DEF AnyValues, Values
<1>2. Get(s, field) \in AnyValues(field)
  <2>1. /\ Get(s, "wall") \in Value /\ Get(s, "lid") \in Lids
        /\ Get(s, "lid.kind") \in Kinds /\ Get(s, "lid.clearance") \in Value
        /\ Get(s, "cutouts") \in Seq(Cutouts)
    BY SpecShape, GetIs
  <2>2. CASE field = "wall" BY <1>1, <2>1, <2>2
  <2>3. CASE field = "lid" BY <1>1, <2>1, <2>3
  <2>4. CASE field = "lid.kind" BY <1>1, <2>1, <2>4
  <2>5. CASE field = "lid.clearance" BY <1>1, <2>1, <2>5
  <2>6. CASE field = "cutouts" BY <1>1, <2>1, <2>6
  <2> QED BY <2>2, <2>3, <2>4, <2>5, <2>6 DEF Fields
<1>3. CASE field = "wall"
  <2>1. Put(s, field, v) \in Specs
    <3>1. v \in AnyValues("wall") BY <1>3
    <3> QED BY <1>1, <1>3, <3>1, SpecShape, PutIs DEF Specs, Lids
  <2>2. Get(Put(s, field, v), field) = v BY <1>3, PutIs, GetIs
  <2>3. Put(s, field, Get(s, field)) = s
    <3>1. Put(s, "wall", s.wall) = s
      <4> DEFINE w == s.wall
      <4> HIDE DEF w
      <4>1. Put(s, "wall", w) = [wall |-> w, lid |-> s.lid, cutouts |-> s.cutouts]
        BY PutIs
      <4> QED BY <4>1, SpecShape, Zenon DEF w
    <3> QED BY <3>1, GetIs, <1>3
  <2>4. \A w : Put(Put(s, field, v), field, w) = Put(s, field, w) BY <1>3, <2>1, PutIs
  <2> QED BY <1>2, <2>1, <2>2, <2>3, <2>4
<1>4. CASE field = "lid"
  <2>1. Put(s, field, v) \in Specs
    <3>1. v \in AnyValues("lid") BY <1>4
    <3> QED BY <1>1, <1>4, <3>1, SpecShape, PutIs DEF Specs
  <2>2. Get(Put(s, field, v), field) = v BY <1>4, PutIs, GetIs
  <2>3. Put(s, field, Get(s, field)) = s
    <3>1. Put(s, "lid", s.lid) = s
      <4> DEFINE w == s.lid
      <4> HIDE DEF w
      <4>1. Put(s, "lid", w) = [wall |-> s.wall, lid |-> w, cutouts |-> s.cutouts]
        BY PutIs
      <4> QED BY <4>1, SpecShape, Zenon DEF w
    <3> QED BY <3>1, GetIs, <1>4
  <2>4. \A w : Put(Put(s, field, v), field, w) = Put(s, field, w) BY <1>4, <2>1, PutIs
  <2> QED BY <1>2, <2>1, <2>2, <2>3, <2>4
<1>5. CASE field = "lid.kind"
  <2>1. Put(s, field, v) \in Specs
    <3>1. v \in AnyValues("lid.kind") BY <1>5
    <3> QED BY <1>1, <1>5, <3>1, SpecShape, PutIs DEF Specs, Lids
  <2>2. Get(Put(s, field, v), field) = v BY <1>5, PutIs, GetIs
  <2>3. Put(s, field, Get(s, field)) = s
    <3>1. Put(s, "lid.kind", s.lid.kind) = s
      <4> DEFINE w == s.lid.kind
      <4> HIDE DEF w
      <4>1. Put(s, "lid.kind", w) = [wall |-> s.wall, cutouts |-> s.cutouts,
                               lid |-> [kind |-> w, clearance |-> s.lid.clearance]]
        BY PutIs
      <4> QED BY <4>1, SpecShape, Zenon DEF w
    <3> QED BY <3>1, GetIs, <1>5
  <2>4. \A w : Put(Put(s, field, v), field, w) = Put(s, field, w) BY <1>5, <2>1, PutIs
  <2> QED BY <1>2, <2>1, <2>2, <2>3, <2>4
<1>6. CASE field = "lid.clearance"
  <2>1. Put(s, field, v) \in Specs
    <3>1. v \in AnyValues("lid.clearance") BY <1>6
    <3> QED BY <1>1, <1>6, <3>1, SpecShape, PutIs DEF Specs, Lids
  <2>2. Get(Put(s, field, v), field) = v BY <1>6, PutIs, GetIs
  <2>3. Put(s, field, Get(s, field)) = s
    <3>1. Put(s, "lid.clearance", s.lid.clearance) = s
      <4> DEFINE w == s.lid.clearance
      <4> HIDE DEF w
      <4>1. Put(s, "lid.clearance", w) = [wall |-> s.wall, cutouts |-> s.cutouts,
                                    lid |-> [kind |-> s.lid.kind, clearance |-> w]]
        BY PutIs
      <4> QED BY <4>1, SpecShape, Zenon DEF w
    <3> QED BY <3>1, GetIs, <1>6
  <2>4. \A w : Put(Put(s, field, v), field, w) = Put(s, field, w) BY <1>6, <2>1, PutIs
  <2> QED BY <1>2, <2>1, <2>2, <2>3, <2>4
<1>7. CASE field = "cutouts"
  <2>1. Put(s, field, v) \in Specs
    <3>1. v \in AnyValues("cutouts") BY <1>7
    <3> QED BY <1>1, <1>7, <3>1, SpecShape, PutIs DEF Specs, Lids
  <2>2. Get(Put(s, field, v), field) = v BY <1>7, PutIs, GetIs
  <2>3. Put(s, field, Get(s, field)) = s
    <3>1. Put(s, "cutouts", s.cutouts) = s
      <4> DEFINE w == s.cutouts
      <4> HIDE DEF w
      <4>1. Put(s, "cutouts", w) = [wall |-> s.wall, lid |-> s.lid, cutouts |-> w]
        BY PutIs
      <4> QED BY <4>1, SpecShape, Zenon DEF w
    <3> QED BY <3>1, GetIs, <1>7
  <2>4. \A w : Put(Put(s, field, v), field, w) = Put(s, field, w) BY <1>7, <2>1, PutIs
  <2> QED BY <1>2, <2>1, <2>2, <2>3, <2>4
<1> QED BY <1>3, <1>4, <1>5, <1>6, <1>7 DEF Fields

(* An instruction's field is changed alone.                                *)
LEMMA OthersStay ==
  ASSUME NEW s \in Specs, NEW field \in EditedFields, NEW v
  PROVE  /\ \A other \in EditedFields \ {field} : Get(Put(s, field, v), other) = Get(s, other)
         /\ Get(Put(s, field, v), field) = v
         /\ Put(s, field, v).lid.kind = s.lid.kind
<1> USE SpecShape, GetIs, PutIs
<1>1. CASE field = "wall" BY <1>1 DEF EditedFields
<1>2. CASE field = "lid.clearance" BY <1>2 DEF EditedFields
<1>3. CASE field = "cutouts" BY <1>3 DEF EditedFields
<1> QED BY <1>1, <1>2, <1>3 DEF EditedFields

(***************************************************************************)
(* A project file, valid or not, and the ways through its history.         *)
(***************************************************************************)
ChangeOf(f) == [revision : Nat, field : {f}, before : AnyValues(f), after : AnyValues(f)]
Changes == UNION {ChangeOf(f) : f \in Fields \cup {"title"}}
Project == [spec : Specs, revision : Nat, changes : Seq(Changes)]

LEMMA ChangeShape ==
  ASSUME NEW change \in Changes
  PROVE  /\ change.revision \in Nat
         /\ change.field \in Fields \cup {"title"}
         /\ change.before \in AnyValues(change.field)
         /\ change.after \in AnyValues(change.field)
BY DEF Changes, ChangeOf

(* The specifications from the first one to the recorded one, as they are  *)
(* when changes are undone, and as they are when changes are made.         *)
Way(c, spec, history) ==
  /\ c \in [0 .. Len(history) -> Specs]
  /\ c[Len(history)] = spec
  /\ \A k \in 0 .. Len(history) : Valid(c[k])
  /\ \A k \in 1 .. Len(history) : history[k].field \in Fields

Undoes(change, earlier, later) ==
  Get(later, change.field) = change.after /\ earlier = Put(later, change.field, change.before)
Makes(change, earlier, later) ==
  Get(earlier, change.field) = change.before /\ later = Put(earlier, change.field, change.after)

Back(c, spec, history) ==
  Way(c, spec, history) /\ \A k \in 1 .. Len(history) : Undoes(history[k], c[k - 1], c[k])
Forth(c, spec, history) ==
  Way(c, spec, history) /\ \A k \in 1 .. Len(history) : Makes(history[k], c[k - 1], c[k])

LEMMA UndoesIsMakes ==
  ASSUME NEW change \in Changes, change.field \in Fields, NEW s \in Specs, NEW t \in Specs
  PROVE  Undoes(change, s, t) <=> Makes(change, s, t)
<1> DEFINE f == change.field
           b == change.before
           a == change.after
<1>1. f \in Fields /\ b \in AnyValues(f) /\ a \in AnyValues(f) BY ChangeShape
<1>2. Undoes(change, s, t) <=> Get(t, f) = a /\ s = Put(t, f, b) BY DEF Undoes
<1>3. Makes(change, s, t) <=> Get(s, f) = b /\ t = Put(s, f, a) BY DEF Makes
<1> HIDE DEF f, a, b
<1>4. ASSUME Get(t, f) = a, s = Put(t, f, b) PROVE Get(s, f) = b /\ t = Put(s, f, a)
  <2>1. Get(s, f) = b BY <1>1, <1>4, FieldLaws
  <2>2. Put(Put(t, f, b), f, a) = Put(t, f, a) BY <1>1, FieldLaws
  <2>3. Put(t, f, Get(t, f)) = t BY <1>1, FieldLaws
  <2> QED BY <2>1, <2>2, <2>3, <1>4
<1>5. ASSUME Get(s, f) = b, t = Put(s, f, a) PROVE Get(t, f) = a /\ s = Put(t, f, b)
  <2>1. Get(t, f) = a BY <1>1, <1>5, FieldLaws
  <2>2. Put(Put(s, f, a), f, b) = Put(s, f, b) BY <1>1, FieldLaws
  <2>3. Put(s, f, Get(s, f)) = s BY <1>1, FieldLaws
  <2> QED BY <2>1, <2>2, <2>3, <1>5
<1> QED BY <1>2, <1>3, <1>4, <1>5

LEMMA BackIsForth ==
  ASSUME NEW history \in Seq(Changes), NEW spec, NEW c
  PROVE  Back(c, spec, history) <=> Forth(c, spec, history)
<1> SUFFICES ASSUME Way(c, spec, history), NEW k \in 1 .. Len(history)
             PROVE  Undoes(history[k], c[k - 1], c[k]) <=> Makes(history[k], c[k - 1], c[k])
  BY DEF Back, Forth
<1>1. history[k] \in Changes /\ history[k].field \in Fields BY DEF Way
<1>2. k \in 0 .. Len(history) /\ k - 1 \in 0 .. Len(history) OBVIOUS
<1>3. c[k - 1] \in Specs /\ c[k] \in Specs BY <1>2 DEF Way
<1> QED BY <1>1, <1>3, UndoesIsMakes

(***************************************************************************)
(* Reading a file undoes its history.                                      *)
(***************************************************************************)
Reading == [ok : BOOLEAN, spec : Specs]

LEMMA ValidIsBoolean == \A s : Valid(s) \in BOOLEAN
BY DEF Valid

LEMMA BeforeType ==
  ASSUME NEW s \in Reading, NEW change \in Changes
  PROVE  Before(s, change) \in Reading
<1>1. CASE change.field \in Fields
  <2>1. Undone(s.spec, change) \in Specs BY <1>1, ChangeShape, FieldLaws DEF Undone, Reading
  <2>2. Valid(Undone(s.spec, change)) \in BOOLEAN BY ValidIsBoolean
  <2> QED BY <2>1, <2>2 DEF Before, Reading
<1>2. CASE change.field \notin Fields BY <1>2 DEF Before, Reading
<1> QED BY <1>1, <1>2

(* The states of reading: the k changes made last have been undone.        *)
LEMMA ReadingSteps ==
  ASSUME NEW p \in Project
  PROVE  \E back \in [0 .. Len(p.changes) -> Reading] :
           /\ back[0] = [ok |-> Valid(p.spec), spec |-> p.spec]
           /\ \A k \in 1 .. Len(p.changes) :
                back[k] = Before(back[k - 1], p.changes[Len(p.changes) + 1 - k])
           /\ Parses(p) <=> /\ p.revision = Len(p.changes) + 1
                            /\ \A i \in DOMAIN p.changes : p.changes[i].revision = i + 1
                            /\ back[Len(p.changes)].ok
<1> DEFINE n == Len(p.changes)
           first == [ok |-> Valid(p.spec), spec |-> p.spec]
           step == [x \in (1 .. n) \X Reading |-> Before(x[2], p.changes[n + 1 - x[1]])]
           IsBack(g) == g = [k \in 0 .. n |-> IF k = 0 THEN first
                                              ELSE Before(g[k - 1], p.changes[n + 1 - k])]
           back == CHOOSE g : IsBack(g)
<1>1. n \in Nat /\ \A k \in 1 .. n : p.changes[n + 1 - k] \in Changes
  <2>1. p.changes \in Seq(Changes) BY DEF Project
  <2> QED BY <2>1
<1>2. first \in Reading BY ValidIsBoolean DEF Reading, Project
<1>3. step \in [(1 .. n) \X Reading -> Reading]
  <2> SUFFICES ASSUME NEW k \in 1 .. n, NEW s \in Reading
               PROVE  Before(s, p.changes[n + 1 - k]) \in Reading
    OBVIOUS
  <2> HIDE DEF n
  <2> QED BY <1>1, BeforeType
<1>4. \A k \in 1 .. n, s \in Reading : step[<<k, s>>] = Before(s, p.changes[n + 1 - k]) OBVIOUS
<1> HIDE DEF n, first, step
<1>5. PICK f : Follows(f, Reading, n, first, step) BY <1>1, <1>2, <1>3, Recursion, Zenon
<1>6. IsBack(f)
  <2>1. f = [k \in 0 .. n |-> f[k]] BY <1>5 DEF Follows
  <2>2. ASSUME NEW k \in 0 .. n
        PROVE  f[k] = IF k = 0 THEN first ELSE Before(f[k - 1], p.changes[n + 1 - k])
    <3>1. CASE k = 0 BY <3>1, <1>5 DEF Follows
    <3>2. CASE k # 0
      <4>1. k \in 1 .. n /\ k - 1 \in 0 .. n BY <3>2, <1>1
      <4>2. f[k - 1] \in Reading /\ f[k] = step[<<k, f[k - 1]>>] BY <4>1, <1>5 DEF Follows
      <4> QED BY <4>1, <4>2, <3>2, <1>4
    <3> QED BY <3>1, <3>2
  <2> QED BY <2>1, <2>2
<1>7. IsBack(back) BY <1>6
<1>8. Parses(p) <=> /\ p.revision = n + 1
                    /\ \A i \in DOMAIN p.changes : p.changes[i].revision = i + 1
                    /\ back[n].ok
  BY DEF Parses, n, first
<1> HIDE DEF back
<1>9. DOMAIN back = 0 .. n /\ back = [k \in 0 .. n |-> back[k]] /\ back[0] = first BY <1>1, <1>7
<1>10. ASSUME NEW k \in 1 .. n PROVE back[k] = Before(back[k - 1], p.changes[n + 1 - k])
  <2>1. k \in 0 .. n /\ k # 0 BY <1>1
  <2> QED BY <2>1, <1>7
<1>11. ASSUME NEW k \in 1 .. n, back[k - 1] \in Reading PROVE back[k] = step[<<k, back[k - 1]>>]
  BY <1>4, <1>10, <1>11
<1>12. Follows(back, Reading, n, first, step)
  BY <1>1, <1>2, <1>3, <1>9, <1>11, RecursionType
<1> QED BY <1>8, <1>9, <1>10, <1>12 DEF Follows, n, first

LEMMA BeforeIsUndone ==
  ASSUME NEW s \in Reading, NEW change
  PROVE  /\ Before(s, change).ok <=> /\ s.ok /\ change.field \in Fields
                                     /\ Get(s.spec, change.field) = change.after
                                     /\ Valid(Put(s.spec, change.field, change.before))
         /\ Before(s, change).ok =>
              Before(s, change).spec = Put(s.spec, change.field, change.before)
BY ValidIsBoolean DEF Before, Undone, Matches, Reading

(* A file is read exactly if all of its history can be undone.             *)
LEMMA ParsesIsBack ==
  ASSUME NEW p \in Project
  PROVE  Parses(p) <=> /\ p.revision = Len(p.changes) + 1
                       /\ \A i \in DOMAIN p.changes : p.changes[i].revision = i + 1
                       /\ \E c : Back(c, p.spec, p.changes)
<1> DEFINE history == p.changes
           n == Len(history)
<1>1. PICK back \in [0 .. n -> Reading] :
        /\ back[0] = [ok |-> Valid(p.spec), spec |-> p.spec]
        /\ \A k \in 1 .. n : back[k] = Before(back[k - 1], history[n + 1 - k])
        /\ Parses(p) <=> /\ p.revision = n + 1
                         /\ \A i \in DOMAIN p.changes : p.changes[i].revision = i + 1
                         /\ back[n].ok
  BY ReadingSteps
<1>2. n \in Nat /\ history \in Seq(Changes) /\ p.spec \in Specs BY DEF Project
<1> SUFFICES back[n].ok <=> \E c : Back(c, p.spec, history) BY <1>1
<1> HIDE DEF n, history
<1>3. \A k \in 0 .. n : back[k] \in Reading BY <1>1
<1>4. ASSUME back[n].ok PROVE \E c : Back(c, p.spec, history)
  <2> DEFINE S == {k \in Nat : k <= n => back[n - k].ok}
  <2>1. 0 \in S BY <1>2, <1>4
  <2>2. ASSUME NEW k \in Nat, k \in S PROVE k + 1 \in S
    <3> SUFFICES ASSUME k + 1 <= n PROVE back[n - (k + 1)].ok OBVIOUS
    <3>1. back[n - k].ok BY <1>2, <2>2
    <3>2. n - k \in 1 .. n /\ n - (k + 1) \in 0 .. n /\ (n - k) - 1 = n - (k + 1) BY <1>2
    <3>3. back[n - k] = Before(back[n - (k + 1)], history[n + 1 - (n - k)]) BY <3>2, <1>1
    <3>4. back[n - (k + 1)] \in Reading BY <3>2, <1>3
    <3> DEFINE r == back[n - (k + 1)]
               ch == history[n + 1 - (n - k)]
    <3>5. Before(r, ch).ok BY <3>1, <3>3
    <3> HIDE DEF ch
    <3> QED BY <3>4, <3>5, BeforeIsUndone
  <2> HIDE DEF S
  <2>3. Nat \subseteq S BY <2>1, <2>2, SetInduction
  <2>4. ASSUME NEW k \in 0 .. n PROVE back[k].ok
    <3>1. n - k \in Nat /\ n - k <= n /\ n - (n - k) = k BY <1>2
    <3> QED BY <3>1, <2>3 DEF S
  <2>5. ASSUME NEW k \in 1 .. n
        PROVE  /\ history[n + 1 - k].field \in Fields
               /\ Undoes(history[n + 1 - k], back[k].spec, back[k - 1].spec)
               /\ Valid(back[k].spec)
    <3>1. k \in 0 .. n /\ k - 1 \in 0 .. n BY <1>2
    <3>2. back[k] = Before(back[k - 1], history[n + 1 - k]) /\ back[k].ok BY <3>1, <1>1, <2>4
    <3> DEFINE r == back[k - 1]
               ch == history[n + 1 - k]
    <3>3. r \in Reading /\ Before(r, ch).ok /\ back[k] = Before(r, ch) BY <3>1, <3>2, <1>3
    <3> HIDE DEF r, ch
    <3>4. /\ ch.field \in Fields /\ Get(r.spec, ch.field) = ch.after
          /\ Valid(Put(r.spec, ch.field, ch.before))
          /\ back[k].spec = Put(r.spec, ch.field, ch.before)
      BY <3>3, BeforeIsUndone
    <3> QED BY <3>4 DEF Undoes, r, ch
  <2> DEFINE c == [k \in 0 .. n |-> back[n - k].spec]
  <2>6. c \in [0 .. n -> Specs]
    <3> SUFFICES ASSUME NEW k \in 0 .. n PROVE back[n - k].spec \in Specs OBVIOUS
    <3>1. n - k \in 0 .. n BY <1>2
    <3> QED BY <3>1, <1>3 DEF Reading
  <2>7. c[n] = p.spec BY <1>1, <1>2
  <2>8. ASSUME NEW k \in 0 .. n PROVE Valid(c[k])
    <3>1. CASE k = n
      <4>1. back[0].ok BY <1>2, <2>4
      <4> QED BY <4>1, <3>1, <2>7, <1>1
    <3>2. CASE k # n
      <4>1. n - k \in 1 .. n BY <3>2, <1>2
      <4> QED BY <4>1, <2>5
    <3> QED BY <3>1, <3>2
  <2>9. ASSUME NEW k \in 1 .. n
        PROVE  history[k].field \in Fields /\ Undoes(history[k], c[k - 1], c[k])
    <3>1. /\ n + 1 - k \in 1 .. n /\ n + 1 - (n + 1 - k) = k
          /\ (n + 1 - k) - 1 = n - k /\ n - (k - 1) = n + 1 - k
          /\ k \in 0 .. n /\ k - 1 \in 0 .. n
      BY <1>2
    <3>2. c[k] = back[n - k].spec /\ c[k - 1] = back[n + 1 - k].spec BY <3>1
    <3> HIDE DEF c
    <3> QED BY <3>1, <3>2, <2>5
  <2> HIDE DEF c
  <2>10. Back(c, p.spec, history) BY <2>6, <2>7, <2>8, <2>9 DEF Back, Way, n
  <2> QED BY <2>10
<1>5. ASSUME NEW c, Back(c, p.spec, history) PROVE back[n].ok
  <2>1. /\ c \in [0 .. n -> Specs] /\ c[n] = p.spec
        /\ \A k \in 0 .. n : Valid(c[k])
        /\ \A k \in 1 .. n : history[k].field \in Fields /\ Undoes(history[k], c[k - 1], c[k])
    BY <1>5 DEF Back, Way, n
  <2> DEFINE S == {k \in Nat : k <= n => back[k].ok /\ back[k].spec = c[n - k]}
  <2>2. 0 \in S
    <3>1. Valid(p.spec) /\ n \in 0 .. n /\ n - 0 = n BY <1>2, <2>1
    <3> QED BY <3>1, <1>1, <2>1
  <2>3. ASSUME NEW k \in Nat, k \in S PROVE k + 1 \in S
    <3> SUFFICES ASSUME k + 1 <= n PROVE back[k + 1].ok /\ back[k + 1].spec = c[n - (k + 1)]
      OBVIOUS
    <3>1. back[k].ok /\ back[k].spec = c[n - k] BY <1>2, <2>3
    <3>2. /\ k + 1 \in 1 .. n /\ (k + 1) - 1 = k /\ k \in 0 .. n
          /\ n + 1 - (k + 1) = n - k /\ n - k \in 1 .. n
          /\ (n - k) - 1 = n - (k + 1) /\ n - (k + 1) \in 0 .. n
      BY <1>2
    <3>3. back[k + 1] = Before(back[k], history[n - k]) /\ back[k] \in Reading
      BY <3>2, <1>1, <1>3
    <3>4. /\ history[n - k].field \in Fields
          /\ Undoes(history[n - k], c[n - (k + 1)], c[n - k])
          /\ Valid(c[n - (k + 1)])
      BY <3>2, <2>1
    <3>5. /\ Get(back[k].spec, history[n - k].field) = history[n - k].after
          /\ c[n - (k + 1)] = Put(back[k].spec, history[n - k].field, history[n - k].before)
      BY <3>1, <3>4 DEF Undoes
    <3> DEFINE r == back[k]
               ch == history[n - k]
               earlier == c[n - (k + 1)]
    <3>6. r \in Reading /\ back[k + 1] = Before(r, ch) /\ r.ok BY <3>1, <3>3
    <3>7. /\ ch.field \in Fields /\ Get(r.spec, ch.field) = ch.after
          /\ earlier = Put(r.spec, ch.field, ch.before) /\ Valid(earlier)
      BY <3>4, <3>5
    <3> HIDE DEF r, ch, earlier
    <3>8. Before(r, ch).ok /\ Before(r, ch).spec = earlier BY <3>6, <3>7, BeforeIsUndone
    <3> QED BY <3>6, <3>8 DEF earlier
  <2> HIDE DEF S
  <2>4. Nat \subseteq S BY <2>2, <2>3, SetInduction
  <2> QED BY <2>4, <1>2 DEF S
<1> QED BY <1>4, <1>5

(***************************************************************************)
(* What the changes make of the valid specifications.                      *)
(***************************************************************************)
LEMMA ValidSpecsAre == \A s : s \in ValidSpecs <=> s \in Specs /\ Valid(s)
<1>1. ASSUME NEW s \in Specs, Valid(s) PROVE s.cutouts \in CutoutSeqs
  <2> DEFINE cs == s.cutouts
             n == Len(cs)
             ids == [i \in 1 .. n |-> cs[i].id]
  <2>1. cs \in Seq(Cutouts) /\ Cardinality(IdsOf(cs)) = n
    BY <1>1, SpecShape DEF Valid
  <2> HIDE DEF cs
  <2>2. n \in Nat /\ DOMAIN cs = 1 .. n /\ cs \in [1 .. n -> Cutouts] BY <2>1
  <2>3. \A i \in 1 .. n : cs[i].id \in Ids BY <2>2 DEF Cutouts
  <2> HIDE DEF n
  <2>4. ids \in Surjection(1 .. n, IdsOf(cs))
    <3>1. IdsOf(cs) = {cs[i].id : i \in 1 .. n} BY <2>2 DEF IdsOf
    <3>2. ids \in [1 .. n -> IdsOf(cs)] BY <3>1
    <3>3. \A t \in IdsOf(cs) : \E i \in 1 .. n : ids[i] = t BY <3>1
    <3> QED BY <3>2, <3>3 DEF Surjection
  <2>5. IsFiniteSet(1 .. n) /\ Cardinality(1 .. n) = n BY <2>2, FS_Interval
  <2>6. ids \in Injection(1 .. n, IdsOf(cs))
    <3> HIDE DEF ids
    <3>1. Cardinality(1 .. n) = Cardinality(IdsOf(cs)) BY <2>1, <2>5 DEF n
    <3> QED BY <3>1, <2>4, <2>5, FS_SurjSameCardinalityImpliesInj
  <2>7. IsInjective([i \in DOMAIN cs |-> cs[i].id])
    <3>1. \A a, b \in 1 .. n : ids[a] = ids[b] => a = b BY <2>6 DEF Injection, IsInjective
    <3> QED BY <3>1, <2>2 DEF IsInjective
  <2>8. n \in 0 .. Cardinality(Ids)
    <3>1. IdsOf(cs) \subseteq Ids BY <2>2, <2>3 DEF IdsOf
    <3>2. Cardinality(IdsOf(cs)) <= Cardinality(Ids) /\ Cardinality(Ids) \in Nat
      BY <3>1, IdsAssumption, FS_Subset, FS_CardinalityType
    <3>3. n <= Cardinality(Ids) BY <3>2, <2>1 DEF n
    <3> QED BY <3>2, <3>3, <2>2
  <2>9. cs \in SeqOf(Cutouts, Cardinality(Ids)) BY <2>2, <2>8 DEF SeqOf
  <2> QED BY <2>7, <2>9 DEF CutoutSeqs, cs
<1>2. ASSUME NEW s \in Specs, Valid(s) PROVE s \in ValidSpecs
  <2>1. s.cutouts \in CutoutSeqs BY <1>1, <1>2
  <2>2. s.wall \in Value /\ s.lid \in Lids
        /\ s = [wall |-> s.wall, lid |-> s.lid, cutouts |-> s.cutouts]
    BY SpecShape
  <2>3. ASSUME NEW w \in Value, NEW l, NEW c \in CutoutSeqs
        PROVE  [wall |-> w, lid |-> l, cutouts |-> c] \in
                 [wall : Value, lid : {l}, cutouts : CutoutSeqs]
    OBVIOUS
  <2>4. s \in [wall : Value, lid : {s.lid}, cutouts : CutoutSeqs]
    BY <2>1, <2>2, <2>3, Zenon
  <2>5. s \in {t \in [wall : Value, lid : {s.lid}, cutouts : CutoutSeqs] : Valid(t)}
    BY <2>4, <1>2
  <2> QED BY <2>2, <2>5 DEF ValidSpecs
<1>3. ASSUME NEW s \in ValidSpecs PROVE s \in Specs /\ Valid(s)
  <2>1. PICK lid \in Lids : s \in [wall : Value, lid : {lid}, cutouts : CutoutSeqs] /\ Valid(s)
    BY DEF ValidSpecs
  <2>2. s.cutouts \in Seq(Cutouts)
    <3>1. s.cutouts \in SeqOf(Cutouts, Cardinality(Ids)) BY <2>1 DEF CutoutSeqs
    <3>2. PICK m \in 0 .. Cardinality(Ids) : s.cutouts \in [1 .. m -> Cutouts] BY <3>1 DEF SeqOf
    <3>3. m \in Nat BY IdsAssumption, FS_CardinalityType
    <3> QED BY <3>2, <3>3
  <2>3. s \in Specs BY <2>1, <2>2 DEF Specs
  <2> QED BY <2>1, <2>3
<1> QED BY <1>2, <1>3

(* The specifications that one change makes of those in S.                 *)
Made(S, change) ==
  {s \in {Put(t, change.field, change.after) :
            t \in {u \in S : Get(u, change.field) = change.before}} : Valid(s)}

LEMMA MadeIs ==
  ASSUME NEW S, NEW change, NEW s
  PROVE  s \in Made(S, change) <=> Valid(s) /\ \E t \in S : Makes(change, t, s)
BY DEF Made, Makes

LEMMA MadeType ==
  ASSUME NEW S \in SUBSET Specs, NEW change \in Changes, change.field \in Fields
  PROVE  Made(S, change) \in SUBSET Specs
<1> SUFFICES ASSUME NEW s \in Made(S, change) PROVE s \in Specs OBVIOUS
<1>1. PICK t \in S : s = Put(t, change.field, change.after) BY MadeIs DEF Makes
<1> QED BY <1>1, ChangeShape, FieldLaws

LEMMA OutcomesSteps ==
  ASSUME NEW history \in Seq(Changes), \A k \in 1 .. Len(history) : history[k].field \in Fields
  PROVE  \E after \in [0 .. Len(history) -> SUBSET Specs] :
           /\ after[0] = ValidSpecs
           /\ \A k \in 1 .. Len(history) : after[k] = Made(after[k - 1], history[k])
           /\ Outcomes(history) = after[Len(history)]
<1> DEFINE n == Len(history)
           step == [x \in (1 .. n) \X (SUBSET Specs) |-> Made(x[2], history[x[1]])]
           Raw(S, k) == {s \in {Put(t, history[k].field, history[k].after) :
                                  t \in {u \in S : Get(u, history[k].field) = history[k].before}} :
                           Valid(s)}
           IsAfter(g) == g = [k \in 0 .. Len(history) |->
                                IF k = 0 THEN ValidSpecs ELSE Raw(g[k - 1], k)]
           after == CHOOSE g : IsAfter(g)
<1>1. \A S, k : Raw(S, k) = Made(S, history[k]) BY DEF Made
<1>2. n \in Nat /\ ValidSpecs \in SUBSET Specs BY ValidSpecsAre
<1>3. step \in [(1 .. n) \X (SUBSET Specs) -> SUBSET Specs]
  <2> SUFFICES ASSUME NEW k \in 1 .. n, NEW S \in SUBSET Specs
               PROVE  Made(S, history[k]) \in SUBSET Specs
    OBVIOUS
  <2> QED BY MadeType
<1>4. \A k \in 1 .. n, S \in SUBSET Specs : step[<<k, S>>] = Made(S, history[k]) OBVIOUS
<1>5. Outcomes(history) = after[n] BY DEF Outcomes
<1> DEFINE X == SUBSET Specs
<1> HIDE DEF Raw, n, step, X
<1>6. PICK f : Follows(f, X, n, ValidSpecs, step)
  BY <1>2, <1>3, Recursion, Zenon DEF X
<1>7. IsAfter(f)
  <2>1. f = [k \in 0 .. n |-> f[k]] BY <1>6 DEF Follows
  <2>2. ASSUME NEW k \in 0 .. n
        PROVE  f[k] = IF k = 0 THEN ValidSpecs ELSE Raw(f[k - 1], k)
    <3>1. CASE k = 0 BY <3>1, <1>6 DEF Follows
    <3>2. CASE k # 0
      <4>1. k \in 1 .. n /\ k - 1 \in 0 .. n BY <3>2, <1>2
      <4>2. f[k - 1] \in X /\ f[k] = step[<<k, f[k - 1]>>] BY <4>1, <1>6 DEF Follows
      <4>3. f[k] = Made(f[k - 1], history[k]) BY <4>1, <4>2, <1>4 DEF X
      <4> QED BY <4>3, <3>2, <1>1
    <3> QED BY <3>1, <3>2
  <2> QED BY <2>1, <2>2 DEF n
<1>8. IsAfter(after) BY <1>7
<1> HIDE DEF after
<1>9. DOMAIN after = 0 .. n /\ after = [k \in 0 .. n |-> after[k]] /\ after[0] = ValidSpecs
  BY <1>2, <1>8 DEF n
<1>10. ASSUME NEW k \in 1 .. n PROVE after[k] = Made(after[k - 1], history[k])
  <2>1. k \in 0 .. n /\ k # 0 BY <1>2
  <2>2. after[k] = Raw(after[k - 1], k) BY <2>1, <1>8 DEF n
  <2> QED BY <2>2, <1>1
<1>11. ASSUME NEW k \in 1 .. n, after[k - 1] \in X PROVE after[k] = step[<<k, after[k - 1]>>]
  BY <1>4, <1>10, <1>11 DEF X
<1>12. ValidSpecs \in X /\ step \in [(1 .. n) \X X -> X] BY <1>2, <1>3 DEF X
<1>13. Follows(after, X, n, ValidSpecs, step)
  BY <1>2, <1>9, <1>11, <1>12, RecursionType
<1> QED BY <1>5, <1>9, <1>10, <1>13 DEF Follows, n, X

LEMMA OutcomesAreForth ==
  ASSUME NEW history \in Seq(Changes), NEW spec,
         \A k \in 1 .. Len(history) : history[k].field \in Fields
  PROVE  spec \in Outcomes(history) <=> \E c : Forth(c, spec, history)
<1> DEFINE n == Len(history)
<1>1. PICK after \in [0 .. n -> SUBSET Specs] :
        /\ after[0] = ValidSpecs
        /\ \A k \in 1 .. n : after[k] = Made(after[k - 1], history[k])
        /\ Outcomes(history) = after[n]
  BY OutcomesSteps
<1>2. n \in Nat OBVIOUS
<1> HIDE DEF n
<1>3. \A k \in 0 .. n : after[k] \subseteq Specs BY <1>1
<1>4. ASSUME spec \in after[n] PROVE \E c : Forth(c, spec, history)
  <2> DEFINE Leads(c, k, s) == /\ c \in [0 .. k -> Specs]
                               /\ c[k] = s
                               /\ \A j \in 0 .. k : Valid(c[j])
                               /\ \A j \in 1 .. k : Makes(history[j], c[j - 1], c[j])
             S == {k \in Nat : k <= n => \A s \in after[k] : \E c : Leads(c, k, s)}
  <2>1. 0 \in S
    <3> SUFFICES ASSUME NEW s \in after[0] PROVE \E c : Leads(c, 0, s) OBVIOUS
    <3>1. s \in Specs /\ Valid(s) BY <1>1, ValidSpecsAre
    <3>2. Leads([j \in 0 .. 0 |-> s], 0, s) BY <3>1
    <3> QED BY <3>2
  <2>2. ASSUME NEW k \in Nat, k \in S PROVE k + 1 \in S
    <3> SUFFICES ASSUME k + 1 <= n, NEW s \in after[k + 1] PROVE \E c : Leads(c, k + 1, s)
      OBVIOUS
    <3>1. k + 1 \in 1 .. n /\ (k + 1) - 1 = k /\ k + 1 \in 0 .. n BY <1>2
    <3>2. s \in Made(after[k], history[k + 1]) BY <3>1, <1>1
    <3>3. Valid(s) /\ s \in Specs BY <3>1, <3>2, <1>3, MadeIs
    <3>4. PICK t \in after[k] : Makes(history[k + 1], t, s) BY <3>2, MadeIs
    <3>5. PICK d : Leads(d, k, t)
      <4>1. k <= n BY <1>2, <3>1
      <4> HIDE DEF Leads
      <4> QED BY <4>1, <2>2
    <3> DEFINE c == [j \in 0 .. k + 1 |-> IF j = k + 1 THEN s ELSE d[j]]
    <3>6. c \in [0 .. k + 1 -> Specs] BY <3>3, <3>5
    <3>7. c[k + 1] = s OBVIOUS
    <3>8. ASSUME NEW j \in 0 .. k + 1 PROVE Valid(c[j])
      <4>1. CASE j = k + 1 BY <4>1, <3>3
      <4>2. CASE j # k + 1
        <5>1. j \in 0 .. k BY <4>2
        <5> QED BY <5>1, <4>2, <3>5
      <4> QED BY <4>1, <4>2
    <3>9. ASSUME NEW j \in 1 .. k + 1 PROVE Makes(history[j], c[j - 1], c[j])
      <4>1. CASE j = k + 1
        <5>1. j - 1 = k /\ k # k + 1 /\ k \in 0 .. k + 1 BY <4>1
        <5>2. c[j - 1] = d[k] /\ d[k] = t BY <5>1, <3>5
        <5>3. c[j] = s BY <4>1
        <5> QED BY <4>1, <5>2, <5>3, <3>4
      <4>2. CASE j # k + 1
        <5>1. j \in 1 .. k /\ j \in 0 .. k + 1 /\ j - 1 \in 0 .. k + 1 /\ j - 1 # k + 1
          BY <4>2
        <5>2. c[j] = d[j] /\ c[j - 1] = d[j - 1] BY <5>1, <4>2
        <5> QED BY <5>1, <5>2, <3>5
      <4> QED BY <4>1, <4>2
    <3> HIDE DEF c
    <3>10. Leads(c, k + 1, s) BY <3>6, <3>7, <3>8, <3>9
    <3> QED BY <3>10
  <2> HIDE DEF S
  <2>3. Nat \subseteq S BY <2>1, <2>2, SetInduction
  <2>4. PICK c : Leads(c, n, spec)
    <3>1. n \in S BY <2>3, <1>2
    <3> HIDE DEF Leads
    <3> QED BY <3>1, <1>2, <1>4 DEF S
  <2>5. Forth(c, spec, history) BY <2>4 DEF Forth, Way, n
  <2> QED BY <2>5
<1>5. ASSUME NEW c, Forth(c, spec, history) PROVE spec \in after[n]
  <2>1. /\ c \in [0 .. n -> Specs] /\ c[n] = spec
        /\ \A j \in 0 .. n : Valid(c[j])
        /\ \A j \in 1 .. n : Makes(history[j], c[j - 1], c[j])
    BY <1>5 DEF Forth, Way, n
  <2> DEFINE S == {k \in Nat : k <= n => c[k] \in after[k]}
  <2>2. 0 \in S
    <3>1. 0 \in 0 .. n BY <1>2
    <3>2. c[0] \in Specs /\ Valid(c[0]) BY <3>1, <2>1
    <3> QED BY <3>2, <1>1, ValidSpecsAre
  <2>3. ASSUME NEW k \in Nat, k \in S PROVE k + 1 \in S
    <3> SUFFICES ASSUME k + 1 <= n PROVE c[k + 1] \in after[k + 1] OBVIOUS
    <3>1. k + 1 \in 1 .. n /\ (k + 1) - 1 = k /\ k + 1 \in 0 .. n BY <1>2
    <3>2. c[k] \in after[k] BY <1>2, <2>3
    <3>3. Makes(history[k + 1], c[k], c[k + 1]) /\ Valid(c[k + 1]) BY <3>1, <2>1
    <3>4. c[k + 1] \in Made(after[k], history[k + 1]) BY <3>2, <3>3, MadeIs
    <3> QED BY <3>1, <3>4, <1>1
  <2> HIDE DEF S
  <2>4. Nat \subseteq S BY <2>2, <2>3, SetInduction
  <2>5. c[n] \in after[n] BY <2>4, <1>2 DEF S
  <2> QED BY <2>1, <2>5
<1> QED BY <1>1, <1>4, <1>5

(* Reading a file by undoing its changes accepts exactly the files whose   *)
(* changes lead from a valid specification to the recorded one, for every  *)
(* length of the history (project.py:405-465).                             *)
LEMMA ReadingIsExact ==
  ASSUME NEW p \in Project
  PROVE  Parses(p) <=>
           /\ p.revision = Len(p.changes) + 1
           /\ \A i \in DOMAIN p.changes : p.changes[i].revision = i + 1 /\ p.changes[i].field \in Fields
           /\ p.spec \in Outcomes(p.changes)
<1>1. p.changes \in Seq(Changes) /\ DOMAIN p.changes = 1 .. Len(p.changes) BY DEF Project
<1>2. (\E c : Back(c, p.spec, p.changes)) <=> \E c : Forth(c, p.spec, p.changes)
  BY <1>1, BackIsForth
<1>3. (\E c : Back(c, p.spec, p.changes)) => \A i \in DOMAIN p.changes : p.changes[i].field \in Fields
  BY <1>1 DEF Back, Way
<1>4. CASE \A i \in 1 .. Len(p.changes) : p.changes[i].field \in Fields
  <2>1. p.spec \in Outcomes(p.changes) <=> \E c : Forth(c, p.spec, p.changes)
    BY <1>1, <1>4, OutcomesAreForth
  <2> QED BY <1>1, <1>2, <1>4, <2>1, ParsesIsBack
<1>5. CASE ~ \A i \in 1 .. Len(p.changes) : p.changes[i].field \in Fields
  BY <1>1, <1>3, <1>5, ParsesIsBack
<1> QED BY <1>4, <1>5

(***************************************************************************)
(* Instructions: what one of them makes of a specification.                *)
(***************************************************************************)
LEMMA InstructionShape ==
  ASSUME NEW a \in Instructions
  PROVE  /\ a.op \in {"wall", "lid.clearance", "add", "move", "remove"}
         /\ a.op \in {"wall", "lid.clearance"} => a.value \in Value
         /\ a.op \in {"add", "move"} => a.id \in Ids /\ a.value \in Value
         /\ a.op = "remove" => a.id \in Ids
BY InstructionsAssumption

LEMMA FieldOfIs ==
  ASSUME NEW a \in Instructions
  PROVE  /\ FieldOf(a) \in EditedFields /\ FieldOf(a) \in Fields
         /\ a.op \in {"wall", "lid.clearance"} => FieldOf(a) = a.op
         /\ a.op \in {"add", "move", "remove"} => FieldOf(a) = "cutouts"
BY InstructionShape DEF FieldOf, Fields, EditedFields

LEMMA ToSetAppend ==
  ASSUME NEW X, NEW s \in Seq(X), NEW x \in X
  PROVE  ToSet(Append(s, x)) = ToSet(s) \cup {x}
<1>1. DOMAIN s = 1 .. Len(s) /\ DOMAIN Append(s, x) = 1 .. Len(s) + 1 /\ Len(s) \in Nat OBVIOUS
<1>2. \A i \in 1 .. Len(s) : Append(s, x)[i] = s[i] OBVIOUS
<1>3. Append(s, x)[Len(s) + 1] = x OBVIOUS
<1> DEFINE t == Append(s, x)
<1> HIDE DEF t
<1>4. ToSet(t) \subseteq ToSet(s) \cup {x}
  <2> SUFFICES ASSUME NEW i \in 1 .. Len(s) + 1 PROVE t[i] \in ToSet(s) \cup {x}
    BY <1>1 DEF ToSet, t
  <2>1. CASE i = Len(s) + 1 BY <2>1, <1>3 DEF t
  <2>2. CASE i # Len(s) + 1
    <3>1. i \in 1 .. Len(s) BY <2>2, <1>1
    <3> QED BY <3>1, <1>1, <1>2 DEF ToSet, t
  <2> QED BY <2>1, <2>2
<1>5. ToSet(s) \cup {x} \subseteq ToSet(t)
  <2>1. x \in ToSet(t)
    <3>1. Len(s) + 1 \in DOMAIN t BY <1>1 DEF t
    <3> QED BY <3>1, <1>3 DEF ToSet, t
  <2>2. ASSUME NEW i \in 1 .. Len(s) PROVE s[i] \in ToSet(t)
    <3>1. i \in DOMAIN t BY <1>1 DEF t
    <3> QED BY <3>1, <1>2 DEF ToSet, t
  <2> QED BY <2>1, <2>2, <1>1 DEF ToSet
<1> QED BY <1>4, <1>5 DEF t

LEMMA WithoutSteps ==
  ASSUME NEW cs \in Seq(Cutouts), NEW id
  PROVE  \E among \in [0 .. Len(cs) -> Seq(Cutouts)] :
           /\ among[0] = << >>
           /\ \A n \in 1 .. Len(cs) :
                among[n] = IF cs[n].id # id THEN Append(among[n - 1], cs[n]) ELSE among[n - 1]
           /\ Without(cs, id) = among[Len(cs)]
<1> DEFINE L == Len(cs)
           X == Seq(Cutouts)
           next(n, q) == IF cs[n].id # id THEN Append(q, cs[n]) ELSE q
           step == [x \in (1 .. L) \X X |-> next(x[1], x[2])]
           IsAmong(g) == g = [n \in 0 .. Len(cs) |-> IF n = 0 THEN << >> ELSE next(n, g[n - 1])]
           among == CHOOSE g : IsAmong(g)
           first == << >>
<1>1. L \in Nat /\ first \in X OBVIOUS
<1>2. step \in [(1 .. L) \X X -> X]
  <2> SUFFICES ASSUME NEW n \in 1 .. L, NEW q \in X PROVE next(n, q) \in X OBVIOUS
  <2>1. cs[n] \in Cutouts OBVIOUS
  <2> QED BY <2>1
<1>3. \A n \in 1 .. L, q \in X : step[<<n, q>>] = next(n, q) OBVIOUS
<1>4. Without(cs, id) = among[L] BY DEF Without
<1> HIDE DEF L, X, step, first
<1>5. PICK f : Follows(f, X, L, first, step) BY <1>1, <1>2, Recursion, Zenon
<1>6. IsAmong(f)
  <2>1. f = [n \in 0 .. L |-> f[n]] BY <1>5 DEF Follows
  <2> HIDE DEF next
  <2>2. ASSUME NEW n \in 0 .. L PROVE f[n] = IF n = 0 THEN << >> ELSE next(n, f[n - 1])
    <3>1. CASE n = 0 BY <3>1, <1>5 DEF Follows, first
    <3>2. CASE n # 0
      <4>1. n \in 1 .. L /\ n - 1 \in 0 .. L BY <3>2, <1>1
      <4>2. f[n - 1] \in X /\ f[n] = step[<<n, f[n - 1]>>] BY <4>1, <1>5 DEF Follows
      <4> QED BY <4>1, <4>2, <3>2, <1>3
    <3> QED BY <3>1, <3>2
  <2> QED BY <2>1, <2>2 DEF L
<1>7. IsAmong(among) BY <1>6
<1> HIDE DEF among, next
<1>8. DOMAIN among = 0 .. L /\ among = [n \in 0 .. L |-> among[n]] /\ among[0] = first
  BY <1>1, <1>7 DEF L, first
<1>9. ASSUME NEW n \in 1 .. L PROVE among[n] = next(n, among[n - 1])
  <2>1. n \in 0 .. L /\ n # 0 BY <1>1
  <2> QED BY <2>1, <1>7 DEF L
<1>10. ASSUME NEW n \in 1 .. L, among[n - 1] \in X PROVE among[n] = step[<<n, among[n - 1]>>]
  BY <1>3, <1>9, <1>10
<1>11. Follows(among, X, L, first, step) BY <1>1, <1>2, <1>8, <1>10, RecursionType
<1> QED BY <1>4, <1>8, <1>9, <1>11 DEF Follows, L, X, first, next

LEMMA WithoutIs ==
  ASSUME NEW cs \in Seq(Cutouts), NEW id
  PROVE  /\ Without(cs, id) \in Seq(Cutouts)
         /\ ToSet(Without(cs, id)) = {c \in ToSet(cs) : c.id # id}
<1>1. PICK among \in [0 .. Len(cs) -> Seq(Cutouts)] :
        /\ among[0] = << >>
        /\ \A n \in 1 .. Len(cs) :
             among[n] = IF cs[n].id # id THEN Append(among[n - 1], cs[n]) ELSE among[n - 1]
        /\ Without(cs, id) = among[Len(cs)]
  BY WithoutSteps
<1> DEFINE L == Len(cs)
           Sofar(n) == {c \in {cs[i] : i \in 1 .. n} : c.id # id}
           S == {n \in Nat : n <= L => ToSet(among[n]) = Sofar(n)}
<1>2. 0 \in S
  <2>1. ToSet(<< >>) = {} BY DEF ToSet
  <2>2. Sofar(0) = {} OBVIOUS
  <2> QED BY <2>1, <2>2, <1>1
<1>3. ASSUME NEW n \in Nat, n \in S PROVE n + 1 \in S
  <2> SUFFICES ASSUME n + 1 <= L PROVE ToSet(among[n + 1]) = Sofar(n + 1) OBVIOUS
  <2>1. n + 1 \in 1 .. L /\ (n + 1) - 1 = n /\ n \in 0 .. L OBVIOUS
  <2>2. ToSet(among[n]) = Sofar(n) BY <1>3
  <2>3. among[n] \in Seq(Cutouts) /\ cs[n + 1] \in Cutouts
    <3>1. cs[n + 1] \in Cutouts BY <2>1
    <3> QED BY <2>1, <1>1, <3>1
  <2>4. {cs[i] : i \in 1 .. n + 1} = {cs[i] : i \in 1 .. n} \cup {cs[n + 1]}
    <3>1. 1 .. n + 1 = (1 .. n) \cup {n + 1} OBVIOUS
    <3> QED BY <3>1
  <2>5. CASE cs[n + 1].id # id
    <3>1. among[n + 1] = Append(among[n], cs[n + 1]) BY <2>1, <2>5, <1>1
    <3>2. ToSet(among[n + 1]) = Sofar(n) \cup {cs[n + 1]} BY <3>1, <2>2, <2>3, ToSetAppend
    <3> QED BY <3>2, <2>4, <2>5
  <2>6. CASE cs[n + 1].id = id
    <3>1. among[n + 1] = among[n] BY <2>1, <2>6, <1>1
    <3> QED BY <3>1, <2>2, <2>4, <2>6
  <2> QED BY <2>5, <2>6
<1> HIDE DEF S
<1>4. Nat \subseteq S BY <1>2, <1>3, SetInduction
<1>5. ToSet(among[L]) = Sofar(L)
  <2>1. L \in Nat OBVIOUS
  <2> HIDE DEF L
  <2>2. L \in S /\ L <= L BY <2>1, <1>4
  <2> QED BY <2>2 DEF S
<1>6. ToSet(cs) = {cs[i] : i \in 1 .. L} BY DEF ToSet
<1>7. among[L] \in Seq(Cutouts) BY <1>1
<1> QED BY <1>1, <1>5, <1>6, <1>7

(* What an instruction gives its field: a value of the field's type, in    *)
(* which the instruction can be seen; of cutouts, only its own changes.    *)
Others(cs, ids) == {c \in ToSet(cs) : c.id \notin ids}

LEMMA ValueOfIs ==
  ASSUME NEW s \in Specs, NEW a \in Instructions, Understood(s, a)
  PROVE  /\ ValueOf(s, a) \in AnyValues(FieldOf(a))
         /\ a.op \in {"wall", "lid.clearance"} => ValueOf(s, a) = a.value
         /\ a.op \in {"add", "move"} => [id |-> a.id, at |-> a.value] \in ToSet(ValueOf(s, a))
         /\ a.op = "remove" => a.id \notin IdsOf(ValueOf(s, a))
         /\ FieldOf(a) = "cutouts" => Others(ValueOf(s, a), {a.id}) = Others(s.cutouts, {a.id})
<1> DEFINE cs == s.cutouts
           v == ValueOf(s, a)
           new == [id |-> a.id, at |-> a.value]
<1>1. cs \in Seq(Cutouts) BY SpecShape
<1>2. CASE a.op \in {"wall", "lid.clearance"}
  <2>1. FieldOf(a) = a.op /\ a.value \in Value BY <1>2, InstructionShape, FieldOfIs
  <2>2. v = a.value BY <1>2 DEF ValueOf
  <2>3. AnyValues(a.op) = Value BY <1>2 DEF AnyValues, Values
  <2> QED BY <1>2, <2>1, <2>2, <2>3
<1>3. AnyValues("cutouts") = Seq(Cutouts) BY DEF AnyValues, Values
<1>4. CASE a.op = "add"
  <2>1. FieldOf(a) = "cutouts" /\ new \in Cutouts BY <1>4, InstructionShape, FieldOfIs DEF Cutouts
  <2>2. v = Append(cs, new) BY <1>4 DEF ValueOf
  <2> HIDE DEF cs, v, new
  <2>3. v \in Seq(Cutouts) /\ ToSet(v) = ToSet(cs) \cup {new} BY <1>1, <2>1, <2>2, ToSetAppend
  <2>4. new.id = a.id BY DEF new
  <2>5. Others(v, {a.id}) = Others(cs, {a.id}) BY <2>3, <2>4 DEF Others
  <2> QED BY <1>3, <1>4, <2>1, <2>3, <2>5 DEF v, cs, new
<1>5. CASE a.op = "move"
  <2>1. FieldOf(a) = "cutouts" /\ new \in Cutouts BY <1>5, InstructionShape, FieldOfIs DEF Cutouts
  <2>2. v = [i \in DOMAIN cs |-> IF cs[i].id = a.id THEN new ELSE cs[i]] BY <1>5 DEF ValueOf
  <2>3. PICK k \in DOMAIN cs : cs[k].id = a.id BY <1>5, FieldOfIs DEF Understood, IdsOf, Fields
  <2>4. new.id = a.id OBVIOUS
  <2> HIDE DEF cs, v, new
  <2>5. DOMAIN cs = 1 .. Len(cs) /\ Len(cs) \in Nat BY <1>1
  <2>6. v \in Seq(Cutouts) BY <1>1, <2>1, <2>2, <2>5
  <2>7. DOMAIN v = DOMAIN cs BY <2>2
  <2>8. new \in ToSet(v) BY <2>2, <2>3, <2>7 DEF ToSet
  <2>9. Others(v, {a.id}) = Others(cs, {a.id})
    <3>1. ASSUME NEW i \in DOMAIN cs, cs[i].id # a.id PROVE v[i] = cs[i] BY <2>2, <3>1
    <3>2. ASSUME NEW i \in DOMAIN cs, cs[i].id = a.id PROVE v[i] = new BY <2>2, <3>2
    <3>3. Others(v, {a.id}) \subseteq Others(cs, {a.id})
      BY <2>4, <2>7, <3>1, <3>2 DEF Others, ToSet
    <3>4. Others(cs, {a.id}) \subseteq Others(v, {a.id})
      BY <2>7, <3>1 DEF Others, ToSet
    <3> QED BY <3>3, <3>4
  <2> QED BY <1>3, <1>5, <2>1, <2>6, <2>8, <2>9 DEF v, cs, new
<1>6. CASE a.op = "remove"
  <2>1. FieldOf(a) = "cutouts" BY <1>6, FieldOfIs
  <2>2. v = Without(cs, a.id) BY <1>6 DEF ValueOf
  <2> HIDE DEF cs, v, new
  <2>3. v \in Seq(Cutouts) /\ ToSet(v) = {c \in ToSet(cs) : c.id # a.id}
    BY <1>1, <2>2, WithoutIs
  <2>4. a.id \notin IdsOf(v)
    <3>1. \A i \in DOMAIN v : v[i] \in ToSet(v) BY DEF ToSet
    <3>2. \A i \in DOMAIN v : v[i].id # a.id BY <3>1, <2>3
    <3> QED BY <3>2 DEF IdsOf
  <2>5. Others(v, {a.id}) = Others(cs, {a.id}) BY <2>3 DEF Others
  <2> QED BY <1>3, <1>6, <2>1, <2>3, <2>4, <2>5 DEF v, cs
<1> HIDE DEF cs, v, new
<1> QED BY <1>2, <1>4, <1>5, <1>6, InstructionShape

LEMMA UpdatedType ==
  ASSUME NEW p \in Project, NEW f \in Fields, NEW v \in AnyValues(f)
  PROVE  /\ Updated(p, f, v) \in Project
         /\ Updated(p, f, v).spec = Put(p.spec, f, v)
         /\ Updated(p, f, v).revision = p.revision + 1
         /\ Len(Updated(p, f, v).changes) = Len(p.changes) + 1
         /\ \A i \in 1 .. Len(p.changes) : Updated(p, f, v).changes[i] = p.changes[i]
<1> DEFINE new == [revision |-> p.revision + 1, field |-> f, before |-> Get(p.spec, f), after |-> v]
<1>1. p.spec \in Specs /\ p.revision \in Nat /\ p.changes \in Seq(Changes) BY DEF Project
<1>2. Updated(p, f, v) = [spec |-> Put(p.spec, f, v), revision |-> p.revision + 1,
                          changes |-> Append(p.changes, new)]
  BY DEF Updated
<1>3. Get(p.spec, f) \in AnyValues(f) /\ Put(p.spec, f, v) \in Specs BY <1>1, FieldLaws
<1>4. new \in Changes
  <2>1. new \in ChangeOf(f) BY <1>1, <1>3 DEF ChangeOf
  <2> QED BY <2>1 DEF Changes
<1> HIDE DEF new
<1>5. /\ Append(p.changes, new) \in Seq(Changes)
      /\ Len(Append(p.changes, new)) = Len(p.changes) + 1
      /\ \A i \in 1 .. Len(p.changes) : Append(p.changes, new)[i] = p.changes[i]
  BY <1>1, <1>4
<1>6. Updated(p, f, v) \in Project BY <1>1, <1>2, <1>3, <1>5 DEF Project
<1> QED BY <1>2, <1>5, <1>6

LEMMA InstructedType ==
  ASSUME NEW p \in Project, NEW a \in Instructions, Understood(p.spec, a)
  PROVE  /\ Instructed(p, a) \in Project
         /\ Instructed(p, a).spec = Put(p.spec, FieldOf(a), ValueOf(p.spec, a))
         /\ Instructed(p, a).revision = p.revision + 1
         /\ Len(Instructed(p, a).changes) = Len(p.changes) + 1
         /\ \A i \in 1 .. Len(p.changes) : Instructed(p, a).changes[i] = p.changes[i]
<1> DEFINE f == FieldOf(a)
           v == ValueOf(p.spec, a)
<1>1. f \in Fields /\ v \in AnyValues(f)
  <2>1. p.spec \in Specs BY DEF Project
  <2> QED BY <2>1, FieldOfIs, ValueOfIs
<1>2. Instructed(p, a) = Updated(p, f, v) BY DEF Instructed
<1> HIDE DEF f, v
<1>3. /\ Updated(p, f, v) \in Project
      /\ Updated(p, f, v).spec = Put(p.spec, f, v)
      /\ Updated(p, f, v).revision = p.revision + 1
      /\ Len(Updated(p, f, v).changes) = Len(p.changes) + 1
      /\ \A i \in 1 .. Len(p.changes) : Updated(p, f, v).changes[i] = p.changes[i]
  BY <1>1, UpdatedType
<1> QED BY <1>2, <1>3 DEF f, v

(* Whether an action can be seen is told by its field.                     *)
LEMMA HoldsByField ==
  ASSUME NEW s \in Specs, NEW t \in Specs, NEW a \in Instructions,
         Get(s, FieldOf(a)) = Get(t, FieldOf(a)), Holds(s, a)
  PROVE  Holds(t, a)
<1>1. CASE a.op \in {"wall", "lid.clearance"} BY <1>1, FieldOfIs DEF Holds, Fields
<1>2. CASE a.op \in {"add", "move", "remove"}
  <2>1. s.cutouts = t.cutouts BY <1>2, FieldOfIs, GetIs
  <2>2. a.op \notin Fields BY <1>2 DEF Fields
  <2> QED BY <2>1, <2>2 DEF Holds
<1> QED BY <1>1, <1>2, InstructionShape

LEMMA HoldsAfter ==
  ASSUME NEW s \in Specs, NEW a \in Instructions, Understood(s, a)
  PROVE  Holds(Put(s, FieldOf(a), ValueOf(s, a)), a)
<1> DEFINE f == FieldOf(a)
           v == ValueOf(s, a)
           t == Put(s, f, v)
<1>1. f \in EditedFields /\ f \in Fields BY FieldOfIs
<1>2. Get(t, f) = v BY <1>1, OthersStay
<1> HIDE DEF v, t
<1>3. CASE a.op \in {"wall", "lid.clearance"}
  <2>1. f = a.op /\ v = a.value BY <1>3, FieldOfIs, ValueOfIs DEF v
  <2>2. Get(t, a.op) = a.value BY <1>2, <2>1
  <2>3. Holds(t, a) BY <1>3, <2>2 DEF Holds
  <2> QED BY <2>3 DEF t, v
<1>4. CASE a.op \in {"add", "move", "remove"}
  <2>1. f = "cutouts" BY <1>4, FieldOfIs
  <2>2. t.cutouts = v BY <1>2, <2>1, GetIs
  <2>3. a.op \notin Fields BY <1>4 DEF Fields
  <2>4. /\ a.op \in {"add", "move"} => [id |-> a.id, at |-> a.value] \in ToSet(v)
        /\ a.op = "remove" => a.id \notin IdsOf(v)
    BY ValueOfIs DEF v
  <2>5. Holds(t, a) BY <2>2, <2>3, <2>4 DEF Holds
  <2> QED BY <2>5 DEF t, v
<1> QED BY <1>3, <1>4, InstructionShape

(***************************************************************************)
(* The actions of a proposal, tried one after the other.                   *)
(***************************************************************************)
Touched == UNION {[D -> Value \cup Seq(Cutouts)] : D \in SUBSET EditedFields}
Trial == [ok : BOOLEAN, project : Project, touched : Touched]

TouchesOf(t, a) ==
  Touches(FieldOf(a), Get(t.project.spec, FieldOf(a)), ValueOf(t.project.spec, a))

(* What an action that is not refused makes of the trial.                  *)
TriedWell(t, a, u) ==
  u.ok =>
    /\ t.ok
    /\ Understood(t.project.spec, a)
    /\ u.project = Instructed(t.project, a)
    /\ TouchesOf(t, a) =>
         /\ FieldOf(a) \in DOMAIN t.touched => t.touched[FieldOf(a)] = ValueOf(t.project.spec, a)
         /\ u.touched = [g \in {FieldOf(a)} \cup DOMAIN t.touched |->
                           IF g = FieldOf(a) THEN ValueOf(t.project.spec, a) ELSE t.touched[g]]
    /\ ~ TouchesOf(t, a) => u.touched = t.touched

LEMMA TriedIs ==
  ASSUME NEW t \in Trial, NEW a \in Instructions
  PROVE  Tried(t, a) \in Trial /\ TriedWell(t, a, Tried(t, a))
<1> DEFINE f == FieldOf(a)
           v == ValueOf(t.project.spec, a)
           clash == TouchesOf(t, a) /\ f \in DOMAIN t.touched /\ t.touched[f] # v
           more == [g \in {f} \cup DOMAIN t.touched |-> IF g = f THEN v ELSE t.touched[g]]
<1>1. t.project \in Project /\ t.project.spec \in Specs /\ t.touched \in Touched
  BY DEF Trial, Project
<1>2. CASE ~ t.ok \/ clash \/ ~ Allows(t.project.spec, a)
  <2>1. Tried(t, a) = [t EXCEPT !.ok = FALSE] BY <1>2 DEF Tried, TouchesOf
  <2>2. [t EXCEPT !.ok = FALSE] \in Trial /\ ~ [t EXCEPT !.ok = FALSE].ok BY DEF Trial
  <2> QED BY <2>1, <2>2 DEF TriedWell
<1>3. CASE ~ (~ t.ok \/ clash \/ ~ Allows(t.project.spec, a))
  <2> DEFINE later == IF TouchesOf(t, a) THEN more ELSE t.touched
             u == [ok |-> TRUE, project |-> Instructed(t.project, a), touched |-> later]
  <2>1. Tried(t, a) = u BY <1>3 DEF Tried, TouchesOf
  <2>2. Understood(t.project.spec, a) /\ t.ok BY <1>3 DEF Allows
  <2>3. Instructed(t.project, a) \in Project BY <1>1, <2>2, InstructedType
  <2>4. f \in EditedFields /\ v \in Value \cup Seq(Cutouts)
    <3>1. f \in EditedFields /\ v \in AnyValues(f) BY <1>1, <2>2, FieldOfIs, ValueOfIs
    <3>2. AnyValues(f) \subseteq Value \cup Seq(Cutouts) BY <3>1 DEF AnyValues, Values, EditedFields
    <3> QED BY <3>1, <3>2
  <2> HIDE DEF f, v
  <2>5. more \in Touched
    <3>1. PICK D \in SUBSET EditedFields : t.touched \in [D -> Value \cup Seq(Cutouts)]
      BY <1>1 DEF Touched
    <3>2. more \in [{f} \cup D -> Value \cup Seq(Cutouts)] BY <2>4, <3>1
    <3> HIDE DEF more
    <3> QED BY <2>4, <3>2 DEF Touched
  <2> HIDE DEF more
  <2>6. u \in Trial BY <1>1, <2>3, <2>5 DEF Trial
  <2>7. u.ok /\ u.project = Instructed(t.project, a) /\ u.touched = later OBVIOUS
  <2> HIDE DEF u
  <2> QED BY <1>3, <2>1, <2>2, <2>6, <2>7 DEF f, v, more, TriedWell
<1> QED BY <1>2, <1>3

LEMMA TrialSteps ==
  ASSUME NEW p \in Project, NEW actions \in Seq(Instructions), NEW preserve
  PROVE  \E trial \in [0 .. Len(actions) -> Trial] :
           /\ trial[0] = [ok |-> TRUE, project |-> p, touched |-> << >>]
           /\ \A k \in 1 .. Len(actions) : trial[k] = Tried(trial[k - 1], actions[k])
           /\ Candidate(p, actions, preserve) =
                IF /\ actions # << >> /\ trial[Len(actions)].ok
                   /\ \A f \in preserve : Kept(p.spec, trial[Len(actions)].project.spec, f)
                THEN trial[Len(actions)].project ELSE NoFile
<1> DEFINE L == Len(actions)
           first == [ok |-> TRUE, project |-> p, touched |-> << >>]
           step == [x \in (1 .. L) \X Trial |-> Tried(x[2], actions[x[1]])]
           IsTrial(g) == g = [k \in 0 .. Len(actions) |->
                                IF k = 0 THEN first ELSE Tried(g[k - 1], actions[k])]
           trial == CHOOSE g : IsTrial(g)
<1>1. L \in Nat /\ \A k \in 1 .. L : actions[k] \in Instructions OBVIOUS
<1>2. first \in Trial
  <2>1. << >> \in [{} -> Value \cup Seq(Cutouts)] OBVIOUS
  <2>2. << >> \in Touched BY <2>1 DEF Touched
  <2> QED BY <2>2 DEF Trial
<1>3. step \in [(1 .. L) \X Trial -> Trial]
  <2> SUFFICES ASSUME NEW k \in 1 .. L, NEW t \in Trial PROVE Tried(t, actions[k]) \in Trial
    OBVIOUS
  <2> DEFINE a == actions[k]
  <2>1. a \in Instructions BY <1>1
  <2> HIDE DEF L, a
  <2>2. Tried(t, a) \in Trial BY <2>1, TriedIs
  <2> QED BY <2>2 DEF a
<1>4. \A k \in 1 .. L, t \in Trial : step[<<k, t>>] = Tried(t, actions[k]) OBVIOUS
<1>5. Candidate(p, actions, preserve) =
        IF /\ actions # << >> /\ trial[L].ok
           /\ \A f \in preserve : Kept(p.spec, trial[L].project.spec, f)
        THEN trial[L].project ELSE NoFile
  BY DEF Candidate
<1> HIDE DEF L, step, first
<1>6. PICK f : Follows(f, Trial, L, first, step) BY <1>1, <1>2, <1>3, Recursion, Zenon
<1>7. IsTrial(f)
  <2>1. f = [k \in 0 .. L |-> f[k]] BY <1>6 DEF Follows
  <2>2. ASSUME NEW k \in 0 .. L PROVE f[k] = IF k = 0 THEN first ELSE Tried(f[k - 1], actions[k])
    <3>1. CASE k = 0 BY <3>1, <1>6 DEF Follows
    <3>2. CASE k # 0
      <4>1. k \in 1 .. L /\ k - 1 \in 0 .. L BY <3>2, <1>1
      <4>2. f[k - 1] \in Trial /\ f[k] = step[<<k, f[k - 1]>>] BY <4>1, <1>6 DEF Follows
      <4> QED BY <4>1, <4>2, <3>2, <1>4
    <3> QED BY <3>1, <3>2
  <2> QED BY <2>1, <2>2 DEF L
<1>8. IsTrial(trial) BY <1>7
<1> HIDE DEF trial
<1>9. DOMAIN trial = 0 .. L /\ trial = [k \in 0 .. L |-> trial[k]] /\ trial[0] = first
  BY <1>1, <1>8 DEF L
<1>10. ASSUME NEW k \in 1 .. L PROVE trial[k] = Tried(trial[k - 1], actions[k])
  <2>1. k \in 0 .. L /\ k # 0 BY <1>1
  <2> QED BY <2>1, <1>8 DEF L
<1>11. ASSUME NEW k \in 1 .. L, trial[k - 1] \in Trial PROVE trial[k] = step[<<k, trial[k - 1]>>]
  BY <1>4, <1>10, <1>11
<1>12. Follows(trial, Trial, L, first, step) BY <1>1, <1>2, <1>3, <1>9, <1>11, RecursionType
<1> QED BY <1>5, <1>9, <1>10, <1>12 DEF Follows, L, first

(* What a trial has made of the project p after k of the actions A, done   *)
(* being those: the file has grown by a change an action, a field has the  *)
(* value touched gives it or the one it had, and each action done can be   *)
(* seen, except one on a cutout that could be seen in p.                   *)
Named(A) == {FieldOf(a) : a \in A}
IdsNamed(A) == {a.id : a \in {b \in A : FieldOf(b) = "cutouts"}}

Grown(p, q, k) ==
  /\ q.revision = p.revision + k
  /\ Len(q.changes) = Len(p.changes) + k
  /\ \A i \in 1 .. Len(p.changes) : q.changes[i] = p.changes[i]

Seen(before, after, touched, done) ==
  \A a \in done :
    /\ Holds(after, a) \/ (FieldOf(a) = "cutouts" /\ Holds(before, a))
    /\ FieldOf(a) \notin DOMAIN touched => FieldOf(a) = "cutouts" /\ Holds(before, a)

Changed(before, after, touched, A) ==
  /\ DOMAIN touched \subseteq Named(A)
  /\ \A f \in EditedFields : /\ f \in DOMAIN touched => Get(after, f) = touched[f]
                             /\ f \notin DOMAIN touched => Get(after, f) = Get(before, f)
  /\ after.lid.kind = before.lid.kind
  /\ Others(after.cutouts, IdsNamed(A)) = Others(before.cutouts, IdsNamed(A))

LEMMA OneMoreAction ==
  ASSUME NEW before \in Specs, NEW t \in Trial, NEW A \in SUBSET Instructions, NEW a \in A,
         NEW done \in SUBSET A, Tried(t, a).ok,
         Changed(before, t.project.spec, t.touched, A),
         Seen(before, t.project.spec, t.touched, done)
  PROVE  /\ Changed(before, Tried(t, a).project.spec, Tried(t, a).touched, A)
         /\ Seen(before, Tried(t, a).project.spec, Tried(t, a).touched, done \cup {a})
<1> DEFINE s == t.project.spec
           f == FieldOf(a)
           v == ValueOf(s, a)
           u == Tried(t, a)
           after == u.project.spec
<1>1. a \in Instructions /\ t.project \in Project /\ s \in Specs BY DEF Trial, Project
<1>10. u.ok /\ TriedWell(t, a, u) BY <1>1, TriedIs
<1>2. Understood(s, a) /\ u.project = Instructed(t.project, a) BY <1>10 DEF TriedWell
<1>3. after = Put(s, f, v) BY <1>1, <1>2, InstructedType
<1>4. f \in EditedFields /\ f \in Fields /\ v \in AnyValues(f) /\ f \in Named(A)
  BY <1>1, <1>2, FieldOfIs, ValueOfIs DEF Named
<1>5. after \in Specs /\ Holds(after, a)
  BY <1>1, <1>2, <1>3, <1>4, FieldLaws, HoldsAfter
<1>11. \A g \in EditedFields : /\ g \in DOMAIN t.touched => Get(s, g) = t.touched[g]
                               /\ g \notin DOMAIN t.touched => Get(s, g) = Get(before, g)
  BY DEF Changed
<1>6. CASE Get(s, f) = v /\ DOMAIN u.touched = DOMAIN t.touched
           /\ (\A g \in DOMAIN t.touched : u.touched[g] = t.touched[g])
           /\ (f \notin DOMAIN t.touched => f = "cutouts")
  <2>1. after = s BY <1>1, <1>3, <1>4, <1>6, FieldLaws
  <2>2. Changed(before, after, u.touched, A) BY <1>6, <2>1 DEF Changed
  <2>3. Seen(before, after, u.touched, done) BY <1>6, <2>1 DEF Seen
  <2>4. f \notin DOMAIN t.touched => Holds(before, a)
    <3> SUFFICES ASSUME f \notin DOMAIN t.touched PROVE Holds(before, a) OBVIOUS
    <3>1. Get(s, f) = Get(before, f) BY <1>4 DEF Changed
    <3> QED BY <1>1, <1>5, <2>1, <3>1, HoldsByField
  <2>5. Seen(before, after, u.touched, {a}) BY <1>5, <1>6, <2>4 DEF Seen
  <2> QED BY <2>2, <2>3, <2>5 DEF Seen
<1>7. CASE TouchesOf(t, a) /\ f \in DOMAIN t.touched
  <2>1. t.touched[f] = v /\ u.touched = [g \in {f} \cup DOMAIN t.touched |->
                                           IF g = f THEN v ELSE t.touched[g]]
    BY <1>7, <1>10 DEF TriedWell
  <2>2. Get(s, f) = v
    <3>1. Get(s, f) = t.touched[f] BY <1>4, <1>7, <1>11, Zenon
    <3> QED BY <2>1, <3>1
  <2> HIDE DEF f, v, u, s
  <2>3. DOMAIN u.touched = DOMAIN t.touched BY <1>7, <2>1
  <2>4. \A g \in DOMAIN t.touched : u.touched[g] = t.touched[g] BY <1>7, <2>1
  <2> QED BY <1>6, <1>7, <2>2, <2>3, <2>4
<1>8. CASE ~ TouchesOf(t, a)
  <2>1. u.touched = t.touched BY <1>8, <1>10 DEF TriedWell
  <2>2. f = "cutouts" /\ Get(s, f) = v BY <1>8 DEF TouchesOf, Touches
  <2> QED BY <1>6, <2>1, <2>2
<1>9. CASE TouchesOf(t, a) /\ f \notin DOMAIN t.touched
  <2>1. u.touched = [g \in {f} \cup DOMAIN t.touched |-> IF g = f THEN v ELSE t.touched[g]]
    BY <1>9, <1>10 DEF TriedWell
  <2>2. /\ DOMAIN u.touched = {f} \cup DOMAIN t.touched
        /\ u.touched[f] = v
        /\ \A g \in DOMAIN t.touched : u.touched[g] = t.touched[g]
    <3> HIDE DEF f, v, u
    <3> QED BY <1>9, <2>1
  <2>3. /\ \A g \in EditedFields \ {f} : Get(after, g) = Get(s, g)
        /\ Get(after, f) = v
        /\ after.lid.kind = s.lid.kind
    BY <1>1, <1>3, <1>4, OthersStay
  <2>4. Others(after.cutouts, IdsNamed(A)) = Others(s.cutouts, IdsNamed(A))
    <3>1. CASE f = "cutouts"
      <4>1. after.cutouts = v BY <2>3, <3>1, GetIs
      <4>2. Others(v, {a.id}) = Others(s.cutouts, {a.id}) BY <1>1, <1>2, <3>1, ValueOfIs
      <4>3. a.id \in IdsNamed(A) BY <3>1 DEF IdsNamed
      <4> HIDE DEF v, s, after
      <4> QED BY <4>1, <4>2, <4>3 DEF Others
    <3>2. CASE f # "cutouts"
      <4>1. Get(after, "cutouts") = Get(s, "cutouts") BY <2>3, <3>2 DEF EditedFields
      <4> QED BY <4>1, GetIs
    <3> QED BY <3>1, <3>2
  <2> HIDE DEF v, u, after, f, s
  <2>5. \A g \in EditedFields : /\ g \in DOMAIN u.touched => Get(after, g) = u.touched[g]
                                /\ g \notin DOMAIN u.touched => Get(after, g) = Get(before, g)
    <3> SUFFICES ASSUME NEW g \in EditedFields
                 PROVE  /\ g \in DOMAIN u.touched => Get(after, g) = u.touched[g]
                        /\ g \notin DOMAIN u.touched => Get(after, g) = Get(before, g)
      OBVIOUS
    <3>1. CASE g = f BY <2>2, <2>3, <3>1
    <3>2. CASE g # f
      <4>1. Get(after, g) = Get(s, g) BY <2>3, <3>2
      <4>2. /\ g \in DOMAIN t.touched => Get(s, g) = t.touched[g]
            /\ g \notin DOMAIN t.touched => Get(s, g) = Get(before, g)
        BY <1>11
      <4> QED BY <2>2, <3>2, <4>1, <4>2
    <3> QED BY <3>1, <3>2
  <2>6. Changed(before, after, u.touched, A)
    <3>1. /\ DOMAIN t.touched \subseteq Named(A) /\ s.lid.kind = before.lid.kind
          /\ Others(s.cutouts, IdsNamed(A)) = Others(before.cutouts, IdsNamed(A))
      BY DEF Changed, s
    <3>2. DOMAIN u.touched \subseteq Named(A) BY <1>4, <2>2, <3>1
    <3> QED BY <2>3, <2>4, <2>5, <3>1, <3>2 DEF Changed
  <2>7. ASSUME NEW b \in done
        PROVE  /\ Holds(after, b) \/ (FieldOf(b) = "cutouts" /\ Holds(before, b))
               /\ FieldOf(b) \notin DOMAIN u.touched => FieldOf(b) = "cutouts" /\ Holds(before, b)
    <3>1. /\ Holds(s, b) \/ (FieldOf(b) = "cutouts" /\ Holds(before, b))
          /\ FieldOf(b) \notin DOMAIN t.touched => FieldOf(b) = "cutouts" /\ Holds(before, b)
      BY <2>7 DEF Seen, s
    <3>2. CASE FieldOf(b) = f BY <1>9, <3>1, <3>2, <2>2
    <3>3. CASE FieldOf(b) # f
      <4>1. b \in Instructions BY <2>7
      <4>2. Get(after, FieldOf(b)) = Get(s, FieldOf(b)) BY <2>3, <3>3, <4>1, FieldOfIs
      <4>3. Holds(s, b) => Holds(after, b) BY <1>1, <1>5, <4>1, <4>2, HoldsByField DEF s, after, u
      <4> QED BY <2>2, <3>1, <4>3
    <3> QED BY <3>2, <3>3
  <2>8. Holds(after, a) /\ FieldOf(a) \in DOMAIN u.touched BY <1>5, <2>2 DEF after, u, f
  <2>9. Seen(before, after, u.touched, done \cup {a}) BY <2>7, <2>8 DEF Seen
  <2> QED BY <2>6, <2>9 DEF after, u
<1> QED BY <1>7, <1>8, <1>9

(* A proposal's candidate: made of the project by every one of its         *)
(* actions, in their order.                                                *)
LEMMA CandidateIs ==
  ASSUME NEW p \in Project, NEW actions \in Seq(Instructions), NEW preserve,
         Candidate(p, actions, preserve) # NoFile
  PROVE  LET q == Candidate(p, actions, preserve)
         IN  /\ q \in Project
             /\ Grown(p, q, Len(actions))
             /\ \A f \in preserve : Kept(p.spec, q.spec, f)
             /\ \E touched : /\ Changed(p.spec, q.spec, touched, ToSet(actions))
                             /\ Seen(p.spec, q.spec, touched, ToSet(actions))
<1> DEFINE L == Len(actions)
           A == ToSet(actions)
           Done(k) == {actions[i] : i \in 1 .. k}
           q == Candidate(p, actions, preserve)
<1>1. PICK trial \in [0 .. L -> Trial] :
        /\ trial[0] = [ok |-> TRUE, project |-> p, touched |-> << >>]
        /\ \A k \in 1 .. L : trial[k] = Tried(trial[k - 1], actions[k])
        /\ q = IF /\ actions # << >> /\ trial[L].ok
                  /\ \A f \in preserve : Kept(p.spec, trial[L].project.spec, f)
               THEN trial[L].project ELSE NoFile
  BY TrialSteps
<1>2. /\ L \in Nat /\ A = Done(L) /\ A \in SUBSET Instructions
      /\ \A k \in 1 .. L : actions[k] \in Instructions /\ actions[k] \in A
  <2>1. DOMAIN actions = 1 .. L /\ L \in Nat /\ \A k \in 1 .. L : actions[k] \in Instructions
    OBVIOUS
  <2> QED BY <2>1 DEF ToSet
<1>3. trial[L].ok /\ q = trial[L].project /\ \A f \in preserve : Kept(p.spec, q.spec, f) BY <1>1
<1>4. p.spec \in Specs /\ p.revision \in Nat /\ p.changes \in Seq(Changes) BY DEF Project
<1> DEFINE J(k) == /\ Grown(p, trial[k].project, k)
                   /\ Changed(p.spec, trial[k].project.spec, trial[k].touched, A)
                   /\ Seen(p.spec, trial[k].project.spec, trial[k].touched, Done(k))
           S == {k \in Nat : k <= L /\ trial[k].ok => J(k)}
<1> HIDE DEF q, A, L
<1>5. 0 \in S
  <2>1. Grown(p, p, 0) BY <1>4 DEF Grown
  <2>2. Changed(p.spec, p.spec, << >>, A) BY DEF Changed
  <2>3. Seen(p.spec, p.spec, << >>, Done(0)) BY DEF Seen
  <2>4. trial[0].project = p /\ trial[0].touched = << >> BY <1>1
  <2> QED BY <2>1, <2>2, <2>3, <2>4
<1>6. ASSUME NEW k \in Nat, k \in S PROVE k + 1 \in S
  <2> DEFINE t == trial[k]
             a == actions[k + 1]
  <2> SUFFICES ASSUME k + 1 <= L, trial[k + 1].ok PROVE J(k + 1) OBVIOUS
  <2>1. k + 1 \in 1 .. L /\ (k + 1) - 1 = k /\ k \in 0 .. L /\ k <= L BY <1>2
  <2>2. trial[k + 1] = Tried(t, a) /\ t \in Trial BY <1>1, <2>1
  <2>3. a \in Instructions /\ a \in A BY <1>2, <2>1
  <2> HIDE DEF t, a
  <2>4. Tried(t, a).ok BY <2>2
  <2>5. TriedWell(t, a, Tried(t, a)) BY <2>2, <2>3, TriedIs
  <2>6. t.ok /\ Understood(t.project.spec, a) /\ Tried(t, a).project = Instructed(t.project, a)
    BY <2>4, <2>5 DEF TriedWell
  <2>7. J(k) BY <1>6, <2>1, <2>6 DEF t
  <2>8. t.project \in Project BY <2>2 DEF Trial
  <2>9. Grown(p, trial[k + 1].project, k + 1)
    <3>1. Grown(p, t.project, k) BY <2>7 DEF t
    <3> DEFINE n == Instructed(t.project, a)
    <3>2. /\ n.revision = t.project.revision + 1 /\ Len(n.changes) = Len(t.project.changes) + 1
          /\ \A i \in 1 .. Len(t.project.changes) : n.changes[i] = t.project.changes[i]
      BY <2>3, <2>6, <2>8, InstructedType
    <3>3. trial[k + 1].project = n BY <2>2, <2>6
    <3> HIDE DEF n
    <3>4. Len(p.changes) \in Nat BY <1>4
    <3>5. /\ t.project.revision = p.revision + k /\ Len(t.project.changes) = Len(p.changes) + k
          /\ \A i \in 1 .. Len(p.changes) : t.project.changes[i] = p.changes[i]
      BY <3>1 DEF Grown
    <3>6. \A i \in 1 .. Len(p.changes) : i \in 1 .. Len(t.project.changes) BY <3>4, <3>5
    <3>7. \A i \in 1 .. Len(p.changes) : n.changes[i] = p.changes[i] BY <3>2, <3>5, <3>6
    <3>8. n.revision = p.revision + (k + 1)
      <4>1. n.revision = (p.revision + k) + 1 BY <3>2, <3>5
      <4> QED BY <1>4, <4>1
    <3>9. Len(n.changes) = Len(p.changes) + (k + 1)
      <4>1. Len(n.changes) = (Len(p.changes) + k) + 1 BY <3>2, <3>5
      <4>2. \A x \in Nat : (x + k) + 1 = x + (k + 1) OBVIOUS
      <4> QED BY <3>4, <4>1, <4>2, Zenon
    <3> QED BY <3>3, <3>7, <3>8, <3>9 DEF Grown
  <2>10. Done(k) \in SUBSET A
    <3>1. \A i \in 1 .. k : i \in 1 .. L BY <1>2, <2>1
    <3> QED BY <1>2, <3>1
  <2>11. Changed(p.spec, t.project.spec, t.touched, A) /\ Seen(p.spec, t.project.spec, t.touched, Done(k))
    BY <2>7 DEF t
  <2>12. Done(k + 1) = Done(k) \cup {a}
    <3>1. 1 .. k + 1 = (1 .. k) \cup {k + 1} OBVIOUS
    <3> QED BY <3>1 DEF a
  <2> HIDE DEF Done
  <2>13. /\ Changed(p.spec, Tried(t, a).project.spec, Tried(t, a).touched, A)
         /\ Seen(p.spec, Tried(t, a).project.spec, Tried(t, a).touched, Done(k) \cup {a})
    BY <1>2, <1>4, <2>2, <2>3, <2>4, <2>10, <2>11, OneMoreAction
  <2> QED BY <2>2, <2>9, <2>12, <2>13
<1> HIDE DEF S
<1>7. Nat \subseteq S BY <1>5, <1>6, SetInduction
<1>8. J(L)
  <2>1. L \in S /\ L <= L BY <1>2, <1>7
  <2> QED BY <1>3, <2>1 DEF S
<1>9. q \in Project
  <2>1. trial[L] \in Trial BY <1>1, <1>2
  <2> QED BY <1>3, <2>1 DEF Trial
<1> QED BY <1>2, <1>3, <1>8, <1>9 DEF q, A, L

(***************************************************************************)
(* The invariant: files and proposals have the shape of such files, valid  *)
(* or not, and what has been applied passed the review.                    *)
(***************************************************************************)
Proposal == [baseline : Project, actions : Seq(Instructions),
             preserve : SUBSET (Fields \cup Ids), candidate : Project]

HistoryTypeOK ==
  /\ project # NoFile => project \in Project
  /\ proposal # NoFile => proposal \in Proposal
  /\ edited \in BOOLEAN

AppliedOK ==
  applied # NoFile =>
    /\ applied.by \in Proposal /\ applied.to \in Project
    /\ Reviewed(applied.to, applied.by) /\ applied.result = applied.by.candidate

HistoryInv == HistoryTypeOK /\ AppliedOK

LEMMA CreateKeeps == HistoryInv /\ Create => HistoryInv'
<1> SUFFICES ASSUME HistoryInv, Create PROVE HistoryInv' OBVIOUS
<1>1. PICK s \in Starts : project' = [spec |-> s, revision |-> 1, changes |-> << >>] BY DEF Create
<1>2. project' \in Project
  <2>1. << >> \in Seq(Changes) OBVIOUS
  <2> QED BY <1>1, <2>1, StartsAssumption DEF Project
<1> QED BY <1>2 DEF HistoryInv, HistoryTypeOK, AppliedOK, Create, Reviewed

LEMMA EditFieldKeeps == HistoryInv /\ EditField => HistoryInv'
<1> SUFFICES ASSUME HistoryInv, EditField PROVE HistoryInv' OBVIOUS
<1>1. PICK f \in Fields : \E v \in Values(f, CutoutLists) : project' = Updated(project, f, v)
  BY DEF EditField
<1>5. PICK v \in Values(f, CutoutLists) : project' = Updated(project, f, v) BY <1>1
<1>2. v \in AnyValues(f) BY StartsAssumption DEF AnyValues, Values
<1>3. project \in Project BY DEF HistoryInv, HistoryTypeOK, EditField, CanGrow
<1>4. project' \in Project BY <1>2, <1>3, <1>5, UpdatedType
<1> QED BY <1>4 DEF HistoryInv, HistoryTypeOK, AppliedOK, EditField, Reviewed

LEMMA EditTextKeeps == HistoryInv /\ EditText => HistoryInv'
<1> SUFFICES ASSUME HistoryInv, EditText PROVE HistoryInv' OBVIOUS
<1>1. PICK a \in Instructions : Allows(project.spec, a) /\ project' = Instructed(project, a)
  BY DEF EditText
<1>2. project \in Project BY DEF HistoryInv, HistoryTypeOK, EditText, CanGrow
<1>3. project' \in Project BY <1>1, <1>2, InstructedType DEF Allows
<1> QED BY <1>3 DEF HistoryInv, HistoryTypeOK, AppliedOK, EditText, Reviewed

LEMMA UnderstandKeeps == HistoryInv /\ Understand => HistoryInv'
<1> SUFFICES ASSUME HistoryInv, Understand PROVE HistoryInv' OBVIOUS
<1>1. PICK actions \in SeqOf(Instructions, MaxActions),
           preserve \in {{}} \cup {{f} : f \in Keepable(project.spec)} :
        /\ Candidate(project, actions, preserve) # NoFile
        /\ proposal' = [baseline |-> project, actions |-> actions, preserve |-> preserve,
                        candidate |-> Candidate(project, actions, preserve)]
  BY DEF Understand
<1>2. project \in Project BY DEF HistoryInv, HistoryTypeOK, Understand, CanGrow
<1>3. actions \in Seq(Instructions)
  <2>1. PICK m \in 0 .. MaxActions : actions \in [1 .. m -> Instructions] BY DEF SeqOf
  <2> QED BY <2>1, BoundsAssumption
<1>4. preserve \in SUBSET (Fields \cup Ids)
  <2>1. project.spec.cutouts \in Seq(Cutouts) BY <1>2, SpecShape DEF Project
  <2>2. IdsOf(project.spec.cutouts) \subseteq Ids
    <3> DEFINE cs == project.spec.cutouts
    <3>1. \A i \in DOMAIN cs : cs[i] \in Cutouts BY <2>1
    <3> HIDE DEF cs
    <3>2. IdsOf(cs) \subseteq Ids BY <3>1 DEF IdsOf, Cutouts
    <3> QED BY <3>2 DEF cs
  <2>3. Keepable(project.spec) \subseteq Fields \cup Ids BY <2>2 DEF Keepable
  <2> QED BY <2>3
<1>5. Candidate(project, actions, preserve) \in Project BY <1>1, <1>2, <1>3, CandidateIs
<1>6. proposal' \in Proposal BY <1>1, <1>2, <1>3, <1>4, <1>5 DEF Proposal
<1> QED BY <1>6 DEF HistoryInv, HistoryTypeOK, AppliedOK, Understand, Reviewed

LEMMA ApplyKeeps == HistoryInv /\ Apply => HistoryInv'
<1> SUFFICES ASSUME HistoryInv, Apply PROVE HistoryInv' OBVIOUS
<1>1. project \in Project /\ proposal \in Proposal /\ Reviewed(project, proposal)
  BY DEF HistoryInv, HistoryTypeOK, Apply
<1>2. project' \in Project BY <1>1 DEF Proposal, Apply
<1>3. applied'.by = proposal /\ applied'.to = project /\ applied'.result = proposal.candidate
  BY DEF Apply
<1>4. AppliedOK' BY <1>1, <1>3 DEF AppliedOK, Reviewed
<1> QED BY <1>2, <1>4 DEF HistoryInv, HistoryTypeOK, Apply

LEMMA AlterProjectKeeps == HistoryInv /\ AlterProject => HistoryInv'
<1> SUFFICES ASSUME HistoryInv, AlterProject PROVE HistoryInv' OBVIOUS
<1>1. project \in Project /\ edited' \in BOOLEAN /\ UNCHANGED <<proposal, applied>>
  BY DEF HistoryInv, HistoryTypeOK, AlterProject
<1>2. /\ project.spec \in Specs /\ project.revision \in Nat /\ project.changes \in Seq(Changes)
      /\ project = [spec |-> project.spec, revision |-> project.revision, changes |-> project.changes]
  BY <1>1 DEF Project
<1>3. SUFFICES project' \in Project
  BY <1>1 DEF HistoryInv, HistoryTypeOK, AppliedOK, Reviewed
<1>4. ASSUME NEW f \in {"wall", "lid", "cutouts"}, NEW v \in Values(f, CutoutLists),
             project' = [project EXCEPT !.spec[f] = v]
      PROVE  project' \in Project
  <2>1. v \in AnyValues(f) /\ f \in Fields BY StartsAssumption DEF AnyValues, Values, Fields
  <2>2. Put(project.spec, f, v) \in Specs BY <1>2, <2>1, FieldLaws
  <2>3. Put(project.spec, f, v) = [project.spec EXCEPT ![f] = v] BY DEF Put
  <2>4. project' = [spec |-> [project.spec EXCEPT ![f] = v], revision |-> project.revision,
                    changes |-> project.changes]
    BY <1>2, <1>4
  <2> QED BY <1>2, <2>2, <2>3, <2>4 DEF Project
<1>5. ASSUME project' = [project EXCEPT !.revision = @ + 1] PROVE project' \in Project
  BY <1>1, <1>2, <1>5 DEF Project
<1>6. ASSUME project' = [project EXCEPT !.changes = Front(@)], project.changes # << >>
      PROVE  project' \in Project
  <2> DEFINE history == project.changes
  <2>1. \A i \in 1 .. Len(history) - 1 : history[i] \in Changes BY <1>2
  <2>2. Len(history) \in Nat BY <1>2
  <2> HIDE DEF history
  <2>3. Front(history) \in Seq(Changes) BY <2>1, <2>2, SubSeqProperties DEF Front
  <2>4. project' = [spec |-> project.spec, revision |-> project.revision, changes |-> Front(history)]
    BY <1>2, <1>6 DEF history
  <2> QED BY <1>2, <2>3, <2>4 DEF Project
<1>7. ASSUME NEW i \in DOMAIN project.changes, NEW c \in Changes,
             project' = [project EXCEPT !.changes[i] = c]
      PROVE  project' \in Project
  <2>1. [project.changes EXCEPT ![i] = c] \in Seq(Changes) BY <1>2
  <2>2. project' = [spec |-> project.spec, revision |-> project.revision,
                    changes |-> [project.changes EXCEPT ![i] = c]]
    BY <1>2, <1>7
  <2> QED BY <1>2, <2>1, <2>2 DEF Project
<1>8. ASSUME NEW i \in DOMAIN project.changes,
             \/ project' = [project EXCEPT !.changes[i].revision = @ + 1]
             \/ /\ project.changes[i].field \in {"wall", "lid.clearance"}
                /\ \E f \in {"wall", "lid.clearance", "title"} :
                     project' = [project EXCEPT !.changes[i].field = f]
             \/ \E v \in Values(project.changes[i].field, CutoutLists) :
                  \/ project' = [project EXCEPT !.changes[i].before = v]
                  \/ project' = [project EXCEPT !.changes[i].after = v]
      PROVE  project' \in Project
  <2> DEFINE c == project.changes[i]
  <2>1. c \in Changes BY <1>2
  <2>2. PICK g \in Fields \cup {"title"} : c \in ChangeOf(g) BY <2>1 DEF Changes
  <2>3. /\ c.field = g /\ c.revision \in Nat /\ c.before \in AnyValues(g) /\ c.after \in AnyValues(g)
        /\ c = [revision |-> c.revision, field |-> g, before |-> c.before, after |-> c.after]
    BY <2>2 DEF ChangeOf
  <2> HIDE DEF c
  <2>4. CASE project' = [project EXCEPT !.changes[i].revision = @ + 1]
    <3>1. [c EXCEPT !.revision = @ + 1] \in ChangeOf(g) BY <2>2, <2>3 DEF ChangeOf
    <3>2. project' = [project EXCEPT !.changes[i] = [c EXCEPT !.revision = @ + 1]]
      BY <1>2, <2>4 DEF c
    <3>3. [c EXCEPT !.revision = @ + 1] \in Changes BY <3>1 DEF Changes
    <3> QED BY <1>7, <3>2, <3>3
  <2>5. ASSUME NEW f \in {"wall", "lid.clearance", "title"}, c.field \in {"wall", "lid.clearance"},
               project' = [project EXCEPT !.changes[i].field = f]
        PROVE  project' \in Project
    <3>1. AnyValues(f) = Value /\ AnyValues(g) = Value BY <2>3, <2>5 DEF AnyValues, Values
    <3>2. [c EXCEPT !.field = f] \in ChangeOf(f) BY <2>3, <3>1 DEF ChangeOf
    <3>3. project' = [project EXCEPT !.changes[i] = [c EXCEPT !.field = f]] BY <1>2, <2>5 DEF c
    <3>4. [c EXCEPT !.field = f] \in Changes BY <3>2 DEF Changes, Fields
    <3> QED BY <1>7, <3>3, <3>4
  <2>6. ASSUME NEW v \in Values(g, CutoutLists),
               \/ project' = [project EXCEPT !.changes[i].before = v]
               \/ project' = [project EXCEPT !.changes[i].after = v]
        PROVE  project' \in Project
    <3>1. v \in AnyValues(g) BY StartsAssumption DEF AnyValues, Values
    <3>2. [c EXCEPT !.before = v] \in ChangeOf(g) /\ [c EXCEPT !.after = v] \in ChangeOf(g)
      BY <2>3, <3>1 DEF ChangeOf
    <3>3. [c EXCEPT !.before = v] \in Changes /\ [c EXCEPT !.after = v] \in Changes
      BY <3>2 DEF Changes
    <3>4. \/ project' = [project EXCEPT !.changes[i] = [c EXCEPT !.before = v]]
          \/ project' = [project EXCEPT !.changes[i] = [c EXCEPT !.after = v]]
      BY <1>2, <2>6 DEF c
    <3> QED BY <1>7, <3>3, <3>4
  <2> QED BY <1>8, <2>3, <2>4, <2>5, <2>6 DEF c
<1> QED BY <1>4, <1>5, <1>6, <1>8 DEF AlterProject

LEMMA AlterProposalKeeps == HistoryInv /\ AlterProposal => HistoryInv'
<1> SUFFICES ASSUME HistoryInv, AlterProposal PROVE HistoryInv' OBVIOUS
<1>1. proposal \in Proposal /\ edited' \in BOOLEAN /\ UNCHANGED <<project, applied>>
  BY DEF HistoryInv, HistoryTypeOK, AlterProposal
<1>2. SUFFICES proposal' \in Proposal
  BY <1>1 DEF HistoryInv, HistoryTypeOK, AppliedOK, Reviewed
<1>3. ASSUME NEW a \in Instructions, NEW i \in DOMAIN proposal.actions,
             proposal' = [proposal EXCEPT !.actions[i] = a]
      PROVE  proposal' \in Proposal
  <2>1. proposal.actions \in Seq(Instructions) BY <1>1 DEF Proposal
  <2>2. [proposal.actions EXCEPT ![i] = a] \in Seq(Instructions) BY <2>1
  <2>3. proposal' = [proposal EXCEPT !.actions = [proposal.actions EXCEPT ![i] = a]]
    BY <1>1, <1>3 DEF Proposal
  <2> QED BY <1>1, <2>2, <2>3 DEF Proposal
<1>4. ASSUME proposal' = [proposal EXCEPT !.preserve = {}] PROVE proposal' \in Proposal
  BY <1>1, <1>4 DEF Proposal
<1>5. ASSUME NEW a \in Instructions, Allows(proposal.candidate.spec, a),
             proposal' = [proposal EXCEPT !.candidate = Instructed(@, a)]
      PROVE  proposal' \in Proposal
  <2>1. proposal.candidate \in Project BY <1>1 DEF Proposal
  <2>2. Instructed(proposal.candidate, a) \in Project BY <1>5, <2>1, InstructedType DEF Allows
  <2> QED BY <1>1, <1>5, <2>2 DEF Proposal
<1> QED BY <1>3, <1>4, <1>5 DEF AlterProposal

(* Whatever the commands do and whatever is changed by hand, files keep    *)
(* their shape, and a proposal is applied to the project it was made for   *)
(* with the candidate its actions make of it (conversational_parser.py:    *)
(* 491-520).                                                               *)
THEOREM HistoryInductive == HistorySpec => []HistoryInv
<1>1. HistoryInit => HistoryInv BY DEF HistoryInit, HistoryInv, HistoryTypeOK, AppliedOK
<1>2. HistoryInv /\ [HistoryNext]_historyVars => HistoryInv'
  <2> SUFFICES ASSUME HistoryInv, [HistoryNext]_historyVars PROVE HistoryInv' OBVIOUS
  <2>1. CASE HistoryNext
    BY <2>1, CreateKeeps, EditFieldKeeps, EditTextKeeps, UnderstandKeeps, ApplyKeeps,
       AlterProjectKeeps, AlterProposalKeeps DEF HistoryNext
  <2>2. CASE UNCHANGED historyVars
    BY <2>2 DEF HistoryInv, HistoryTypeOK, AppliedOK, Reviewed, historyVars
  <2> QED BY <2>1, <2>2
<1> QED BY <1>1, <1>2, PTL DEF HistorySpec

(* A project file, however long its history and whoever changed it, is     *)
(* read exactly if some valid specification became the recorded one by the *)
(* recorded changes (project.py:370-465).                                  *)
THEOREM HistoryExact == HistorySpec => []HistoryIsExact
<1>1. HistoryInv => HistoryIsExact
  BY ReadingIsExact DEF HistoryInv, HistoryTypeOK, HistoryIsExact
<1> QED BY <1>1, HistoryInductive, PTL

LEMMA ReviewTells == AppliedOK => AppliedIsReviewed
<1> SUFFICES ASSUME AppliedOK, applied # NoFile PROVE AppliedIsReviewed BY DEF AppliedIsReviewed
<1> DEFINE by == applied.by
           p == applied.to
           q == applied.result
           A == ToSet(by.actions)
<1>1. /\ by \in Proposal /\ p \in Project /\ by.baseline = p /\ q = by.candidate
      /\ q # NoFile /\ q = Candidate(p, by.actions, by.preserve)
  BY DEF AppliedOK, Reviewed
<1>2. by.actions \in Seq(Instructions) BY <1>1 DEF Proposal
<1>3. /\ q \in Project
      /\ Grown(p, q, Len(by.actions))
      /\ \A f \in by.preserve : Kept(p.spec, q.spec, f)
      /\ \E touched : /\ Changed(p.spec, q.spec, touched, A)
                      /\ Seen(p.spec, q.spec, touched, A)
  BY <1>1, <1>2, CandidateIs
<1>4. PICK touched : Changed(p.spec, q.spec, touched, A) /\ Seen(p.spec, q.spec, touched, A)
  BY <1>3
<1> HIDE DEF p, q, by, A
<1>5. IsPrefix(p.changes, q.changes)
  <2> DEFINE m == Len(p.changes)
             n == Len(by.actions)
  <2>1. p.changes \in Seq(Changes) /\ q.changes \in Seq(Changes) BY <1>1, <1>3 DEF Project
  <2>2. m \in Nat /\ n \in Nat BY <1>2, <2>1
  <2>3. Len(q.changes) = m + n /\ \A i \in 1 .. m : q.changes[i] = p.changes[i] BY <1>3 DEF Grown
  <2> HIDE DEF m, n
  <2>4. m <= Len(q.changes) BY <2>2, <2>3
  <2>5. \A i \in 1 .. m : p.changes[i] \in Changes /\ q.changes[i] \in Changes BY <2>1, <2>3 DEF m
  <2> DEFINE u == SubSeq(p.changes, 1, m)
             w == SubSeq(q.changes, 1, m)
  <2>6. u \in Seq(Changes) /\ Len(u) = m /\ \A i \in 1 .. m : u[i] = p.changes[i]
    BY <2>2, <2>5, SubSeqProperties
  <2>7. w \in Seq(Changes) /\ Len(w) = m /\ \A i \in 1 .. m : w[i] = q.changes[i]
    BY <2>2, <2>5, SubSeqProperties
  <2> HIDE DEF u, w
  <2>8. u = w BY <2>3, <2>6, <2>7
  <2> QED BY <2>4, <2>8 DEF IsPrefix, m, u, w
<1>6. q.revision = p.revision + Len(by.actions) BY <1>3 DEF Grown
<1>7. \A a \in A : Holds(q.spec, a) \/ (FieldOf(a) = "cutouts" /\ Holds(p.spec, a)) BY <1>4 DEF Seen
<1>8. q.spec.lid.kind = p.spec.lid.kind BY <1>4 DEF Changed
<1>9. \A f \in {"wall", "lid.clearance"} \ Named(A) : Get(q.spec, f) = Get(p.spec, f)
  BY <1>4 DEF Changed, EditedFields
<1>10. Others(q.spec.cutouts, IdsNamed(A)) = Others(p.spec.cutouts, IdsNamed(A)) BY <1>4 DEF Changed
<1> QED
  BY <1>1, <1>3, <1>5, <1>6, <1>7, <1>8, <1>9, <1>10
  DEF AppliedIsReviewed, Named, IdsNamed, Others, p, q, by, A

(* What is applied is what was shown for review, for every project and     *)
(* proposal, however many actions it has and however either file was       *)
(* changed by hand meanwhile (conversational_parser.py:279-300, 491-520).  *)
THEOREM ReviewedApplied == HistorySpec => []AppliedIsReviewed
<1>1. HistoryInv => AppliedIsReviewed BY ReviewTells DEF HistoryInv
<1> QED BY <1>1, HistoryInductive, PTL

(***************************************************************************)
(* ProgramTree: what the walk has found out so far, of any program p whose *)
(* walk has come to w.                                                     *)
(***************************************************************************)
IsChild(nodes, c, q) ==
  \E i \in 1 .. Len(ChildrenOf(nodes, q)) : ChildrenOf(nodes, q)[i] = c

Mentioned(p) ==
  KnownIds(p.nodes) \cup ToSet(p.roots)
  \cup UNION {ToSet(ChildrenOf(p.nodes, id)) : id \in KnownIds(p.nodes)}

Entries(p) == [id : Mentioned(p), exiting : BOOLEAN, depth : Nat \ {0}]

WellRead(p) ==
  /\ p \in [nodes : Seq(ToSet(p.nodes)), roots : Seq(ToSet(p.roots))]
  /\ \A i \in 1 .. Len(p.nodes) : WellFormed(p.nodes[i])

Walks(p) ==
  [begun : 0 .. Len(p.roots), stack : Seq(Entries(p)),
   visiting : SUBSET KnownIds(p.nodes), visited : SUBSET KnownIds(p.nodes),
   cycle : BOOLEAN, tooDeep : BOOLEAN]

OnStack(w, x) == \E i \in 1 .. Len(w.stack) : w.stack[i].id = x
Clean(w) == ~ w.cycle /\ ~ w.tooDeep

(* The nodes on the path are those the stack will leave, each once.        *)
PathIsOnStack(w) ==
  /\ \A i \in 1 .. Len(w.stack) : w.stack[i].exiting => w.stack[i].id \in w.visiting
  /\ \A x \in w.visiting : \E i \in 1 .. Len(w.stack) : w.stack[i].exiting /\ w.stack[i].id = x
  /\ \A i, j \in 1 .. Len(w.stack) :
       w.stack[i].exiting /\ w.stack[j].exiting /\ w.stack[i].id = w.stack[j].id => i = j
  /\ w.visiting \cap w.visited = {}

(* Unless an error was found, all children of a node that has been left    *)
(* have been, and those of one on the path have been or are still above.   *)
ChildrenAreDue(p, w) ==
  Clean(w) =>
    /\ \A x \in w.visited : \A c \in KnownIds(p.nodes) : IsChild(p.nodes, c, x) => c \in w.visited
    /\ \A i \in 1 .. Len(w.stack) : w.stack[i].exiting =>
         \A c \in KnownIds(p.nodes) : IsChild(p.nodes, c, w.stack[i].id) =>
           c \in w.visited \/ \E j \in i + 1 .. Len(w.stack) : w.stack[j].id = c

RootsAreDue(p, w) ==
  Clean(w) =>
    \A k \in 1 .. w.begun : p.roots[k] \in KnownIds(p.nodes) =>
      p.roots[k] \in w.visited \/ OnStack(w, p.roots[k])

(* The order in which nodes were left leads up.                            *)
LeftInOrder(p, w) ==
  Clean(w) =>
    \E rank \in [w.visited -> 1 .. Cardinality(w.visited)] :
      \A x, c \in w.visited : IsChild(p.nodes, c, x) => rank[c] < rank[x]

(* The depth at which each node was entered, as a root or below a parent.  *)
EnteredAt(p, limit, w, level) ==
  /\ level \in [w.visited \cup w.visiting -> 1 .. limit]
  /\ \A i \in 1 .. Len(w.stack) :
       LET e == w.stack[i]
       IN  IF e.exiting THEN level[e.id] = e.depth
           ELSE \/ e.id \in ToSet(p.roots) /\ e.depth = 1
                \/ \E q \in w.visited \cup w.visiting :
                     IsChild(p.nodes, e.id, q) /\ e.depth = level[q] + 1
  /\ \A c \in w.visited \cup w.visiting :
       \/ c \in ToSet(p.roots) /\ level[c] = 1
       \/ \E q \in w.visited \cup w.visiting : IsChild(p.nodes, c, q) /\ level[c] = level[q] + 1

DepthsAreLevels(p, limit, w) == \E level : EnteredAt(p, limit, w, level)

(* In a forest nothing is met twice, and everything at its own level.      *)
ForestBy(p, limit, level) ==
  /\ IsInjective(p.roots) /\ ToSet(p.roots) \subseteq KnownIds(p.nodes)
  /\ level \in [KnownIds(p.nodes) -> 1 .. limit]
  /\ \A r \in ToSet(p.roots) : level[r] = 1
  /\ \A r \in ToSet(p.roots), q \in KnownIds(p.nodes) : ~ IsChild(p.nodes, r, q)
  /\ \A q \in KnownIds(p.nodes) :
       IsInjective(ChildrenOf(p.nodes, q)) /\ ToSet(ChildrenOf(p.nodes, q)) \subseteq KnownIds(p.nodes)
  /\ \A q, x, c \in KnownIds(p.nodes) :
       IsChild(p.nodes, c, q) => level[c] = level[q] + 1 /\ (IsChild(p.nodes, c, x) => x = q)
  /\ \A c \in KnownIds(p.nodes) \ ToSet(p.roots) :
       \E q \in KnownIds(p.nodes) : IsChild(p.nodes, c, q)

MetOnce(p, w, level) ==
  /\ Clean(w)
  /\ \A i \in 1 .. Len(w.stack) :
       /\ w.stack[i].id \in KnownIds(p.nodes) \ w.visited
       /\ w.stack[i].depth = level[w.stack[i].id]
  /\ \A i, j \in 1 .. Len(w.stack) : w.stack[i].id = w.stack[j].id => i = j
  /\ \A x : x \in w.visited \/ OnStack(w, x) =>
       \/ \E k \in 1 .. w.begun : p.roots[k] = x
       \/ \E q \in w.visited \cup w.visiting : IsChild(p.nodes, x, q)

ForestsAreClean(p, limit, w) == \A level : ForestBy(p, limit, level) => MetOnce(p, w, level)

WalkInv(p, limit, w) ==
  /\ w \in Walks(p) /\ PathIsOnStack(w) /\ ChildrenAreDue(p, w) /\ RootsAreDue(p, w)
  /\ LeftInOrder(p, w) /\ DepthsAreLevels(p, limit, w) /\ ForestsAreClean(p, limit, w)

NoWalk == [begun |-> 0, stack |-> << >>, visiting |-> {}, visited |-> {},
           cycle |-> FALSE, tooDeep |-> FALSE]

TreeInv ==
  /\ WellRead(program)
  /\ program.roots = << >> => walk = NoWalk
  /\ IF draft = "none" THEN program = [nodes |-> << >>, roots |-> << >>]
     ELSE draft \in DOMAIN Drafts /\ WalkInv(program, Drafts[draft].depth, walk)

(***************************************************************************)
(* What the operators of the walk do.                                      *)
(***************************************************************************)
(* The first of the nodes with an id is one of them.                       *)
LEMMA NodeIs ==
  ASSUME NEW nodes, nodes \in Seq(ToSet(nodes)),
         \A i \in 1 .. Len(nodes) : WellFormed(nodes[i]), NEW id \in KnownIds(nodes)
  PROVE  /\ \E i \in 1 .. Len(nodes) : /\ NodeOf(nodes, id) = nodes[i]
                                       /\ \A j \in 1 .. i - 1 : nodes[j].id # id
         /\ NodeOf(nodes, id).id = id /\ WellFormed(NodeOf(nodes, id))
         /\ ChildrenOf(nodes, id) \in Seq(ToSet(ChildrenOf(nodes, id)))
         /\ Len(ChildrenOf(nodes, id)) \in Nat
         /\ DOMAIN ChildrenOf(nodes, id) = 1 .. Len(ChildrenOf(nodes, id))
<1>1. DOMAIN nodes = 1 .. Len(nodes) /\ Len(nodes) \in Nat BY LenProperties
<1> DEFINE T == {i \in 1 .. Len(nodes) : nodes[i].id = id}
<1>2. T \subseteq Nat /\ T # {} BY <1>1 DEF KnownIds
<1>3. PICK x \in T : \A y \in T : x <= y BY <1>2, LeastNumber
<1>4. \A j \in 1 .. x - 1 : nodes[j].id # id
  <2>1. ASSUME NEW j \in 1 .. x - 1, nodes[j].id = id PROVE FALSE
    <3>1. j \in T BY <2>1, <1>1, <1>3
    <3> QED BY <3>1, <1>3, <1>1
  <2> QED BY <2>1
<1> DEFINE P(i) == nodes[i].id = id /\ \A j \in 1 .. i - 1 : nodes[j].id # id
<1>5. \E i \in DOMAIN nodes : P(i) BY <1>1, <1>3, <1>4
<1>6. PICK i \in DOMAIN nodes : P(i) /\ i = CHOOSE k \in DOMAIN nodes : P(k) BY <1>5
<1>7. NodeOf(nodes, id) = nodes[i] BY <1>6 DEF NodeOf
<1>8. WellFormed(nodes[i]) BY <1>1
<1>9. nodes[i].children \in Seq(ToSet(nodes[i].children)) BY <1>8 DEF WellFormed
<1>10. Len(nodes[i].children) \in Nat /\ DOMAIN nodes[i].children = 1 .. Len(nodes[i].children)
  BY <1>9, LenProperties
<1> QED BY <1>1, <1>6, <1>7, <1>8, <1>9, <1>10 DEF ChildrenOf

LEMMA Popping ==
  ASSUME NEW S, NEW s \in Seq(S), s # << >>
  PROVE  /\ Len(s) \in Nat \ {0} /\ Last(s) = s[Len(s)] /\ Last(s) \in S
         /\ Front(s) \in Seq(S) /\ Len(Front(s)) = Len(s) - 1
         /\ \A i \in 1 .. Len(s) - 1 : Front(s)[i] = s[i]
<1>1. Len(s) \in Nat /\ Len(s) # 0 BY EmptySeq
<1>2. Last(s) = s[Len(s)] BY DEF Last
<1>3. s[Len(s)] \in S BY <1>1, ElementOfSeq
<1>4. \A i \in 1 .. Len(s) - 1 : s[i] \in S BY <1>1, ElementOfSeq
<1>5. SubSeq(s, 1, Len(s) - 1) = [i \in 1 .. Len(s) - 1 |-> s[i]] BY <1>1
<1>6. [i \in 1 .. Len(s) - 1 |-> s[i]] \in Seq(S) BY <1>1, <1>4, IsASeq
<1>7. Len([i \in 1 .. Len(s) - 1 |-> s[i]]) = Len(s) - 1 BY <1>1
<1> QED BY <1>1, <1>2, <1>3, <1>5, <1>6, <1>7 DEF Front

IsPushed(st, s, e, b, S) ==
  /\ st \in Seq(S) /\ Len(st) = Len(s) + 1 + Len(b)
  /\ \A i \in 1 .. Len(s) : st[i] = s[i]
  /\ st[Len(s) + 1] = e
  /\ \A i \in 1 .. Len(b) : st[Len(s) + 1 + i] = b[(Len(b) - i) + 1]

LEMMA Pushing ==
  ASSUME NEW S, NEW s \in Seq(S), NEW e \in S, NEW b \in Seq(S)
  PROVE  IsPushed(Append(s, e) \o Reverse(b), s, e, b, S)
<1> DEFINE a == Append(s, e)
           r == Reverse(b)
<1>1. /\ Len(s) \in Nat /\ Len(b) \in Nat /\ a \in Seq(S) /\ Len(a) = Len(s) + 1
      /\ (\A i \in 1 .. Len(s) : a[i] = s[i]) /\ a[Len(s) + 1] = e
  BY AppendProperties, LenProperties
<1>2. r = [i \in 1 .. Len(b) |-> b[(Len(b) - i) + 1]] BY DEF Reverse
<1>3. \A i \in 1 .. Len(b) : b[(Len(b) - i) + 1] \in S
  <2> TAKE i \in 1 .. Len(b)
  <2>1. (Len(b) - i) + 1 \in 1 .. Len(b) BY <1>1
  <2> QED BY <2>1, ElementOfSeq
<1>4. r \in Seq(S) BY <1>1, <1>2, <1>3, IsASeq
<1>5. Len(r) = Len(b) BY <1>1, <1>2
<1>6. /\ a \o r \in Seq(S) /\ Len(a \o r) = Len(a) + Len(r)
      /\ \A i \in 1 .. Len(a) + Len(r) : (a \o r)[i] = IF i <= Len(a) THEN a[i] ELSE r[i - Len(a)]
  BY <1>1, <1>4, ConcatProperties
<1> HIDE DEF a, r
<1>7. \A i \in 1 .. Len(s) : (a \o r)[i] = s[i] BY <1>1, <1>5, <1>6
<1>8. (a \o r)[Len(s) + 1] = e BY <1>1, <1>5, <1>6
<1>9. \A i \in 1 .. Len(b) : (a \o r)[Len(s) + 1 + i] = b[(Len(b) - i) + 1]
  <2> TAKE i \in 1 .. Len(b)
  <2>1. (a \o r)[Len(s) + 1 + i] = r[(Len(s) + 1 + i) - Len(a)] BY <1>1, <1>5, <1>6
  <2>2. (Len(s) + 1 + i) - Len(a) = i BY <1>1
  <2> QED BY <2>1, <2>2, <1>2
<1>10. IsPushed(a \o r, s, e, b, S) BY <1>1, <1>5, <1>6, <1>7, <1>8, <1>9 DEF IsPushed
<1> QED BY <1>10 DEF a, r

(* What a turn of the loop may do with the entry top of the stack: pass    *)
(* over it, report an error, leave its node or enter it.                   *)
Popped(w, v) ==
  /\ Len(v.stack) = Len(w.stack) - 1
  /\ \A i \in 1 .. Len(w.stack) - 1 : v.stack[i] = w.stack[i]

Passed(p, w, v, top) ==
  /\ Popped(w, v) /\ v.visiting = w.visiting /\ v.visited = w.visited
  /\ v.cycle = w.cycle /\ v.tooDeep = w.tooDeep
  /\ top.id \notin KnownIds(p.nodes) \/ (~ top.exiting /\ top.id \in w.visited)

Reported(p, limit, w, v, top) ==
  /\ Popped(w, v) /\ v.visiting = w.visiting /\ v.visited = w.visited
  /\ top.id \in KnownIds(p.nodes) /\ ~ top.exiting /\ top.id \notin w.visited
  /\ \/ v.cycle /\ top.id \in w.visiting
     \/ v.tooDeep /\ top.depth > limit

LeftNode(p, w, v, top) ==
  /\ Popped(w, v) /\ top.id \in KnownIds(p.nodes) /\ top.exiting
  /\ v.visiting = w.visiting \ {top.id} /\ v.visited = w.visited \cup {top.id}
  /\ v.cycle = w.cycle /\ v.tooDeep = w.tooDeep

Entered(p, limit, w, v, top) ==
  /\ top.id \in KnownIds(p.nodes) \ (w.visited \cup w.visiting)
  /\ ~ top.exiting /\ top.depth <= limit
  /\ v.visiting = w.visiting \cup {top.id} /\ v.visited = w.visited
  /\ v.cycle = w.cycle /\ v.tooDeep = w.tooDeep
  /\ Len(v.stack) = Len(w.stack) + Len(ChildrenOf(p.nodes, top.id))
  /\ \A i \in 1 .. Len(w.stack) - 1 : v.stack[i] = w.stack[i]
  /\ v.stack[Len(w.stack)].id = top.id /\ v.stack[Len(w.stack)].exiting
  /\ v.stack[Len(w.stack)].depth = top.depth
  /\ \A i \in 1 .. Len(ChildrenOf(p.nodes, top.id)) :
       LET e == v.stack[Len(w.stack) + i]
       IN  /\ e.id = ChildrenOf(p.nodes, top.id)[(Len(ChildrenOf(p.nodes, top.id)) - i) + 1]
           /\ ~ e.exiting /\ e.depth = top.depth + 1

LEMMA VisitSteps ==
  ASSUME NEW p, WellRead(p), NEW limit \in Nat, NEW w \in Walks(p), w.stack # << >>,
         NEW v, v = Visit(p.nodes, limit, w), NEW top, top = w.stack[Len(w.stack)]
  PROVE  /\ v \in Walks(p) /\ v.begun = w.begun /\ top \in Entries(p) /\ Len(w.stack) \in Nat \ {0}
         /\ \/ Passed(p, w, v, top) \/ Reported(p, limit, w, v, top)
            \/ LeftNode(p, w, v, top) \/ Entered(p, limit, w, v, top)
<1>1. /\ w.stack \in Seq(Entries(p)) /\ w.begun \in 0 .. Len(p.roots)
      /\ w.visiting \in SUBSET KnownIds(p.nodes) /\ w.visited \in SUBSET KnownIds(p.nodes)
      /\ w.cycle \in BOOLEAN /\ w.tooDeep \in BOOLEAN
  BY DEF Walks
<1>2. /\ Len(w.stack) \in Nat \ {0} /\ Last(w.stack) = top /\ top \in Entries(p)
      /\ Front(w.stack) \in Seq(Entries(p)) /\ Len(Front(w.stack)) = Len(w.stack) - 1
      /\ \A i \in 1 .. Len(w.stack) - 1 : Front(w.stack)[i] = w.stack[i]
  BY <1>1, Popping
<1>3. top.id \in Mentioned(p) /\ top.exiting \in BOOLEAN /\ top.depth \in Nat \ {0}
  BY <1>2 DEF Entries
<1> DEFINE rest == [w EXCEPT !.stack = Front(@)]
           ch == ChildrenOf(p.nodes, top.id)
           below == [i \in DOMAIN ch |-> [id |-> ch[i], exiting |-> FALSE, depth |-> top.depth + 1]]
           turned == [top EXCEPT !.exiting = TRUE]
<1>4. v = IF top.id \notin KnownIds(p.nodes) THEN rest
          ELSE IF top.exiting THEN [rest EXCEPT !.visiting = @ \ {top.id}, !.visited = @ \cup {top.id}]
          ELSE IF top.id \in w.visited THEN rest
          ELSE IF top.id \in w.visiting THEN [rest EXCEPT !.cycle = TRUE]
          ELSE IF top.depth > limit THEN [rest EXCEPT !.tooDeep = TRUE]
          ELSE [rest EXCEPT !.visiting = @ \cup {top.id}, !.stack = Append(@, turned) \o Reverse(below)]
  BY <1>1, <1>2 DEF Visit, Walks
<1>5. /\ rest \in Walks(p) /\ rest.stack = Front(w.stack) /\ rest.begun = w.begun
      /\ rest.visiting = w.visiting /\ rest.visited = w.visited
      /\ rest.cycle = w.cycle /\ rest.tooDeep = w.tooDeep
  BY <1>1, <1>2 DEF Walks
<1> HIDE DEF rest
<1>6. CASE top.id \notin KnownIds(p.nodes)
  <2>1. v = rest BY <1>4, <1>6
  <2>2. Popped(w, v) BY <2>1, <1>2, <1>5 DEF Popped
  <2>3. Passed(p, w, v, top) BY <2>1, <2>2, <1>5, <1>6, Zenon DEF Passed
  <2> QED BY <2>1, <2>3, <1>2, <1>5
<1>7. CASE top.id \in KnownIds(p.nodes) /\ top.exiting
  <2>1. v = [rest EXCEPT !.visiting = @ \ {top.id}, !.visited = @ \cup {top.id}] BY <1>4, <1>7
  <2>2. /\ v \in Walks(p) /\ v.stack = Front(w.stack) /\ v.begun = w.begun
        /\ v.visiting = w.visiting \ {top.id} /\ v.visited = w.visited \cup {top.id}
        /\ v.cycle = w.cycle /\ v.tooDeep = w.tooDeep
    <3>1. /\ w.visiting \ {top.id} \in SUBSET KnownIds(p.nodes)
          /\ w.visited \cup {top.id} \in SUBSET KnownIds(p.nodes)
      BY <1>1, <1>7
    <3>2. v = [rest EXCEPT !.visiting = w.visiting \ {top.id}, !.visited = w.visited \cup {top.id}]
      BY <2>1, <1>5
    <3> QED BY <3>1, <3>2, <1>5 DEF Walks
  <2> QED BY <2>2, <1>2, <1>7 DEF LeftNode, Popped
<1>8. CASE top.id \in KnownIds(p.nodes) /\ ~ top.exiting /\ top.id \in w.visited
  BY <1>2, <1>4, <1>5, <1>8 DEF Passed, Popped
<1>9. CASE top.id \in KnownIds(p.nodes) /\ ~ top.exiting /\ top.id \notin w.visited /\ top.id \in w.visiting
  <2>1. v = [rest EXCEPT !.cycle = TRUE] BY <1>4, <1>9
  <2>2. /\ v \in Walks(p) /\ v.stack = Front(w.stack) /\ v.begun = w.begun
        /\ v.visiting = w.visiting /\ v.visited = w.visited /\ v.cycle
    BY <2>1, <1>1, <1>5 DEF Walks
  <2> QED BY <2>2, <1>2, <1>9 DEF Reported, Popped
<1>10. CASE /\ top.id \in KnownIds(p.nodes) /\ ~ top.exiting
            /\ top.id \notin w.visited /\ top.id \notin w.visiting /\ top.depth > limit
  <2>1. v = [rest EXCEPT !.tooDeep = TRUE] BY <1>4, <1>10
  <2>2. /\ v \in Walks(p) /\ v.stack = Front(w.stack) /\ v.begun = w.begun
        /\ v.visiting = w.visiting /\ v.visited = w.visited /\ v.tooDeep
    BY <2>1, <1>1, <1>5 DEF Walks
  <2> QED BY <2>2, <1>2, <1>10 DEF Reported, Popped
<1>11. CASE /\ top.id \in KnownIds(p.nodes) /\ ~ top.exiting
            /\ top.id \notin w.visited /\ top.id \notin w.visiting /\ ~ (top.depth > limit)
  <2>1. v = [rest EXCEPT !.visiting = @ \cup {top.id}, !.stack = Append(@, turned) \o Reverse(below)]
    BY <1>4, <1>11
  <2>2. /\ turned \in Entries(p) /\ turned.id = top.id /\ turned.exiting /\ turned.depth = top.depth
    BY <1>2, <1>3 DEF Entries
  <2>3. p.nodes \in Seq(ToSet(p.nodes)) /\ \A i \in 1 .. Len(p.nodes) : WellFormed(p.nodes[i])
    BY DEF WellRead
  <2>4. Len(ch) \in Nat /\ DOMAIN ch = 1 .. Len(ch) BY <2>3, <1>11, NodeIs
  <2>5. \A i \in 1 .. Len(ch) : ch[i] \in Mentioned(p)
    <3> TAKE i \in 1 .. Len(ch)
    <3>1. ch[i] \in ToSet(ch) BY <2>4 DEF ToSet
    <3> HIDE DEF ch
    <3> QED BY <3>1, <1>11 DEF Mentioned, ch
  <2>6. \A i \in 1 .. Len(ch) : below[i] \in Entries(p)
    BY <2>4, <2>5, <1>3 DEF Entries
  <2>7. below = [i \in 1 .. Len(ch) |-> [id |-> ch[i], exiting |-> FALSE, depth |-> top.depth + 1]]
    BY <2>4
  <2>8. below \in Seq(Entries(p)) /\ Len(below) = Len(ch)
    <3>1. \A i \in 1 .. Len(ch) : [id |-> ch[i], exiting |-> FALSE, depth |-> top.depth + 1] \in Entries(p)
      BY <2>4, <2>6
    <3> HIDE DEF ch
    <3>2. [i \in 1 .. Len(ch) |-> [id |-> ch[i], exiting |-> FALSE, depth |-> top.depth + 1]] \in Seq(Entries(p))
      BY <3>1, <2>4, IsASeq
    <3>3. Len([i \in 1 .. Len(ch) |-> [id |-> ch[i], exiting |-> FALSE, depth |-> top.depth + 1]]) = Len(ch)
      BY <2>4
    <3> QED BY <2>7, <3>2, <3>3
  <2>9. \A i \in 1 .. Len(ch) : /\ below[(Len(ch) - i) + 1].id = ch[(Len(ch) - i) + 1]
                                /\ ~ below[(Len(ch) - i) + 1].exiting
                                /\ below[(Len(ch) - i) + 1].depth = top.depth + 1
    <3> TAKE i \in 1 .. Len(ch)
    <3>1. (Len(ch) - i) + 1 \in 1 .. Len(ch) BY <2>4
    <3> QED BY <3>1, <2>4
  <2> DEFINE st == Append(Front(w.stack), turned) \o Reverse(below)
  <2> HIDE DEF below, turned
  <2>10. /\ st \in Seq(Entries(p))
         /\ Len(st) = Len(Front(w.stack)) + 1 + Len(below)
         /\ \A i \in 1 .. Len(Front(w.stack)) : st[i] = Front(w.stack)[i]
         /\ st[Len(Front(w.stack)) + 1] = turned
         /\ \A i \in 1 .. Len(below) : st[Len(Front(w.stack)) + 1 + i] = below[(Len(below) - i) + 1]
    <3>1. Front(w.stack) \in Seq(Entries(p)) /\ turned \in Entries(p) /\ below \in Seq(Entries(p))
      BY <1>2, <2>2, <2>8
    <3>2. IsPushed(Append(Front(w.stack), turned) \o Reverse(below), Front(w.stack), turned, below, Entries(p))
      BY <3>1, Pushing, Zenon
    <3>3. IsPushed(st, Front(w.stack), turned, below, Entries(p)) BY <3>2 DEF st
    <3> HIDE DEF st
    <3> QED BY <3>3 DEF IsPushed
  <2> HIDE DEF st, ch
  <2>11. /\ Len(st) = Len(w.stack) + Len(ch)
         /\ \A i \in 1 .. Len(w.stack) - 1 : st[i] = w.stack[i]
         /\ st[Len(w.stack)] = turned
         /\ \A i \in 1 .. Len(ch) : st[Len(w.stack) + i] = below[(Len(ch) - i) + 1]
    <3>1. Len(Front(w.stack)) + 1 = Len(w.stack) BY <1>2
    <3> QED BY <3>1, <2>8, <2>10, <1>2
  <2>12. /\ v \in Walks(p) /\ v.stack = st /\ v.begun = w.begun
         /\ v.visiting = w.visiting \cup {top.id} /\ v.visited = w.visited
         /\ v.cycle = w.cycle /\ v.tooDeep = w.tooDeep
    <3>1. v = [rest EXCEPT !.visiting = @ \cup {top.id}, !.stack = st] BY <2>1, <1>5 DEF st
    <3>2. w.visiting \cup {top.id} \in SUBSET KnownIds(p.nodes) BY <1>1, <1>11
    <3>3. v = [rest EXCEPT !.visiting = w.visiting \cup {top.id}, !.stack = st] BY <3>1, <1>5
    <3> QED BY <3>2, <3>3, <2>10, <1>5 DEF Walks
  <2>13. /\ v.stack[Len(w.stack)].id = top.id /\ v.stack[Len(w.stack)].exiting
         /\ v.stack[Len(w.stack)].depth = top.depth
    BY <2>2, <2>11, <2>12
  <2>14. top.depth <= limit BY <1>3, <1>11
  <2>15. \A i \in 1 .. Len(ch) : /\ v.stack[Len(w.stack) + i].id = ch[(Len(ch) - i) + 1]
                                 /\ ~ v.stack[Len(w.stack) + i].exiting
                                 /\ v.stack[Len(w.stack) + i].depth = top.depth + 1
    BY <2>9, <2>11, <2>12
  <2> QED BY <2>11, <2>12, <2>13, <2>14, <2>15, <1>2, <1>11 DEF Entered, ch
<1> QED BY <1>2, <1>6, <1>7, <1>8, <1>9, <1>10, <1>11

ChildrenAbove(p, w, v, top) ==
  LET n == Len(w.stack)
      l == Len(v.stack)
  IN  /\ l \in Nat /\ l >= n
      /\ \A j \in n + 1 .. l : /\ IsChild(p.nodes, v.stack[j].id, top.id)
                               /\ ~ v.stack[j].exiting /\ v.stack[j].depth = top.depth + 1
      /\ \A c : IsChild(p.nodes, c, top.id) => \E j \in n + 1 .. l : v.stack[j].id = c
      /\ IsInjective(ChildrenOf(p.nodes, top.id)) =>
           \A i, j \in n + 1 .. l : v.stack[i].id = v.stack[j].id => i = j

LEMMA EnteredStack ==
  ASSUME NEW p, WellRead(p), NEW limit \in Nat, NEW w \in Walks(p), w.stack # << >>,
         NEW v \in Walks(p), NEW top, top = w.stack[Len(w.stack)], top \in Entries(p),
         Entered(p, limit, w, v, top)
  PROVE  ChildrenAbove(p, w, v, top)
<1> DEFINE n == Len(w.stack)
           l == Len(v.stack)
<1>n. n = Len(w.stack) /\ l = Len(v.stack) OBVIOUS
<1> DEFINE ch == ChildrenOf(p.nodes, top.id)
<1>1. Len(ch) \in Nat /\ DOMAIN ch = 1 .. Len(ch)
  <2>1. p.nodes \in Seq(ToSet(p.nodes)) /\ \A i \in 1 .. Len(p.nodes) : WellFormed(p.nodes[i])
    BY DEF WellRead
  <2>2. top.id \in KnownIds(p.nodes) BY DEF Entered
  <2> QED BY <2>1, <2>2, NodeIs
<1>2. n \in Nat \ {0}
  <2>1. w.stack \in Seq(Entries(p)) BY DEF Walks
  <2> QED BY <2>1, Popping
<1>3. l = n + Len(ch) BY DEF Entered
<1>4. \A k \in 1 .. Len(ch) : /\ v.stack[n + k].id = ch[(Len(ch) - k) + 1]
                              /\ ~ v.stack[n + k].exiting /\ v.stack[n + k].depth = top.depth + 1
  BY DEF Entered
<1>5. \A q, c : IsChild(p.nodes, c, top.id) <=> \E k \in 1 .. Len(ch) : ch[k] = c BY DEF IsChild
<1> HIDE DEF ch, n, l
<1>6. \A j \in n + 1 .. l : /\ j - n \in 1 .. Len(ch) /\ n + (j - n) = j
                            /\ (Len(ch) - (j - n)) + 1 \in 1 .. Len(ch)
  BY <1>1, <1>2, <1>3
<1>7. \A j \in n + 1 .. l : v.stack[j].id = ch[(Len(ch) - (j - n)) + 1]
  BY <1>4, <1>6
<1>8. \A j \in n + 1 .. l : ~ v.stack[j].exiting /\ v.stack[j].depth = top.depth + 1
  <2> TAKE j \in n + 1 .. l
  <2>1. j - n \in 1 .. Len(ch) /\ n + (j - n) = j BY <1>6
  <2>2. ~ v.stack[n + (j - n)].exiting /\ v.stack[n + (j - n)].depth = top.depth + 1
    BY <1>4, <2>1
  <2> QED BY <2>1, <2>2
<1>9. \A j \in n + 1 .. l : IsChild(p.nodes, v.stack[j].id, top.id) BY <1>5, <1>6, <1>7
<1>10. ASSUME NEW c, IsChild(p.nodes, c, top.id) PROVE \E j \in n + 1 .. l : v.stack[j].id = c
  <2>1. PICK k \in 1 .. Len(ch) : ch[k] = c BY <1>5, <1>10
  <2> DEFINE j == n + ((Len(ch) - k) + 1)
  <2>2. k \in Nat /\ k >= 1 /\ k <= Len(ch) BY <1>1
  <2>3. j \in n + 1 .. l /\ (Len(ch) - (j - n)) + 1 = k BY <1>1, <1>2, <1>3, <2>2
  <2> HIDE DEF j
  <2> QED BY <2>1, <2>3, <1>7
<1>11. ASSUME IsInjective(ch), NEW i \in n + 1 .. l, NEW j \in n + 1 .. l, v.stack[i].id = v.stack[j].id
       PROVE i = j
  <2> DEFINE a == (Len(ch) - (i - n)) + 1
             b == (Len(ch) - (j - n)) + 1
  <2>1. a \in DOMAIN ch /\ b \in DOMAIN ch BY <1>1, <1>6
  <2>2. ch[a] = ch[b] BY <1>7, <1>11
  <2>3. a = b BY <1>11, <2>1, <2>2 DEF IsInjective
  <2> QED BY <2>3, <1>1, <1>2, <1>3
<1>12. l \in Nat /\ l >= n BY <1>1, <1>2, <1>3
<1>13. IsInjective(ch) => \A i, j \in n + 1 .. l : v.stack[i].id = v.stack[j].id => i = j
  BY <1>11
<1> QED BY <1>n, <1>8, <1>9, <1>10, <1>12, <1>13 DEF ChildrenAbove, ch

(***************************************************************************)
(* A turn of the loop keeps each of the parts of WalkInv.                  *)
(***************************************************************************)
LEMMA PathKept ==
  ASSUME NEW p, WellRead(p), NEW limit \in Nat, NEW w \in Walks(p), w.stack # << >>,
         NEW v, v = Visit(p.nodes, limit, w), PathIsOnStack(w)
  PROVE  PathIsOnStack(v)
<1> DEFINE n == Len(w.stack)
           top == w.stack[n]
<1>1. /\ v \in Walks(p) /\ v.begun = w.begun /\ top \in Entries(p) /\ n \in Nat \ {0}
      /\ \/ Passed(p, w, v, top) \/ Reported(p, limit, w, v, top)
         \/ LeftNode(p, w, v, top) \/ Entered(p, limit, w, v, top)
  BY VisitSteps
<1>2. w.visiting \subseteq KnownIds(p.nodes) BY DEF Walks
<1>3. /\ \A i \in 1 .. n : w.stack[i].exiting => w.stack[i].id \in w.visiting
      /\ \A x \in w.visiting : \E i \in 1 .. n : w.stack[i].exiting /\ w.stack[i].id = x
      /\ \A i, j \in 1 .. n :
           w.stack[i].exiting /\ w.stack[j].exiting /\ w.stack[i].id = w.stack[j].id => i = j
      /\ w.visiting \cap w.visited = {}
  BY DEF PathIsOnStack
<1> HIDE DEF n, top
<1>4. n = Len(w.stack) /\ top = w.stack[n] BY DEF n, top
<1>5. CASE ~ top.exiting /\ Popped(w, v) /\ v.visiting = w.visiting /\ v.visited = w.visited
  <2>1. Len(v.stack) = n - 1 /\ \A i \in 1 .. n - 1 : v.stack[i] = w.stack[i] BY <1>4, <1>5 DEF Popped
  <2>2. \A i \in 1 .. n : w.stack[i].exiting => i \in 1 .. n - 1 BY <1>1, <1>4, <1>5
  <2>3. \A x \in v.visiting : \E i \in 1 .. n - 1 : v.stack[i].exiting /\ v.stack[i].id = x
    BY <1>3, <1>5, <2>1, <2>2
  <2>4. \A i \in 1 .. n - 1 : i \in 1 .. n BY <1>1
  <2>5. \A i \in 1 .. n - 1 : v.stack[i].exiting => v.stack[i].id \in v.visiting
    BY <1>3, <1>5, <2>1, <2>4
  <2>6. \A i, j \in 1 .. n - 1 :
          v.stack[i].exiting /\ v.stack[j].exiting /\ v.stack[i].id = v.stack[j].id => i = j
    BY <1>3, <2>1, <2>4
  <2>7. v.visiting \cap v.visited = {} BY <1>3, <1>5
  <2> QED BY <2>1, <2>3, <2>5, <2>6, <2>7 DEF PathIsOnStack
<1>6. CASE Passed(p, w, v, top)
  <2>1. ~ top.exiting
    <3>1. n \in 1 .. n BY <1>1
    <3> QED BY <1>2, <1>3, <1>4, <1>6, <3>1 DEF Passed
  <2> QED BY <1>5, <1>6, <2>1 DEF Passed
<1>7. CASE Reported(p, limit, w, v, top)
  BY <1>5, <1>7 DEF Reported
<1>8. CASE LeftNode(p, w, v, top)
  <2>1. Len(v.stack) = n - 1 /\ \A i \in 1 .. n - 1 : v.stack[i] = w.stack[i]
    BY <1>4, <1>8 DEF Popped, LeftNode
  <2>2. /\ top.exiting /\ v.visiting = w.visiting \ {top.id} /\ v.visited = w.visited \cup {top.id}
    BY <1>8 DEF LeftNode
  <2>3. \A i \in 1 .. n - 1 : i \in 1 .. n /\ i # n BY <1>1
  <2>4. n \in 1 .. n BY <1>1
  <2>5. \A i \in 1 .. n - 1 : v.stack[i].exiting => v.stack[i].id \in v.visiting
    <3> TAKE i \in 1 .. n - 1
    <3> HAVE v.stack[i].exiting
    <3>1. w.stack[i].exiting /\ w.stack[i].id \in w.visiting BY <1>3, <2>1, <2>3
    <3>2. w.stack[i].id # w.stack[n].id BY <1>3, <1>4, <2>2, <2>3, <2>4, <3>1
    <3> QED BY <1>4, <2>1, <2>2, <3>1, <3>2
  <2>6. \A x \in v.visiting : \E i \in 1 .. n - 1 : v.stack[i].exiting /\ v.stack[i].id = x
    <3>1. \A i \in 1 .. n : i = n \/ i \in 1 .. n - 1 BY <1>1
    <3> TAKE x \in v.visiting
    <3>2. PICK i \in 1 .. n : w.stack[i].exiting /\ w.stack[i].id = x BY <1>3, <2>2
    <3>3. i # n BY <1>4, <2>2, <3>2
    <3> QED BY <2>1, <3>1, <3>2, <3>3
  <2>7. \A i, j \in 1 .. n - 1 :
          v.stack[i].exiting /\ v.stack[j].exiting /\ v.stack[i].id = v.stack[j].id => i = j
    BY <1>3, <2>1, <2>3
  <2>8. v.visiting \cap v.visited = {} BY <1>3, <2>2
  <2> QED BY <2>1, <2>5, <2>6, <2>7, <2>8 DEF PathIsOnStack
<1>9. CASE Entered(p, limit, w, v, top)
  <2> DEFINE l == Len(v.stack)
  <2>0. ChildrenAbove(p, w, v, top) BY <1>1, <1>4, <1>9, EnteredStack
  <2>1. /\ l \in Nat /\ l >= n
        /\ \A j \in n + 1 .. l : ~ v.stack[j].exiting
    BY <2>0, <1>4 DEF ChildrenAbove
  <2>2. /\ top.id \notin w.visited \cup w.visiting
        /\ v.visiting = w.visiting \cup {top.id} /\ v.visited = w.visited
        /\ ~ top.exiting
        /\ \A i \in 1 .. n - 1 : v.stack[i] = w.stack[i]
        /\ v.stack[n].id = top.id /\ v.stack[n].exiting
    BY <1>4, <1>9 DEF Entered
  <2> HIDE DEF l
  <2>3. \A i \in 1 .. l : i \in 1 .. n - 1 \/ i = n \/ i \in n + 1 .. l BY <1>1, <2>1
  <2>4. \A i \in 1 .. n - 1 : i \in 1 .. n /\ i # n /\ i \in 1 .. l BY <1>1, <2>1
  <2>5. n \in 1 .. l /\ n \in 1 .. n BY <1>1, <2>1
  <2>6. \A i \in 1 .. l : v.stack[i].exiting => i = n \/ (i \in 1 .. n - 1 /\ v.stack[i].id \in w.visiting)
    BY <1>3, <2>1, <2>2, <2>3, <2>4
  <2>7. \A x \in v.visiting : \E i \in 1 .. l : v.stack[i].exiting /\ v.stack[i].id = x
    <3> TAKE x \in v.visiting
    <3>1. CASE x = top.id BY <2>2, <2>5, <3>1
    <3>2. CASE x # top.id
      <4>1. PICK i \in 1 .. n : w.stack[i].exiting /\ w.stack[i].id = x BY <1>3, <2>2, <3>2
      <4>2. i \in 1 .. n - 1 BY <1>1, <1>4, <2>2, <4>1
      <4> QED BY <2>2, <2>4, <4>1, <4>2
    <3> QED BY <3>1, <3>2
  <2>8. \A i, j \in 1 .. l : v.stack[i].exiting /\ v.stack[j].exiting /\ v.stack[i].id = v.stack[j].id => i = j
    BY <1>3, <2>2, <2>4, <2>6
  <2>9. \A i \in 1 .. l : v.stack[i].exiting => v.stack[i].id \in v.visiting BY <2>2, <2>6
  <2>10. v.visiting \cap v.visited = {} BY <1>3, <2>2
  <2> QED BY <2>7, <2>8, <2>9, <2>10 DEF PathIsOnStack, l
<1> QED BY <1>1, <1>6, <1>7, <1>8, <1>9

LEMMA ChildrenKept ==
  ASSUME NEW p, WellRead(p), NEW limit \in Nat, NEW w \in Walks(p), w.stack # << >>,
         NEW v, v = Visit(p.nodes, limit, w), PathIsOnStack(w), ChildrenAreDue(p, w)
  PROVE  ChildrenAreDue(p, v)
<1> SUFFICES ASSUME Clean(v) PROVE
      /\ \A x \in v.visited : \A c \in KnownIds(p.nodes) : IsChild(p.nodes, c, x) => c \in v.visited
      /\ \A i \in 1 .. Len(v.stack) : v.stack[i].exiting =>
           \A c \in KnownIds(p.nodes) : IsChild(p.nodes, c, v.stack[i].id) =>
             c \in v.visited \/ \E j \in i + 1 .. Len(v.stack) : v.stack[j].id = c
  BY DEF ChildrenAreDue
<1> DEFINE n == Len(w.stack)
           top == w.stack[n]
           l == Len(v.stack)
<1>1. /\ v \in Walks(p) /\ top \in Entries(p) /\ n \in Nat \ {0}
      /\ \/ Passed(p, w, v, top) \/ Reported(p, limit, w, v, top)
         \/ LeftNode(p, w, v, top) \/ Entered(p, limit, w, v, top)
  BY VisitSteps
<1>2. Clean(w) /\ ~ Reported(p, limit, w, v, top)
  BY <1>1 DEF Clean, Passed, Reported, LeftNode, Entered
<1>3. /\ \A x \in w.visited : \A c \in KnownIds(p.nodes) : IsChild(p.nodes, c, x) => c \in w.visited
      /\ \A i \in 1 .. n : w.stack[i].exiting =>
           \A c \in KnownIds(p.nodes) : IsChild(p.nodes, c, w.stack[i].id) =>
             c \in w.visited \/ \E j \in i + 1 .. n : w.stack[j].id = c
  BY <1>2 DEF ChildrenAreDue
<1>4. n = Len(w.stack) /\ top = w.stack[n] /\ l = Len(v.stack) OBVIOUS
<1> HIDE DEF n, top, l
<1>5. ASSUME Popped(w, v), w.visited \subseteq v.visited,
             top.id \in KnownIds(p.nodes) => top.id \in v.visited
      PROVE  \A i \in 1 .. l : v.stack[i].exiting =>
               \A c \in KnownIds(p.nodes) : IsChild(p.nodes, c, v.stack[i].id) =>
                 c \in v.visited \/ \E j \in i + 1 .. l : v.stack[j].id = c
  <2>1. l = n - 1 /\ \A i \in 1 .. n - 1 : v.stack[i] = w.stack[i] BY <1>4, <1>5 DEF Popped
  <2>2. ASSUME NEW i \in 1 .. n - 1, w.stack[i].exiting, NEW c \in KnownIds(p.nodes),
               IsChild(p.nodes, c, w.stack[i].id)
        PROVE  c \in v.visited \/ \E j \in i + 1 .. n - 1 : v.stack[j].id = c
    <3>1. i \in 1 .. n BY <1>1
    <3>2. CASE c \in w.visited BY <1>5, <3>2
    <3>3. CASE \E j \in i + 1 .. n : w.stack[j].id = c
      <4>1. PICK j \in i + 1 .. n : w.stack[j].id = c BY <3>3
      <4>2. CASE j = n BY <1>4, <1>5, <4>1, <4>2
      <4>3. CASE j # n
        <5>1. j \in i + 1 .. n - 1 /\ j \in 1 .. n - 1 BY <1>1, <4>3
        <5> QED BY <2>1, <4>1, <5>1
      <4> QED BY <4>2, <4>3
    <3> QED BY <1>3, <2>2, <3>1, <3>2, <3>3
  <2> QED BY <2>1, <2>2
<1>6. CASE Passed(p, w, v, top)
  <2>1. \A i \in 1 .. l : v.stack[i].exiting =>
          \A c \in KnownIds(p.nodes) : IsChild(p.nodes, c, v.stack[i].id) =>
            c \in v.visited \/ \E j \in i + 1 .. l : v.stack[j].id = c
    BY <1>4, <1>5, <1>6 DEF Passed
  <2> QED BY <1>3, <1>4, <1>6, <2>1 DEF Passed
<1>7. CASE LeftNode(p, w, v, top)
  <2>1. \A i \in 1 .. l : v.stack[i].exiting =>
          \A c \in KnownIds(p.nodes) : IsChild(p.nodes, c, v.stack[i].id) =>
            c \in v.visited \/ \E j \in i + 1 .. l : v.stack[j].id = c
    BY <1>4, <1>5, <1>7 DEF LeftNode
  <2>2. top.exiting /\ v.visited = w.visited \cup {top.id} BY <1>7 DEF LeftNode
  <2>3. n \in 1 .. n /\ n + 1 .. n = {} BY <1>1
  <2>4. \A c \in KnownIds(p.nodes) : IsChild(p.nodes, c, top.id) => c \in w.visited
    BY <1>3, <1>4, <2>2, <2>3
  <2> QED BY <1>3, <1>4, <2>1, <2>2, <2>4
<1>8. CASE Entered(p, limit, w, v, top)
  <2>1. /\ l \in Nat /\ l >= n
        /\ \A c : IsChild(p.nodes, c, top.id) => \E j \in n + 1 .. l : v.stack[j].id = c
        /\ \A j \in n + 1 .. l : ~ v.stack[j].exiting
    <3>1. ChildrenAbove(p, w, v, top) BY <1>1, <1>4, <1>8, EnteredStack
    <3> QED BY <3>1, <1>4 DEF ChildrenAbove
  <2>2. /\ v.visited = w.visited /\ v.stack[n].id = top.id
        /\ \A i \in 1 .. n - 1 : v.stack[i] = w.stack[i]
    BY <1>4, <1>8 DEF Entered
  <2>3. ASSUME NEW i \in 1 .. l, v.stack[i].exiting, NEW c \in KnownIds(p.nodes),
               IsChild(p.nodes, c, v.stack[i].id)
        PROVE  c \in v.visited \/ \E j \in i + 1 .. l : v.stack[j].id = c
    <3>1. i \in 1 .. n - 1 \/ i = n BY <1>1, <2>1, <2>3
    <3>2. CASE i = n BY <2>1, <2>2, <2>3, <3>2
    <3>3. CASE i \in 1 .. n - 1
      <4>1. v.stack[i] = w.stack[i] /\ i \in 1 .. n BY <1>1, <2>2, <3>3
      <4>2. c \in w.visited \/ \E j \in i + 1 .. n : w.stack[j].id = c BY <1>3, <2>3, <4>1
      <4>3. ASSUME NEW j \in i + 1 .. n, w.stack[j].id = c PROVE j \in i + 1 .. l /\ v.stack[j].id = c
        <5>1. j \in i + 1 .. l /\ (j = n \/ j \in 1 .. n - 1) BY <1>1, <2>1, <3>3
        <5> QED BY <1>4, <2>2, <4>3, <5>1
      <4> QED BY <2>2, <4>2, <4>3
    <3> QED BY <3>1, <3>2, <3>3
  <2> QED BY <1>3, <1>4, <2>2, <2>3
<1> QED BY <1>1, <1>2, <1>6, <1>7, <1>8

LEMMA RootsKept ==
  ASSUME NEW p, WellRead(p), NEW limit \in Nat, NEW w \in Walks(p), w.stack # << >>,
         NEW v, v = Visit(p.nodes, limit, w), RootsAreDue(p, w)
  PROVE  RootsAreDue(p, v)
<1> SUFFICES ASSUME Clean(v), NEW k \in 1 .. v.begun, p.roots[k] \in KnownIds(p.nodes)
             PROVE  p.roots[k] \in v.visited \/ OnStack(v, p.roots[k])
  BY DEF RootsAreDue
<1> DEFINE n == Len(w.stack)
           top == w.stack[n]
           l == Len(v.stack)
<1>1. /\ v \in Walks(p) /\ v.begun = w.begun /\ top \in Entries(p) /\ n \in Nat \ {0}
      /\ \/ Passed(p, w, v, top) \/ Reported(p, limit, w, v, top)
         \/ LeftNode(p, w, v, top) \/ Entered(p, limit, w, v, top)
  BY VisitSteps
<1>2. Clean(w) /\ ~ Reported(p, limit, w, v, top)
  BY <1>1 DEF Clean, Passed, Reported, LeftNode, Entered
<1>3. p.roots[k] \in w.visited \/ \E i \in 1 .. n : w.stack[i].id = p.roots[k]
  BY <1>1, <1>2 DEF RootsAreDue, OnStack
<1>4. n = Len(w.stack) /\ top = w.stack[n] /\ l = Len(v.stack) OBVIOUS
<1> HIDE DEF n, top, l
<1>5. CASE p.roots[k] \in w.visited
  BY <1>1, <1>2, <1>5 DEF Passed, LeftNode, Entered
<1>6. ASSUME NEW i \in 1 .. n, w.stack[i].id = p.roots[k]
      PROVE p.roots[k] \in v.visited \/ OnStack(v, p.roots[k])
  <2>1. i = n \/ i \in 1 .. n - 1 BY <1>1
  <2>2. CASE Popped(w, v) /\ i \in 1 .. n - 1
    BY <1>4, <1>6, <2>2 DEF Popped, OnStack
  <2>3. CASE Entered(p, limit, w, v, top)
    <3>0. ChildrenAbove(p, w, v, top) BY <1>1, <1>4, <2>3, EnteredStack
    <3>1. l >= n /\ l \in Nat BY <3>0, <1>4 DEF ChildrenAbove
    <3>2. v.stack[i].id = w.stack[i].id BY <1>4, <2>1, <2>3 DEF Entered
    <3>3. i \in 1 .. l BY <1>1, <3>1
    <3> QED BY <1>4, <1>6, <3>2, <3>3 DEF OnStack
  <2>4. CASE Passed(p, w, v, top) BY <1>4, <1>6, <2>1, <2>2, <2>4 DEF Passed
  <2>5. CASE LeftNode(p, w, v, top) BY <1>4, <1>6, <2>1, <2>2, <2>5 DEF LeftNode
  <2> QED BY <1>1, <1>2, <2>3, <2>4, <2>5
<1> QED BY <1>3, <1>5, <1>6

LEMMA KnownFinite ==
  ASSUME NEW nodes, nodes \in Seq(ToSet(nodes))
  PROVE  /\ IsFiniteSet(KnownIds(nodes)) /\ Cardinality(KnownIds(nodes)) \in Nat
         /\ Cardinality(KnownIds(nodes)) = Len(nodes)
              <=> IsInjective([i \in DOMAIN nodes |-> nodes[i].id])
<1>1. DOMAIN nodes = 1 .. Len(nodes) /\ Len(nodes) \in Nat BY LenProperties
<1> DEFINE D == 1 .. Len(nodes)
           f == [i \in DOMAIN nodes |-> nodes[i].id]
           K == KnownIds(nodes)
<1>2. IsFiniteSet(D) /\ Cardinality(D) = Len(nodes) BY <1>1, FS_Interval
<1>3. f \in [D -> K] BY <1>1 DEF KnownIds
<1>4. \A x \in K : \E i \in D : f[i] = x BY <1>1 DEF KnownIds
<1>5. f \in Surjection(D, K) BY <1>3, <1>4 DEF Surjection
<1>6. f \in Injection(D, K) <=> IsInjective(f) BY <1>3 DEF Injection
<1> HIDE DEF D, f, K
<1>7. IsFiniteSet(K) /\ (Cardinality(K) = Cardinality(D) <=> f \in Injection(D, K))
  BY <1>2, <1>5, FS_Surjection
<1>8. Cardinality(K) \in Nat BY <1>7, FS_CardinalityType
<1> QED BY <1>2, <1>6, <1>7, <1>8 DEF f, K

LEMMA OrderKept ==
  ASSUME NEW p, WellRead(p), NEW limit \in Nat, NEW w \in Walks(p), w.stack # << >>,
         NEW v, v = Visit(p.nodes, limit, w),
         PathIsOnStack(w), ChildrenAreDue(p, w), LeftInOrder(p, w)
  PROVE  LeftInOrder(p, v)
<1> SUFFICES ASSUME Clean(v) PROVE
      \E rank \in [v.visited -> 1 .. Cardinality(v.visited)] :
        \A x, c \in v.visited : IsChild(p.nodes, c, x) => rank[c] < rank[x]
  BY DEF LeftInOrder
<1> DEFINE n == Len(w.stack)
           top == w.stack[n]
<1>1. /\ v \in Walks(p) /\ top \in Entries(p) /\ n \in Nat \ {0}
      /\ \/ Passed(p, w, v, top) \/ Reported(p, limit, w, v, top)
         \/ LeftNode(p, w, v, top) \/ Entered(p, limit, w, v, top)
  BY VisitSteps
<1>2. Clean(w) /\ ~ Reported(p, limit, w, v, top)
  BY <1>1 DEF Clean, Passed, Reported, LeftNode, Entered
<1>3. PICK rank \in [w.visited -> 1 .. Cardinality(w.visited)] :
        \A x, c \in w.visited : IsChild(p.nodes, c, x) => rank[c] < rank[x]
  BY <1>2 DEF LeftInOrder
<1>4. CASE v.visited = w.visited BY <1>3, <1>4
<1>5. CASE LeftNode(p, w, v, top)
  <2> DEFINE y == top.id
             m == Cardinality(w.visited)
  <2>1. top.exiting /\ v.visited = w.visited \cup {y} BY <1>5 DEF LeftNode
  <2>2. n \in 1 .. n BY <1>1
  <2>3. y \notin w.visited BY <2>1, <2>2 DEF PathIsOnStack
  <2>4. \A c \in KnownIds(p.nodes) : IsChild(p.nodes, c, y) => c \in w.visited
    <3>1. n + 1 .. n = {} BY <1>1
    <3> QED BY <1>2, <2>1, <2>2, <3>1 DEF ChildrenAreDue
  <2>5. \A x \in w.visited : \A c \in KnownIds(p.nodes) : IsChild(p.nodes, c, x) => c \in w.visited
    BY <1>2 DEF ChildrenAreDue
  <2>6. IsFiniteSet(w.visited)
    <3>1. IsFiniteSet(KnownIds(p.nodes)) BY KnownFinite DEF WellRead
    <3>2. w.visited \in SUBSET KnownIds(p.nodes) BY DEF Walks
    <3> QED BY <3>1, <3>2, FS_Subset
  <2>7. m \in Nat /\ Cardinality(v.visited) = m + 1
    BY <2>1, <2>3, <2>6, FS_AddElement, FS_CardinalityType
  <2>8. v.visited \subseteq KnownIds(p.nodes) BY <1>1 DEF Walks
  <2> DEFINE next == [x \in v.visited |-> IF x = y THEN m + 1 ELSE rank[x]]
  <2> HIDE DEF y, m, n, top
  <2>9. \A x \in w.visited : rank[x] \in 1 .. m BY <1>3 DEF m
  <2>10. next \in [v.visited -> 1 .. Cardinality(v.visited)]
    BY <2>1, <2>7, <2>9
  <2>11. ASSUME NEW x \in v.visited, NEW c \in v.visited, IsChild(p.nodes, c, x)
         PROVE  next[c] < next[x]
    <3>1. c \in w.visited /\ c # y BY <2>1, <2>3, <2>4, <2>5, <2>8, <2>11
    <3>2. next[c] = rank[c] BY <3>1
    <3>3. CASE x = y
      <4>1. next[x] = m + 1 BY <3>3
      <4> QED BY <2>7, <2>9, <3>1, <3>2, <4>1
    <3>4. CASE x # y
      <4>1. x \in w.visited /\ next[x] = rank[x] BY <2>1, <3>4
      <4> QED BY <1>3, <2>11, <3>1, <3>2, <4>1
    <3> QED BY <3>3, <3>4
  <2> HIDE DEF next
  <2> QED BY <2>10, <2>11
<1> QED BY <1>1, <1>2, <1>4, <1>5 DEF Passed, Entered

LEMMA LevelsKept ==
  ASSUME NEW p, WellRead(p), NEW limit \in Nat, NEW w \in Walks(p), w.stack # << >>,
         NEW v, v = Visit(p.nodes, limit, w), PathIsOnStack(w), DepthsAreLevels(p, limit, w)
  PROVE  DepthsAreLevels(p, limit, v)
<1> DEFINE n == Len(w.stack)
           top == w.stack[n]
           l == Len(v.stack)
<1>1. /\ v \in Walks(p) /\ top \in Entries(p) /\ n \in Nat \ {0}
      /\ \/ Passed(p, w, v, top) \/ Reported(p, limit, w, v, top)
         \/ LeftNode(p, w, v, top) \/ Entered(p, limit, w, v, top)
  BY VisitSteps
<1>2. n = Len(w.stack) /\ top = w.stack[n] /\ l = Len(v.stack) OBVIOUS
<1>3. PICK level : EnteredAt(p, limit, w, level) BY DEF DepthsAreLevels
<1> DEFINE D == w.visited \cup w.visiting
           Due(e, f, E) == \/ e.id \in ToSet(p.roots) /\ e.depth = 1
                           \/ \E q \in E : IsChild(p.nodes, e.id, q) /\ e.depth = f[q] + 1
<1> HIDE DEF n, top, l
<1>4. /\ level \in [D -> 1 .. limit]
      /\ \A i \in 1 .. n : IF w.stack[i].exiting THEN level[w.stack[i].id] = w.stack[i].depth
                           ELSE Due(w.stack[i], level, D)
      /\ \A c \in D : \/ c \in ToSet(p.roots) /\ level[c] = 1
                      \/ \E q \in D : IsChild(p.nodes, c, q) /\ level[c] = level[q] + 1
  BY <1>2, <1>3 DEF EnteredAt
<1>5. CASE Popped(w, v) /\ v.visited \cup v.visiting = D
  <2>1. l = n - 1 /\ \A i \in 1 .. n - 1 : v.stack[i] = w.stack[i] BY <1>2, <1>5 DEF Popped
  <2>2. \A i \in 1 .. n - 1 : i \in 1 .. n BY <1>1
  <2>3. \A i \in 1 .. l : IF v.stack[i].exiting THEN level[v.stack[i].id] = v.stack[i].depth
                          ELSE Due(v.stack[i], level, D)
    BY <1>4, <2>1, <2>2
  <2>4. EnteredAt(p, limit, v, level) BY <1>2, <1>4, <1>5, <2>3 DEF EnteredAt
  <2> QED BY <2>4 DEF DepthsAreLevels
<1>6. CASE Passed(p, w, v, top) BY <1>5, <1>6 DEF Passed
<1>7. CASE Reported(p, limit, w, v, top) BY <1>5, <1>7 DEF Reported
<1>8. CASE LeftNode(p, w, v, top)
  <2>1. top.exiting BY <1>8 DEF LeftNode
  <2>2. n \in 1 .. n BY <1>1
  <2>3. top.id \in w.visiting BY <1>2, <2>1, <2>2 DEF PathIsOnStack
  <2> QED BY <1>5, <1>8, <2>3 DEF LeftNode
<1>9. CASE Entered(p, limit, w, v, top)
  <2>1. ChildrenAbove(p, w, v, top) BY <1>1, <1>2, <1>9, EnteredStack
  <2>2. /\ l \in Nat /\ l >= n
        /\ \A j \in n + 1 .. l : /\ IsChild(p.nodes, v.stack[j].id, top.id)
                                 /\ ~ v.stack[j].exiting /\ v.stack[j].depth = top.depth + 1
    BY <1>2, <2>1 DEF ChildrenAbove
  <2>3. /\ top.id \notin D /\ ~ top.exiting /\ top.depth <= limit
        /\ v.visited \cup v.visiting = D \cup {top.id}
        /\ \A i \in 1 .. n - 1 : v.stack[i] = w.stack[i]
        /\ v.stack[n].id = top.id /\ v.stack[n].exiting /\ v.stack[n].depth = top.depth
    BY <1>2, <1>9 DEF Entered
  <2>4. top.depth \in 1 .. limit BY <1>1, <2>3 DEF Entries
  <2> DEFINE E == D \cup {top.id}
             f == [c \in E |-> IF c = top.id THEN top.depth ELSE level[c]]
  <2>5. f \in [E -> 1 .. limit] BY <1>4, <2>4
  <2>6. f[top.id] = top.depth /\ \A c \in D : f[c] = level[c] /\ c # top.id BY <2>3
  <2>7. \A i \in 1 .. n - 1 : i \in 1 .. n BY <1>1
  <2>8. n \in 1 .. n BY <1>1
  <2>9. \A i \in 1 .. n : w.stack[i].exiting => w.stack[i].id \in D
    BY <1>2 DEF PathIsOnStack
  <2> HIDE DEF f
  <2>10. \A e : Due(e, level, D) => Due(e, f, E) BY <2>6
  <2> HIDE DEF D
  <2>11. ASSUME NEW i \in 1 .. l
         PROVE  IF v.stack[i].exiting THEN f[v.stack[i].id] = v.stack[i].depth
                ELSE Due(v.stack[i], f, E)
    <3>1. i \in 1 .. n - 1 \/ i = n \/ i \in n + 1 .. l BY <1>1, <2>2
    <3>2. CASE i = n BY <2>3, <2>6, <3>2
    <3>3. CASE i \in n + 1 .. l
      <4>1. IsChild(p.nodes, v.stack[i].id, top.id) /\ ~ v.stack[i].exiting
            /\ v.stack[i].depth = f[top.id] + 1
        BY <2>2, <2>6, <3>3
      <4> QED BY <4>1
    <3>4. CASE i \in 1 .. n - 1
      <4>1. v.stack[i] = w.stack[i] /\ i \in 1 .. n BY <2>3, <2>7, <3>4
      <4>2. CASE w.stack[i].exiting
        <5>1. level[w.stack[i].id] = w.stack[i].depth BY <1>4, <4>1, <4>2
        <5>2. w.stack[i].id \in D BY <2>9, <4>1, <4>2
        <5> QED BY <2>6, <4>1, <4>2, <5>1, <5>2
      <4>3. CASE ~ w.stack[i].exiting
        <5>1. Due(w.stack[i], level, D) BY <1>4, <4>1, <4>3
        <5> HIDE DEF Due
        <5> QED BY <2>10, <4>1, <4>3, <5>1
      <4> QED BY <4>2, <4>3
    <3> QED BY <3>1, <3>2, <3>3, <3>4
  <2>12. ASSUME NEW c \in E
         PROVE  \/ c \in ToSet(p.roots) /\ f[c] = 1
                \/ \E q \in E : IsChild(p.nodes, c, q) /\ f[c] = f[q] + 1
    <3>1. CASE c \in D BY <1>4, <2>6, <3>1
    <3>2. CASE c = top.id
      <4>1. Due(top, level, D) BY <1>2, <1>4, <2>3, <2>8
      <4>2. Due(top, f, E) BY <2>10, <4>1
      <4> QED BY <2>6, <3>2, <4>2
    <3> QED BY <3>1, <3>2
  <2>13. v.visited \cup v.visiting = E BY <2>3
  <2> HIDE DEF E
  <2>14. EnteredAt(p, limit, v, f) BY <1>2, <2>5, <2>11, <2>12, <2>13 DEF EnteredAt
  <2> QED BY <2>14 DEF DepthsAreLevels
<1> QED BY <1>1, <1>6, <1>7, <1>8, <1>9

LEMMA MetKept ==
  ASSUME NEW p, WellRead(p), NEW limit \in Nat, NEW w \in Walks(p), w.stack # << >>,
         NEW v, v = Visit(p.nodes, limit, w), PathIsOnStack(w),
         NEW level, ForestBy(p, limit, level), MetOnce(p, w, level)
  PROVE  MetOnce(p, v, level)
<1> DEFINE n == Len(w.stack)
           top == w.stack[n]
           l == Len(v.stack)
           K == KnownIds(p.nodes)
<1>1. /\ v \in Walks(p) /\ v.begun = w.begun /\ top \in Entries(p) /\ n \in Nat \ {0}
      /\ \/ Passed(p, w, v, top) \/ Reported(p, limit, w, v, top)
         \/ LeftNode(p, w, v, top) \/ Entered(p, limit, w, v, top)
  BY VisitSteps
<1>2. n = Len(w.stack) /\ top = w.stack[n] /\ l = Len(v.stack) /\ K = KnownIds(p.nodes) OBVIOUS
<1> HIDE DEF n, top, l, K
<1>3. /\ Clean(w)
      /\ \A i \in 1 .. n : w.stack[i].id \in K \ w.visited /\ w.stack[i].depth = level[w.stack[i].id]
      /\ \A i, j \in 1 .. n : w.stack[i].id = w.stack[j].id => i = j
  BY <1>2 DEF MetOnce
<1>4. \A x : x \in w.visited \/ OnStack(w, x) =>
        \/ \E k \in 1 .. w.begun : p.roots[k] = x
        \/ \E q \in w.visited \cup w.visiting : IsChild(p.nodes, x, q)
  BY DEF MetOnce
<1>5. n \in 1 .. n /\ \A i \in 1 .. n - 1 : i \in 1 .. n /\ i # n BY <1>1
<1>6. CASE Passed(p, w, v, top) BY <1>2, <1>3, <1>5, <1>6 DEF Passed
<1>7. CASE Reported(p, limit, w, v, top)
  <2>1. top.id \in K /\ ~ top.exiting BY <1>2, <1>7 DEF Reported
  <2>2. top.id \notin w.visiting
    <3>1. ASSUME top.id \in w.visiting PROVE FALSE
      <4>1. PICK i \in 1 .. n : w.stack[i].exiting /\ w.stack[i].id = top.id
        BY <1>2, <3>1 DEF PathIsOnStack
      <4>2. i = n BY <1>2, <1>3, <1>5, <4>1
      <4> QED BY <1>2, <2>1, <4>1, <4>2
    <3> QED BY <3>1
  <2>3. top.depth \in 1 .. limit
    <3>1. top.depth = level[top.id] BY <1>2, <1>3, <1>5
    <3>2. level \in [K -> 1 .. limit] BY <1>2 DEF ForestBy
    <3> QED BY <2>1, <3>1, <3>2
  <2> QED BY <2>2, <2>3, <1>7 DEF Reported
<1>8. CASE LeftNode(p, w, v, top)
  <2>1. /\ l = n - 1 /\ (\A i \in 1 .. n - 1 : v.stack[i] = w.stack[i])
        /\ v.visiting = w.visiting \ {top.id} /\ v.visited = w.visited \cup {top.id}
        /\ Clean(v)
    BY <1>2, <1>3, <1>8 DEF LeftNode, Popped, Clean
  <2>2. \A i \in 1 .. l : /\ v.stack[i].id \in K \ v.visited
                          /\ v.stack[i].depth = level[v.stack[i].id]
    <3> TAKE i \in 1 .. l
    <3>1. i \in 1 .. n - 1 /\ i \in 1 .. n /\ i # n /\ v.stack[i] = w.stack[i] BY <1>5, <2>1
    <3>2. w.stack[i].id # w.stack[n].id BY <1>3, <1>5, <3>1
    <3> QED BY <1>2, <1>3, <2>1, <3>1, <3>2
  <2>3. \A i, j \in 1 .. l : v.stack[i].id = v.stack[j].id => i = j
    BY <1>3, <1>5, <2>1
  <2>4. \A x : x \in v.visited \/ OnStack(v, x) => x \in w.visited \/ OnStack(w, x)
    <3>1. OnStack(w, top.id) BY <1>2, <1>5 DEF OnStack
    <3>2. ASSUME NEW x, OnStack(v, x) PROVE OnStack(w, x)
      <4>1. PICK i \in 1 .. l : v.stack[i].id = x BY <1>2, <3>2 DEF OnStack
      <4>2. i \in 1 .. n /\ w.stack[i].id = x BY <1>5, <2>1, <4>1
      <4> QED BY <1>2, <4>2 DEF OnStack
    <3> QED BY <2>1, <3>1, <3>2
  <2>5. w.visited \cup w.visiting \subseteq v.visited \cup v.visiting BY <2>1
  <2>6. \A x : x \in v.visited \/ OnStack(v, x) =>
          \/ \E k \in 1 .. v.begun : p.roots[k] = x
          \/ \E q \in v.visited \cup v.visiting : IsChild(p.nodes, x, q)
    BY <1>1, <1>4, <2>4, <2>5
  <2> QED BY <1>2, <2>1, <2>2, <2>3, <2>6 DEF MetOnce
<1>9. CASE Entered(p, limit, w, v, top)
  <2>1. ChildrenAbove(p, w, v, top) BY <1>1, <1>2, <1>9, EnteredStack
  <2>2. /\ l \in Nat /\ l >= n
        /\ \A j \in n + 1 .. l : IsChild(p.nodes, v.stack[j].id, top.id)
                                 /\ v.stack[j].depth = top.depth + 1
        /\ IsInjective(ChildrenOf(p.nodes, top.id)) =>
             \A i, j \in n + 1 .. l : v.stack[i].id = v.stack[j].id => i = j
    BY <1>2, <2>1 DEF ChildrenAbove
  <2>3. /\ top.id \in K \ (w.visited \cup w.visiting) /\ Clean(v)
        /\ v.visiting = w.visiting \cup {top.id} /\ v.visited = w.visited
        /\ \A i \in 1 .. n - 1 : v.stack[i] = w.stack[i]
        /\ v.stack[n].id = top.id /\ v.stack[n].depth = top.depth
    BY <1>2, <1>3, <1>9 DEF Entered, Clean
  <2>4. \A i \in 1 .. l : i \in 1 .. n \/ i \in n + 1 .. l BY <1>1, <2>2
  <2>5. \A i \in 1 .. n : v.stack[i].id = w.stack[i].id /\ v.stack[i].depth = w.stack[i].depth
    <3>1. \A i \in 1 .. n : i = n \/ i \in 1 .. n - 1 BY <1>1
    <3> QED BY <1>2, <2>3, <3>1
  <2>6. w.visited \cup w.visiting \subseteq K BY <1>2 DEF Walks
  <2>7. ASSUME NEW c, IsChild(p.nodes, c, top.id)
        PROVE  c \in K \ w.visited /\ ~ OnStack(w, c) /\ level[c] = level[top.id] + 1
    <3>1. c \in K
      <4>1. ToSet(ChildrenOf(p.nodes, top.id)) \subseteq K BY <1>2, <2>3 DEF ForestBy
      <4>2. DOMAIN ChildrenOf(p.nodes, top.id) = 1 .. Len(ChildrenOf(p.nodes, top.id))
        BY <1>2, <2>3, NodeIs DEF WellRead
      <4> QED BY <2>7, <4>1, <4>2 DEF IsChild, ToSet
    <3>2. level[c] = level[top.id] + 1 BY <1>2, <2>3, <2>7, <3>1 DEF ForestBy
    <3>3. ASSUME c \in w.visited \/ OnStack(w, c) PROVE FALSE
      <4>1. CASE \E k \in 1 .. w.begun : p.roots[k] = c
        <5>1. PICK k \in 1 .. w.begun : p.roots[k] = c BY <4>1
        <5>2. k \in DOMAIN p.roots
          <6>1. p.roots \in Seq(ToSet(p.roots)) BY DEF WellRead
          <6>2. DOMAIN p.roots = 1 .. Len(p.roots) /\ Len(p.roots) \in Nat BY <6>1, LenProperties
          <6>3. w.begun \in 0 .. Len(p.roots) BY DEF Walks
          <6> QED BY <6>2, <6>3
        <5>3. c \in ToSet(p.roots) BY <5>1, <5>2 DEF ToSet
        <5> QED BY <1>2, <2>3, <2>7, <5>3 DEF ForestBy
      <4>2. CASE \E q \in w.visited \cup w.visiting : IsChild(p.nodes, c, q)
        <5>1. PICK q \in w.visited \cup w.visiting : IsChild(p.nodes, c, q) BY <4>2
        <5>2. q = top.id BY <1>2, <2>3, <2>6, <2>7, <3>1, <5>1 DEF ForestBy
        <5> QED BY <2>3, <5>1, <5>2
      <4> QED BY <1>4, <3>3, <4>1, <4>2
    <3> QED BY <3>1, <3>2, <3>3
  <2>8. top.depth = level[top.id] BY <1>2, <1>3, <1>5
  <2>9. ASSUME NEW i \in 1 .. l
        PROVE  v.stack[i].id \in K \ v.visited /\ v.stack[i].depth = level[v.stack[i].id]
    <3>1. CASE i \in 1 .. n BY <1>3, <2>3, <2>5, <3>1
    <3>2. CASE i \in n + 1 .. l BY <2>2, <2>3, <2>7, <2>8, <3>2
    <3> QED BY <2>4, <3>1, <3>2
  <2>10. ASSUME NEW i \in 1 .. l, NEW j \in 1 .. l, v.stack[i].id = v.stack[j].id PROVE i = j
    <3>1. \A a \in 1 .. n : OnStack(w, v.stack[a].id) BY <1>2, <2>5 DEF OnStack
    <3>2. \A a \in n + 1 .. l : ~ OnStack(w, v.stack[a].id) BY <2>2, <2>7
    <3>3. CASE i \in 1 .. n /\ j \in 1 .. n BY <1>3, <2>5, <2>10, <3>3
    <3>4. CASE i \in n + 1 .. l /\ j \in n + 1 .. l
      <4>1. IsInjective(ChildrenOf(p.nodes, top.id)) BY <1>2, <2>3 DEF ForestBy
      <4> QED BY <2>2, <2>10, <3>4, <4>1
    <3> QED BY <2>4, <2>10, <3>1, <3>2, <3>3, <3>4
  <2>11. ASSUME NEW x, x \in v.visited \/ OnStack(v, x)
         PROVE  \/ \E k \in 1 .. v.begun : p.roots[k] = x
                \/ \E q \in v.visited \cup v.visiting : IsChild(p.nodes, x, q)
    <3>1. CASE x \in w.visited \/ OnStack(w, x) BY <1>1, <1>4, <2>3, <3>1
    <3>2. ASSUME NEW i \in 1 .. l, v.stack[i].id = x
          PROVE  OnStack(w, x) \/ IsChild(p.nodes, x, top.id)
      BY <1>2, <2>2, <2>4, <2>5, <3>2 DEF OnStack
    <3> QED BY <1>2, <2>3, <2>11, <3>1, <3>2 DEF OnStack
  <2> QED BY <1>2, <2>3, <2>9, <2>10, <2>11 DEF MetOnce
<1> QED BY <1>1, <1>6, <1>7, <1>8, <1>9

(* So a turn keeps all of it.                                              *)
LEMMA VisitKeeps ==
  ASSUME NEW p, WellRead(p), NEW limit \in Nat, NEW w, w.stack # << >>, WalkInv(p, limit, w)
  PROVE  WalkInv(p, limit, Visit(p.nodes, limit, w))
<1> DEFINE v == Visit(p.nodes, limit, w)
<1>1. /\ w \in Walks(p) /\ PathIsOnStack(w) /\ ChildrenAreDue(p, w) /\ RootsAreDue(p, w)
      /\ LeftInOrder(p, w) /\ DepthsAreLevels(p, limit, w) /\ ForestsAreClean(p, limit, w)
  BY DEF WalkInv
<1>2. v \in Walks(p) BY <1>1, VisitSteps
<1>3. PathIsOnStack(v) BY <1>1, PathKept
<1>4. ChildrenAreDue(p, v) BY <1>1, ChildrenKept
<1>5. RootsAreDue(p, v) BY <1>1, RootsKept
<1>6. LeftInOrder(p, v) BY <1>1, OrderKept
<1>7. DepthsAreLevels(p, limit, v) BY <1>1, LevelsKept
<1>8. ForestsAreClean(p, limit, v)
  <2> SUFFICES ASSUME NEW level, ForestBy(p, limit, level) PROVE MetOnce(p, v, level)
    BY DEF ForestsAreClean
  <2>1. MetOnce(p, w, level) BY <1>1 DEF ForestsAreClean
  <2> QED BY <1>1, <2>1, MetKept
<1> QED BY <1>2, <1>3, <1>4, <1>5, <1>6, <1>7, <1>8 DEF WalkInv

(* Before the first root, and when another one is begun.                   *)
LEMMA NoWalkIs ==
  ASSUME NEW p, WellRead(p), NEW limit \in Nat
  PROVE  WalkInv(p, limit, NoWalk)
<1> DEFINE w == NoWalk
<1>1. /\ w.begun = 0 /\ w.stack = << >> /\ w.visiting = {} /\ w.visited = {}
      /\ ~ w.cycle /\ ~ w.tooDeep
  BY DEF NoWalk
<1>2. w \in Walks(p)
  <2>1. p.roots \in Seq(ToSet(p.roots)) BY DEF WellRead
  <2>2. Len(p.roots) \in Nat BY <2>1, LenProperties
  <2>3. << >> \in Seq(Entries(p)) BY EmptySeq
  <2> QED BY <2>2, <2>3 DEF NoWalk, Walks
<1>3. Len(w.stack) = 0 /\ 1 .. Len(w.stack) = {} /\ 1 .. w.begun = {} BY <1>1
<1> HIDE DEF w
<1>4. PathIsOnStack(w) BY <1>1, <1>3 DEF PathIsOnStack
<1>5. ChildrenAreDue(p, w) BY <1>1, <1>3 DEF ChildrenAreDue
<1>6. RootsAreDue(p, w) BY <1>3 DEF RootsAreDue
<1>7. LeftInOrder(p, w)
  <2>1. [x \in w.visited |-> 1] \in [w.visited -> 1 .. Cardinality(w.visited)] BY <1>1
  <2> QED BY <2>1, <1>1 DEF LeftInOrder
<1>8. DepthsAreLevels(p, limit, w)
  <2> DEFINE none == [x \in w.visited \cup w.visiting |-> 1]
  <2>1. none \in [w.visited \cup w.visiting -> 1 .. limit] BY <1>1
  <2>2. EnteredAt(p, limit, w, none) BY <2>1, <1>1, <1>3 DEF EnteredAt
  <2> QED BY <2>2 DEF DepthsAreLevels
<1>9. ForestsAreClean(p, limit, w)
  BY <1>1, <1>3 DEF ForestsAreClean, MetOnce, Clean, OnStack
<1> QED BY <1>2, <1>4, <1>5, <1>6, <1>7, <1>8, <1>9 DEF WalkInv, w

LEMMA RootKeeps ==
  ASSUME NEW p, WellRead(p), NEW limit \in Nat \ {0}, NEW w, WalkInv(p, limit, w),
         w.stack = << >>, w.begun < Len(p.roots), NEW v,
         v = [w EXCEPT !.begun = @ + 1,
                       !.stack = <<[id |-> p.roots[w.begun + 1], exiting |-> FALSE, depth |-> 1]>>]
  PROVE  WalkInv(p, limit, v)
<1> DEFINE r == p.roots[w.begun + 1]
           e == [id |-> r, exiting |-> FALSE, depth |-> 1]
<1>1. /\ w \in Walks(p) /\ PathIsOnStack(w) /\ ChildrenAreDue(p, w) /\ RootsAreDue(p, w)
      /\ LeftInOrder(p, w) /\ DepthsAreLevels(p, limit, w) /\ ForestsAreClean(p, limit, w)
  BY DEF WalkInv
<1>2. /\ Len(p.roots) \in Nat /\ DOMAIN p.roots = 1 .. Len(p.roots)
      /\ w.begun \in 0 .. Len(p.roots)
  <2>1. p.roots \in Seq(ToSet(p.roots)) BY DEF WellRead
  <2>2. w.begun \in 0 .. Len(p.roots) BY <1>1 DEF Walks
  <2> QED BY <2>1, <2>2, LenProperties
<1>3. w.begun + 1 \in 1 .. Len(p.roots) /\ r \in ToSet(p.roots) BY <1>2 DEF ToSet
<1>4. e \in Entries(p) /\ <<e>> \in Seq(Entries(p)) BY <1>3 DEF Entries, Mentioned
<1>5. /\ v \in Walks(p) /\ v.begun = w.begun + 1 /\ v.stack = <<e>>
      /\ v.visiting = w.visiting /\ v.visited = w.visited
      /\ v.cycle = w.cycle /\ v.tooDeep = w.tooDeep
  <2>1. v = [[w EXCEPT !.begun = w.begun + 1] EXCEPT !.stack = <<e>>] BY <1>1 DEF Walks
  <2>2. w.begun + 1 \in 0 .. Len(p.roots) BY <1>2
  <2> HIDE DEF e
  <2> QED BY <2>1, <2>2, <1>1, <1>4 DEF Walks
<1>6. Len(v.stack) = 1 /\ v.stack[1] = e /\ 1 .. Len(v.stack) = {1} BY <1>5
<1>7. e.id = r /\ ~ e.exiting /\ e.depth = 1 OBVIOUS
<1>8. Len(w.stack) = 0 /\ 1 .. Len(w.stack) = {} OBVIOUS
<1>9. Clean(v) <=> Clean(w) BY <1>5 DEF Clean
<1>10. 1 .. v.begun = 1 .. w.begun \cup {w.begun + 1} BY <1>2, <1>5
<1> HIDE DEF e, r
<1>11. PathIsOnStack(v) BY <1>1, <1>5, <1>6, <1>7, <1>8 DEF PathIsOnStack
<1>12. ChildrenAreDue(p, v) BY <1>1, <1>5, <1>6, <1>7, <1>9 DEF ChildrenAreDue
<1>13. RootsAreDue(p, v)
  <2>1. OnStack(v, r) BY <1>6, <1>7 DEF OnStack
  <2>2. \A x : ~ OnStack(w, x) BY <1>8 DEF OnStack
  <2> QED BY <1>1, <1>5, <1>9, <1>10, <2>1, <2>2 DEF RootsAreDue, r
<1>14. LeftInOrder(p, v) BY <1>1, <1>5, <1>9 DEF LeftInOrder
<1>15. DepthsAreLevels(p, limit, v)
  <2>1. PICK level : EnteredAt(p, limit, w, level) BY <1>1 DEF DepthsAreLevels
  <2>2. EnteredAt(p, limit, v, level) BY <1>3, <1>5, <1>6, <1>7, <2>1 DEF EnteredAt
  <2> QED BY <2>2 DEF DepthsAreLevels
<1>16. ForestsAreClean(p, limit, v)
  <2> SUFFICES ASSUME NEW level, ForestBy(p, limit, level) PROVE MetOnce(p, v, level)
    BY DEF ForestsAreClean
  <2>1. MetOnce(p, w, level) BY <1>1 DEF ForestsAreClean
  <2>2. r \in KnownIds(p.nodes) /\ level[r] = 1 /\ \A q \in KnownIds(p.nodes) : ~ IsChild(p.nodes, r, q)
    BY <1>3 DEF ForestBy
  <2>3. r \notin w.visited
    <3> SUFFICES ASSUME r \in w.visited PROVE FALSE OBVIOUS
    <3>1. \/ \E k \in 1 .. w.begun : p.roots[k] = r
          \/ \E q \in w.visited \cup w.visiting : IsChild(p.nodes, r, q)
      BY <2>1 DEF MetOnce
    <3>2. w.visited \cup w.visiting \subseteq KnownIds(p.nodes) BY <1>1 DEF Walks
    <3>3. \A k \in 1 .. w.begun : k \in DOMAIN p.roots /\ k # w.begun + 1 BY <1>2
    <3>4. \A k \in 1 .. w.begun : p.roots[k] # r BY <1>2, <1>3, <3>3 DEF ForestBy, IsInjective, r
    <3> QED BY <2>2, <3>1, <3>2, <3>4
  <2>4. \A x : x \in v.visited \/ OnStack(v, x) =>
          \/ \E k \in 1 .. v.begun : p.roots[k] = x
          \/ \E q \in v.visited \cup v.visiting : IsChild(p.nodes, x, q)
    <3> TAKE x
    <3> HAVE x \in v.visited \/ OnStack(v, x)
    <3>1. x \in w.visited \/ x = r BY <1>5, <1>6, <1>7 DEF OnStack
    <3>2. CASE x = r BY <1>10, <3>2 DEF r
    <3>3. CASE x \in w.visited BY <1>5, <1>10, <2>1, <3>3 DEF MetOnce
    <3> QED BY <3>1, <3>2, <3>3
  <2>5. Clean(v) BY <1>9, <2>1 DEF MetOnce
  <2> QED BY <1>5, <1>6, <1>7, <2>2, <2>3, <2>4, <2>5 DEF MetOnce
<1> QED BY <1>5, <1>11, <1>12, <1>13, <1>14, <1>15, <1>16 DEF WalkInv

(***************************************************************************)
(* The walk of every behaviour is one of these.                            *)
(***************************************************************************)
LEMMA EmptyIsRead == WellRead([nodes |-> << >>, roots |-> << >>])
<1>1. << >> \in Seq(ToSet(<< >>)) BY EmptySeq
<1> QED BY <1>1 DEF WellRead

LEMMA AppendToSet ==
  ASSUME NEW s, s \in Seq(ToSet(s)), NEW e
  PROVE  /\ Append(s, e) \in Seq(ToSet(Append(s, e))) /\ Len(Append(s, e)) = Len(s) + 1
         /\ \A i \in 1 .. Len(s) + 1 : Append(s, e)[i] = s[i] \/ Append(s, e)[i] = e
<1> DEFINE S == ToSet(s) \cup {e}
           a == Append(s, e)
<1>1. s \in Seq(S)
  <2>1. \A i \in 1 .. Len(s) : s[i] \in S BY LenProperties DEF ToSet
  <2>2. s = [i \in 1 .. Len(s) |-> s[i]] /\ Len(s) \in Nat BY LenProperties
  <2> HIDE DEF S
  <2>3. [i \in 1 .. Len(s) |-> s[i]] \in Seq(S) BY <2>1, <2>2, IsASeq
  <2> QED BY <2>2, <2>3
<1>2. /\ Len(s) \in Nat /\ a \in Seq(S) /\ Len(a) = Len(s) + 1
      /\ (\A i \in 1 .. Len(s) : a[i] = s[i]) /\ a[Len(s) + 1] = e
  BY <1>1, AppendProperties, LenProperties
<1>3. a \in Seq(ToSet(a))
  <2>1. Len(a) \in Nat /\ DOMAIN a = 1 .. Len(a) /\ a = [i \in 1 .. Len(a) |-> a[i]] BY <1>2, LenProperties
  <2>2. \A i \in 1 .. Len(a) : a[i] \in ToSet(a) BY <2>1 DEF ToSet
  <2> HIDE DEF a
  <2>3. [i \in 1 .. Len(a) |-> a[i]] \in Seq(ToSet(a)) BY <2>1, <2>2, IsASeq
  <2> QED BY <2>1, <2>3
<1>4. \A i \in 1 .. Len(s) + 1 : i \in 1 .. Len(s) \/ i = Len(s) + 1 BY <1>2
<1> QED BY <1>2, <1>3, <1>4

LEMMA NodeIsRead ==
  ASSUME WellRead(program), NEW node, WellFormed(node)
  PROVE  WellRead([program EXCEPT !.nodes = Append(@, node)])
<1> DEFINE a == Append(program.nodes, node)
           q == [program EXCEPT !.nodes = a]
<1>1. /\ a \in Seq(ToSet(a)) /\ Len(a) = Len(program.nodes) + 1
      /\ \A i \in 1 .. Len(program.nodes) + 1 : a[i] = program.nodes[i] \/ a[i] = node
  BY AppendToSet DEF WellRead
<1>2. Len(program.nodes) \in Nat BY LenProperties DEF WellRead
<1>3. a[Len(program.nodes) + 1] = node /\ \A i \in 1 .. Len(program.nodes) : a[i] = program.nodes[i]
  BY AppendProperties DEF WellRead
<1>4. \A i \in 1 .. Len(a) : WellFormed(a[i])
  <2> TAKE i \in 1 .. Len(a)
  <2>1. i \in 1 .. Len(program.nodes) \/ i = Len(program.nodes) + 1 BY <1>1, <1>2
  <2> QED BY <1>3, <2>1 DEF WellRead
<1>5. q \in [nodes : Seq(ToSet(a)), roots : Seq(ToSet(program.roots))] /\ q.nodes = a /\ q.roots = program.roots
  BY <1>1 DEF WellRead
<1> HIDE DEF a, q
<1>6. WellRead(q) BY <1>4, <1>5 DEF WellRead
<1> QED BY <1>6 DEF q, a

LEMMA RootsAreRead ==
  ASSUME WellRead(program), NEW roots, roots \in Seq(ToSet(roots))
  PROVE  WellRead([program EXCEPT !.roots = roots])
<1>1. [program EXCEPT !.roots = roots] \in [nodes : Seq(ToSet(program.nodes)), roots : Seq(ToSet(roots))]
  BY DEF WellRead
<1> QED BY <1>1 DEF WellRead

LEMMA TreeInit == ProgramInit => TreeInv
BY EmptyIsRead DEF ProgramInit, TreeInv, NoWalk

LEMMA TreeStep == TreeInv /\ [ProgramNext]_programVars => TreeInv'
<1> SUFFICES ASSUME TreeInv, [ProgramNext]_programVars PROVE TreeInv' OBVIOUS
<1>1. /\ WellRead(program) /\ (program.roots = << >> => walk = NoWalk)
      /\ draft = "none" => program = [nodes |-> << >>, roots |-> << >>]
      /\ draft # "none" => draft \in DOMAIN Drafts /\ WalkInv(program, Drafts[draft].depth, walk)
  BY DEF TreeInv
<1>2. \A d \in DOMAIN Drafts : d # "none" /\ Drafts[d].depth \in Nat \ {0}
  BY DraftsAssumption
<1>3. draft = "none" => walk = NoWalk BY <1>1
<1>4. NoWalk.stack = << >> /\ NoWalk.begun = 0 BY DEF NoWalk
<1>5. CASE StartDraft
  <2>1. draft = "none" /\ draft' \in DOMAIN Drafts /\ program' = program /\ walk' = walk BY <1>5 DEF StartDraft
  <2>2. WalkInv(program, Drafts[draft'].depth, NoWalk) BY <1>1, <1>2, <2>1, NoWalkIs
  <2> QED BY <1>1, <1>2, <1>3, <2>1, <2>2 DEF TreeInv
<1>6. CASE ReadNode
  <2>1. draft # "none" /\ program.roots = << >> /\ draft' = draft /\ walk' = walk BY <1>6 DEF ReadNode
  <2>2. PICK node \in Drafts[draft].nodes[Len(program.nodes) + 1] :
          program' = [program EXCEPT !.nodes = Append(@, node)]
    BY <1>6 DEF ReadNode
  <2>3. WellFormed(node)
    <3>1. Len(program.nodes) \in Nat BY <1>1, LenProperties DEF WellRead
    <3>2. Len(program.nodes) < Len(Drafts[draft].nodes) BY <1>6 DEF ReadNode
    <3>3. Len(program.nodes) + 1 \in 1 .. Len(Drafts[draft].nodes)
      <4>1. Drafts[draft].nodes \in Seq(ToSet(Drafts[draft].nodes)) BY <1>1, <2>1, DraftsAssumption
      <4>2. Len(Drafts[draft].nodes) \in Nat BY <4>1, LenProperties
      <4> QED BY <3>1, <3>2, <4>2
    <3> QED BY <1>1, <2>1, <3>3, DraftsAssumption
  <2>4. WellRead(program') BY <1>1, <2>2, <2>3, NodeIsRead
  <2>5. program'.roots = program.roots BY <1>1, <2>2 DEF WellRead
  <2>6. WalkInv(program', Drafts[draft].depth, NoWalk) BY <1>1, <1>2, <2>1, <2>4, NoWalkIs
  <2> QED BY <1>1, <2>1, <2>4, <2>5, <2>6 DEF TreeInv
<1>7. CASE ReadRoots
  <2>1. draft # "none" /\ program.roots = << >> /\ draft' = draft /\ walk' = walk BY <1>7 DEF ReadRoots
  <2>2. PICK roots \in Drafts[draft].roots : program' = [program EXCEPT !.roots = roots]
    BY <1>7 DEF ReadRoots
  <2>3. roots \in Seq(ToSet(roots)) BY <1>1, <2>1, DraftsAssumption
  <2>4. WellRead(program') BY <1>1, <2>2, <2>3, RootsAreRead
  <2>5. WalkInv(program', Drafts[draft].depth, NoWalk) BY <1>1, <1>2, <2>1, <2>4, NoWalkIs
  <2> QED BY <1>1, <2>1, <2>4, <2>5 DEF TreeInv
<1>8. CASE BeginRoot
  <2>1. /\ draft' = draft /\ program' = program
        /\ walk.stack = << >> /\ walk.begun < Len(program.roots)
        /\ walk' = [walk EXCEPT !.begun = @ + 1,
                                !.stack = <<[id |-> program.roots[walk.begun + 1],
                                             exiting |-> FALSE, depth |-> 1]>>]
    BY <1>8 DEF BeginRoot
  <2>2. program.roots # << >>
    <3> SUFFICES ASSUME program.roots = << >> PROVE FALSE OBVIOUS
    <3>1. walk.begun = 0 /\ Len(program.roots) = 0 BY <1>1, <1>4
    <3> QED BY <2>1, <3>1
  <2>3. draft # "none" BY <1>1, <2>2
  <2>4. WalkInv(program, Drafts[draft].depth, walk') BY <1>1, <1>2, <2>1, <2>3, RootKeeps
  <2> QED BY <1>1, <2>1, <2>2, <2>3, <2>4 DEF TreeInv
<1>9. CASE TakeTop
  <2>1. /\ draft' = draft /\ program' = program /\ walk.stack # << >>
        /\ walk' = Visit(program.nodes, Drafts[draft].depth, walk)
    BY <1>9 DEF TakeTop
  <2>2. program.roots # << >> /\ draft # "none" BY <1>1, <1>3, <1>4, <2>1
  <2>3. WalkInv(program, Drafts[draft].depth, walk') BY <1>1, <1>2, <2>1, <2>2, VisitKeeps
  <2> QED BY <1>1, <2>1, <2>2, <2>3 DEF TreeInv
<1>10. CASE UNCHANGED programVars BY <1>1, <1>10 DEF TreeInv, programVars
<1> QED BY <1>5, <1>6, <1>7, <1>8, <1>9, <1>10 DEF ProgramNext

(* The walk is typed, and says of the nodes met so far whether they are a  *)
(* forest, how deep and in which order they lie, for every program.        *)
THEOREM TreeInductive == ProgramSpec => []TreeInv
BY TreeInit, TreeStep, PTL DEF ProgramSpec

(***************************************************************************)
(* What the errors mean.                                                   *)
(***************************************************************************)
FaultsTell(p, w, f) ==
  LET K == KnownIds(p.nodes)
  IN  /\ f.duplicate_id <=> Cardinality(K) # Len(p.nodes)
      /\ f.leaf_has_children <=> \E id \in K \ Groups(p.nodes) : ChildrenOf(p.nodes, id) # << >>
      /\ f.empty_group <=> \E id \in Groups(p.nodes) : ChildrenOf(p.nodes, id) = << >>
      /\ f.invalid_difference <=> \E id \in K : /\ NodeOf(p.nodes, id).op = "difference"
                                                /\ Len(ChildrenOf(p.nodes, id)) < 2
      /\ f.missing_reference <=> \/ \E id \in K : ~ (ToSet(ChildrenOf(p.nodes, id)) \subseteq K)
                                 \/ ~ (ToSet(p.roots) \subseteq K)
      /\ f.multiple_parents <=> \E id \in K : Cardinality(Places(p.nodes, id)) > 1
      /\ f.root_has_parent <=> \E id \in ToSet(p.roots) \cap K : Places(p.nodes, id) # {}
      /\ f.duplicate_root <=> Cardinality(ToSet(p.roots)) # Len(p.roots)
      /\ f.missing_root <=> p.roots = << >>
      /\ f.cycle <=> w.cycle
      /\ f.hierarchy_too_deep <=> w.tooDeep
      /\ f.unreachable_node <=> K # w.visited
      /\ DOMAIN f = {"duplicate_id", "leaf_has_children", "empty_group", "invalid_difference",
                     "missing_reference", "multiple_parents", "root_has_parent", "duplicate_root",
                     "missing_root", "cycle", "hierarchy_too_deep", "unreachable_node"}

LEMMA FaultsAre ==
  ASSUME NEW p, NEW w, w.cycle \in BOOLEAN, w.tooDeep \in BOOLEAN
  PROVE  FaultsTell(p, w, Faults(p, w))
BY DEF Faults, FaultsTell

LEMMA NoFaults ==
  ASSUME NEW p, NEW w, NEW f, f = Faults(p, w), NEW K, K = KnownIds(p.nodes),
         w.cycle \in BOOLEAN, w.tooDeep \in BOOLEAN
  PROVE  (\A code \in DOMAIN f : ~ f[code]) <=>
           /\ ~ f.duplicate_id /\ ~ f.leaf_has_children /\ ~ f.empty_group /\ ~ f.invalid_difference
           /\ ~ f.missing_reference /\ ~ f.multiple_parents /\ ~ f.root_has_parent
           /\ ~ f.duplicate_root /\ ~ f.missing_root /\ ~ f.cycle /\ ~ f.hierarchy_too_deep
           /\ ~ f.unreachable_node
<1>1. DOMAIN f = {"duplicate_id", "leaf_has_children", "empty_group", "invalid_difference",
                  "missing_reference", "multiple_parents", "root_has_parent", "duplicate_root",
                  "missing_root", "cycle", "hierarchy_too_deep", "unreachable_node"}
  BY FaultsAre DEF FaultsTell
<1> QED BY <1>1

LEMMA PlacesFinite ==
  ASSUME NEW nodes, nodes \in Seq(ToSet(nodes)),
         \A i \in 1 .. Len(nodes) : WellFormed(nodes[i]), NEW id
  PROVE  IsFiniteSet(Places(nodes, id)) /\ Cardinality(Places(nodes, id)) \in Nat
<1> DEFINE K == KnownIds(nodes)
           At(q) == {k \in DOMAIN ChildrenOf(nodes, q) : ChildrenOf(nodes, q)[k] = id}
           Of(q) == {<<q, i>> : i \in At(q)}
           F == [q \in K |-> Of(q)]
           Parts == {Of(q) : q \in K}
<1>1. IsFiniteSet(K) BY KnownFinite
<1>2. ASSUME NEW q \in K PROVE IsFiniteSet(Of(q))
  <2>1. DOMAIN ChildrenOf(nodes, q) = 1 .. Len(ChildrenOf(nodes, q)) /\ Len(ChildrenOf(nodes, q)) \in Nat
    BY NodeIs
  <2>2. IsFiniteSet(1 .. Len(ChildrenOf(nodes, q))) BY <2>1, FS_Interval
  <2>3. At(q) \in SUBSET (1 .. Len(ChildrenOf(nodes, q))) BY <2>1
  <2> HIDE DEF At
  <2>4. IsFiniteSet(At(q)) BY <2>2, <2>3, FS_Subset
  <2> DEFINE g == [i \in At(q) |-> <<q, i>>]
  <2>5. g \in Surjection(At(q), Of(q)) BY DEF Surjection
  <2> HIDE DEF g, Of
  <2> QED BY <2>4, <2>5, FS_Surjection
<1> HIDE DEF Of
<1>3. F \in Surjection(K, Parts) BY DEF Surjection
<1> HIDE DEF F, K
<1>4. IsFiniteSet(Parts) BY <1>1, <1>3, FS_Surjection
<1>5. \A T \in Parts : IsFiniteSet(T) BY <1>2
<1> HIDE DEF Parts
<1>6. IsFiniteSet(UNION Parts) BY <1>4, <1>5, FS_UNION
<1>7. Places(nodes, id) = UNION Parts BY DEF Places, Parts, Of, K
<1> QED BY <1>6, <1>7, FS_CardinalityType

(* A place is a parent and an index; there is at most one, or several.     *)
LEMMA PlacesAre ==
  ASSUME NEW nodes, nodes \in Seq(ToSet(nodes)),
         \A i \in 1 .. Len(nodes) : WellFormed(nodes[i]), NEW id
  PROVE  /\ \A q, i : <<q, i>> \in Places(nodes, id)
              <=> /\ q \in KnownIds(nodes) /\ i \in 1 .. Len(ChildrenOf(nodes, q))
                  /\ ChildrenOf(nodes, q)[i] = id
         /\ Places(nodes, id) # {} <=> \E q \in KnownIds(nodes) : IsChild(nodes, id, q)
         /\ Cardinality(Places(nodes, id)) > 1 <=>
              \E q, r \in KnownIds(nodes) : \E i \in 1 .. Len(ChildrenOf(nodes, q)),
                                               j \in 1 .. Len(ChildrenOf(nodes, r)) :
                /\ ChildrenOf(nodes, q)[i] = id /\ ChildrenOf(nodes, r)[j] = id
                /\ q # r \/ i # j
<1> DEFINE P == Places(nodes, id)
           K == KnownIds(nodes)
           ch(q) == ChildrenOf(nodes, q)
<1>1. \A q \in K : DOMAIN ch(q) = 1 .. Len(ch(q)) BY NodeIs
<1>2. \A x : x \in P <=> \E q \in K : \E i \in 1 .. Len(ch(q)) : ch(q)[i] = id /\ x = <<q, i>>
  <2> HIDE DEF K
  <2> QED BY <1>1 DEF Places, K
<1>3. IsFiniteSet(P) /\ Cardinality(P) \in Nat BY PlacesFinite
<1> HIDE DEF P, K, ch
<1>4. \A q, i : <<q, i>> \in P <=> q \in K /\ i \in 1 .. Len(ch(q)) /\ ch(q)[i] = id BY <1>2
<1>5. P # {} <=> \E q \in K : \E i \in 1 .. Len(ch(q)) : ch(q)[i] = id BY <1>2
<1>6. Cardinality(P) > 1 <=> \E x, y \in P : x # y
  <2>1. ASSUME NEW x \in P, NEW y \in P, x # y PROVE Cardinality(P) > 1
    <3>1. {x} \in SUBSET P /\ {x} # P BY <2>1
    <3>2. IsFiniteSet({x}) /\ Cardinality({x}) = 1 BY FS_Singleton
    <3>3. Cardinality({x}) <= Cardinality(P) /\ Cardinality(P) # Cardinality({x})
      BY <1>3, <3>1, FS_Subset
    <3> QED BY <1>3, <3>2, <3>3
  <2>2. ASSUME \A x, y \in P : x = y PROVE ~ (Cardinality(P) > 1)
    <3>1. CASE P = {} BY <3>1, FS_EmptySet
    <3>2. CASE P # {}
      <4>1. PICK x \in P : TRUE BY <3>2
      <4>2. P = {x} BY <2>2, <4>1
      <4>3. Cardinality({x}) = 1 BY FS_Singleton
      <4> QED BY <4>2, <4>3
    <3> QED BY <3>1, <3>2
  <2> QED BY <2>1, <2>2
<1>7. (\E x, y \in P : x # y) <=>
        \E q, r \in K : \E i \in 1 .. Len(ch(q)), j \in 1 .. Len(ch(r)) :
          ch(q)[i] = id /\ ch(r)[j] = id /\ (q # r \/ i # j)
  <2>1. \A q, r, i, j : <<q, i>> # <<r, j>> <=> (q # r \/ i # j) OBVIOUS
  <2>2. ASSUME NEW x \in P, NEW y \in P, x # y
        PROVE  \E q, r \in K : \E i \in 1 .. Len(ch(q)), j \in 1 .. Len(ch(r)) :
                 ch(q)[i] = id /\ ch(r)[j] = id /\ (q # r \/ i # j)
    <3>1. PICK q \in K : \E i \in 1 .. Len(ch(q)) : ch(q)[i] = id /\ x = <<q, i>> BY <1>2
    <3>2. PICK i \in 1 .. Len(ch(q)) : ch(q)[i] = id /\ x = <<q, i>> BY <3>1
    <3>3. PICK r \in K : \E j \in 1 .. Len(ch(r)) : ch(r)[j] = id /\ y = <<r, j>> BY <1>2
    <3>4. PICK j \in 1 .. Len(ch(r)) : ch(r)[j] = id /\ y = <<r, j>> BY <3>3
    <3> QED BY <2>2, <3>2, <3>4
  <2>3. ASSUME NEW q \in K, NEW r \in K, NEW i \in 1 .. Len(ch(q)), NEW j \in 1 .. Len(ch(r)),
               ch(q)[i] = id, ch(r)[j] = id, q # r \/ i # j
        PROVE  \E x, y \in P : x # y
    <3>1. <<q, i>> \in P /\ <<r, j>> \in P BY <1>4, <2>3
    <3>2. <<q, i>> # <<r, j>> BY <2>3
    <3> QED BY <3>1, <3>2
  <2> QED BY <2>2, <2>3
<1> QED BY <1>4, <1>5, <1>6, <1>7, Zenon DEF P, K, ch, IsChild

LEMMA SequenceSize ==
  ASSUME NEW s, s \in Seq(ToSet(s))
  PROVE  Cardinality(ToSet(s)) = Len(s) <=> IsInjective(s)
<1>1. DOMAIN s = 1 .. Len(s) /\ Len(s) \in Nat BY LenProperties
<1> DEFINE D == 1 .. Len(s)
           T == ToSet(s)
<1>2. IsFiniteSet(D) /\ Cardinality(D) = Len(s) BY <1>1, FS_Interval
<1>3. s = [i \in D |-> s[i]] /\ s \in [D -> T] BY <1>1, LenProperties DEF ToSet
<1>4. \A x \in T : \E i \in D : s[i] = x BY <1>1 DEF ToSet
<1>5. s \in Surjection(D, T) BY <1>3, <1>4 DEF Surjection
<1>6. s \in Injection(D, T) <=> IsInjective(s) BY <1>3 DEF Injection
<1> HIDE DEF D, T
<1>7. Cardinality(T) = Cardinality(D) <=> s \in Injection(D, T) BY <1>2, <1>5, FS_Surjection
<1> QED BY <1>2, <1>6, <1>7 DEF T

(***************************************************************************)
(* The walk accepts the forests, and recursion below it ends.              *)
(***************************************************************************)
Ended(p, limit, w) ==
  /\ WellRead(p) /\ WalkInv(p, limit, w)
  /\ w.stack = << >> /\ w.begun = Len(p.roots)

LEMMA EndedWalk ==
  ASSUME NEW p, NEW limit \in Nat \ {0}, NEW w, Ended(p, limit, w)
  PROVE  /\ w.visiting = {} /\ w.visited \in SUBSET KnownIds(p.nodes)
         /\ w.cycle \in BOOLEAN /\ w.tooDeep \in BOOLEAN
         /\ p.nodes \in Seq(ToSet(p.nodes)) /\ p.roots \in Seq(ToSet(p.roots))
         /\ \A i \in 1 .. Len(p.nodes) : WellFormed(p.nodes[i])
         /\ IsFiniteSet(KnownIds(p.nodes)) /\ Cardinality(KnownIds(p.nodes)) \in Nat
<1>1. w \in Walks(p) /\ PathIsOnStack(w) BY DEF Ended, WalkInv
<1>2. 1 .. Len(w.stack) = {} BY DEF Ended
<1>3. w.visiting = {} BY <1>1, <1>2 DEF PathIsOnStack
<1>4. p.nodes \in Seq(ToSet(p.nodes)) BY DEF Ended, WellRead
<1>5. IsFiniteSet(KnownIds(p.nodes)) /\ Cardinality(KnownIds(p.nodes)) \in Nat BY <1>4, KnownFinite
<1> QED BY <1>1, <1>3, <1>5 DEF Walks, Ended, WellRead

(* What the counts of places and references tell of parents.               *)
LEMMA OneParent ==
  ASSUME NEW p, NEW limit \in Nat \ {0}, NEW w, Ended(p, limit, w),
         NEW f, f = Faults(p, w), ~ f.multiple_parents, ~ f.missing_reference
  PROVE  /\ \A q, r, c \in KnownIds(p.nodes) : IsChild(p.nodes, c, q) /\ IsChild(p.nodes, c, r) => q = r
         /\ \A q \in KnownIds(p.nodes) : /\ IsInjective(ChildrenOf(p.nodes, q))
                                         /\ ToSet(ChildrenOf(p.nodes, q)) \subseteq KnownIds(p.nodes)
         /\ \A q \in KnownIds(p.nodes) : \A c : IsChild(p.nodes, c, q) <=> c \in ToSet(ChildrenOf(p.nodes, q))
         /\ ToSet(p.roots) \subseteq KnownIds(p.nodes)
<1> DEFINE K == KnownIds(p.nodes)
           ch(q) == ChildrenOf(p.nodes, q)
<1>1. /\ p.nodes \in Seq(ToSet(p.nodes)) /\ \A i \in 1 .. Len(p.nodes) : WellFormed(p.nodes[i])
      /\ w.cycle \in BOOLEAN /\ w.tooDeep \in BOOLEAN
  BY EndedWalk
<1>0. FaultsTell(p, w, f) BY <1>1, FaultsAre
<1>2. \A id \in K : ~ (Cardinality(Places(p.nodes, id)) > 1) BY <1>0 DEF FaultsTell
<1>3. (\A q \in K : ToSet(ch(q)) \subseteq K) /\ ToSet(p.roots) \subseteq K BY <1>0 DEF FaultsTell
<1>4. \A q \in K : DOMAIN ch(q) = 1 .. Len(ch(q)) /\ ch(q) \in Seq(ToSet(ch(q))) BY <1>1, NodeIs
<1>5. \A id \in K : \A q, r \in K : \A i \in 1 .. Len(ch(q)), j \in 1 .. Len(ch(r)) :
        ch(q)[i] = id /\ ch(r)[j] = id => q = r /\ i = j
  BY <1>1, <1>2, PlacesAre
<1> HIDE DEF K
<1>6. \A q, r, c \in K : IsChild(p.nodes, c, q) /\ IsChild(p.nodes, c, r) => q = r
  BY <1>5 DEF IsChild
<1>7. ASSUME NEW q \in K PROVE IsInjective(ch(q))
  <2> SUFFICES ASSUME NEW i \in DOMAIN ch(q), NEW j \in DOMAIN ch(q), ch(q)[i] = ch(q)[j] PROVE i = j
    BY DEF IsInjective
  <2>1. ch(q)[i] \in K BY <1>3 DEF ToSet
  <2>2. i \in 1 .. Len(ch(q)) /\ j \in 1 .. Len(ch(q)) BY <1>4
  <2> HIDE DEF ch
  <2> QED BY <1>5, <2>1, <2>2
<1>8. \A q \in K : \A c : IsChild(p.nodes, c, q) <=> c \in ToSet(ch(q)) BY <1>4 DEF IsChild, ToSet
<1> QED BY <1>3, <1>6, <1>7, <1>8 DEF K

(* Levels that the depths of the walk are, once there is nothing to report *)
(* of parents and all nodes were visited.                                  *)
LEMMA DepthIsLevel ==
  ASSUME NEW p, NEW limit \in Nat \ {0}, NEW w, Ended(p, limit, w),
         NEW f, f = Faults(p, w), ~ f.multiple_parents, ~ f.missing_reference,
         ~ f.root_has_parent, ~ f.unreachable_node
  PROVE  \E level \in [KnownIds(p.nodes) -> 1 .. limit] :
           \A c \in KnownIds(p.nodes) :
             /\ c \in ToSet(p.roots) =>
                  level[c] = 1 /\ \A q \in KnownIds(p.nodes) : ~ IsChild(p.nodes, c, q)
             /\ c \notin ToSet(p.roots) =>
                  \E q \in KnownIds(p.nodes) :
                    /\ IsChild(p.nodes, c, q) /\ level[c] = level[q] + 1
                    /\ \A r \in KnownIds(p.nodes) : IsChild(p.nodes, c, r) => r = q
<1> DEFINE K == KnownIds(p.nodes)
<1>1. /\ w.visiting = {} /\ w.cycle \in BOOLEAN /\ w.tooDeep \in BOOLEAN
      /\ p.nodes \in Seq(ToSet(p.nodes)) /\ \A i \in 1 .. Len(p.nodes) : WellFormed(p.nodes[i])
  BY EndedWalk
<1>0. FaultsTell(p, w, f) BY <1>1, FaultsAre
<1>2. K = w.visited BY <1>0 DEF FaultsTell
<1>3. PICK level : EnteredAt(p, limit, w, level) BY DEF Ended, WalkInv, DepthsAreLevels
<1>4. w.visited \cup w.visiting = K BY <1>1, <1>2
<1>5. /\ level \in [K -> 1 .. limit]
      /\ \A c \in K : \/ c \in ToSet(p.roots) /\ level[c] = 1
                      \/ \E q \in K : IsChild(p.nodes, c, q) /\ level[c] = level[q] + 1
  BY <1>3, <1>4 DEF EnteredAt
<1>6. \A c \in ToSet(p.roots) \cap K : Places(p.nodes, c) = {} BY <1>0 DEF FaultsTell
<1>7. \A c \in ToSet(p.roots) \cap K, q \in K : ~ IsChild(p.nodes, c, q) BY <1>1, <1>6, PlacesAre
<1>8. \A q, r, c \in K : IsChild(p.nodes, c, q) /\ IsChild(p.nodes, c, r) => q = r BY OneParent
<1> HIDE DEF K
<1>9. \A c \in K :
        /\ c \in ToSet(p.roots) => level[c] = 1 /\ \A q \in K : ~ IsChild(p.nodes, c, q)
        /\ c \notin ToSet(p.roots) =>
             \E q \in K : /\ IsChild(p.nodes, c, q) /\ level[c] = level[q] + 1
                          /\ \A r \in K : IsChild(p.nodes, c, r) => r = q
  BY <1>5, <1>7, <1>8
<1> QED BY <1>5, <1>9 DEF K

LEMMA OpsAre ==
  ASSUME NEW nodes, nodes \in Seq(ToSet(nodes)),
         \A i \in 1 .. Len(nodes) : WellFormed(nodes[i]), NEW id \in KnownIds(nodes)
  PROVE  /\ NodeOf(nodes, id).op \in Ops
         /\ id \in Groups(nodes) <=> NodeOf(nodes, id).op # "leaf"
         /\ NodeOf(nodes, id).children = ChildrenOf(nodes, id)
BY NodeIs DEF WellFormed, Groups, ChildrenOf

LEMMA AcceptedIsForest ==
  ASSUME NEW p, NEW limit \in Nat \ {0}, NEW w, Ended(p, limit, w),
         NEW f, f = Faults(p, w), \A code \in DOMAIN f : ~ f[code]
  PROVE  IsForest(p, limit)
<1> DEFINE K == KnownIds(p.nodes)
<1>1. /\ w.cycle \in BOOLEAN /\ w.tooDeep \in BOOLEAN
      /\ p.nodes \in Seq(ToSet(p.nodes)) /\ p.roots \in Seq(ToSet(p.roots))
      /\ \A i \in 1 .. Len(p.nodes) : WellFormed(p.nodes[i])
  BY EndedWalk
<1>2. /\ ~ f.duplicate_id /\ ~ f.leaf_has_children /\ ~ f.empty_group /\ ~ f.invalid_difference
      /\ ~ f.missing_reference /\ ~ f.multiple_parents /\ ~ f.root_has_parent
      /\ ~ f.duplicate_root /\ ~ f.missing_root /\ ~ f.unreachable_node
  BY <1>1, NoFaults
<1>0. FaultsTell(p, w, f) BY <1>1, FaultsAre
<1>3. p.roots # << >> /\ IsInjective(p.roots)
  <2>1. p.roots # << >> /\ Cardinality(ToSet(p.roots)) = Len(p.roots) BY <1>0, <1>2 DEF FaultsTell
  <2> QED BY <1>1, <2>1, SequenceSize
<1>4. IsInjective([i \in DOMAIN p.nodes |-> p.nodes[i].id])
  <2>1. Cardinality(K) = Len(p.nodes) BY <1>0, <1>2 DEF FaultsTell
  <2> QED BY <1>1, <2>1, KnownFinite
<1>5. /\ \A q \in K : /\ IsInjective(ChildrenOf(p.nodes, q))
                      /\ ToSet(ChildrenOf(p.nodes, q)) \subseteq K
      /\ ToSet(p.roots) \subseteq K
  BY <1>2, OneParent
<1>6. PICK level \in [K -> 1 .. limit] :
        \A c \in K :
          /\ c \in ToSet(p.roots) => level[c] = 1 /\ \A q \in K : ~ IsChild(p.nodes, c, q)
          /\ c \notin ToSet(p.roots) =>
               \E q \in K : /\ IsChild(p.nodes, c, q) /\ level[c] = level[q] + 1
                            /\ \A r \in K : IsChild(p.nodes, c, r) => r = q
  BY <1>2, DepthIsLevel
<1>7. \A c : Contains(p.roots, c) <=> c \in ToSet(p.roots)
  <2>1. DOMAIN p.roots = 1 .. Len(p.roots) BY <1>1, LenProperties
  <2> QED BY <2>1 DEF Contains, ToSet
<1>8. \A q, c : Contains(ChildrenOf(p.nodes, q), c) <=> IsChild(p.nodes, c, q) BY DEF Contains, IsChild
<1> DEFINE above(id) == {q \in K : Contains(ChildrenOf(p.nodes, q), id)}
<1>9. ASSUME NEW id \in K
      PROVE  IF Contains(p.roots, id) THEN level[id] = 1 /\ above(id) = {}
             ELSE \E q \in K : above(id) = {q} /\ level[id] = level[q] + 1
  <2>1. CASE id \in ToSet(p.roots) BY <1>6, <1>7, <1>8, <2>1
  <2>2. CASE id \notin ToSet(p.roots)
    <3>1. PICK q \in K : /\ IsChild(p.nodes, id, q) /\ level[id] = level[q] + 1
                         /\ \A r \in K : IsChild(p.nodes, id, r) => r = q
      BY <1>6, <2>2
    <3>2. above(id) = {q} BY <1>8, <3>1
    <3> QED BY <1>7, <2>2, <3>1, <3>2
  <2> QED BY <2>1, <2>2
<1>10. ASSUME NEW id \in K
       PROVE  LET node == NodeOf(p.nodes, id)
              IN  /\ IsInjective(node.children) /\ ToSet(node.children) \subseteq K
                  /\ node.op = "leaf" <=> node.children = << >>
                  /\ node.op = "difference" => Len(node.children) >= 2
  <2>1. /\ NodeOf(p.nodes, id).op \in Ops
        /\ id \in Groups(p.nodes) <=> NodeOf(p.nodes, id).op # "leaf"
        /\ NodeOf(p.nodes, id).children = ChildrenOf(p.nodes, id)
    BY <1>1, OpsAre
  <2>2. Len(ChildrenOf(p.nodes, id)) \in Nat BY <1>1, NodeIs
  <2>3. /\ \A q \in K \ Groups(p.nodes) : ChildrenOf(p.nodes, q) = << >>
        /\ \A q \in Groups(p.nodes) : ChildrenOf(p.nodes, q) # << >>
    BY <1>0, <1>2 DEF FaultsTell
  <2>4. NodeOf(p.nodes, id).op = "difference" => ~ (Len(ChildrenOf(p.nodes, id)) < 2)
    BY <1>0, <1>2 DEF FaultsTell
  <2> QED BY <1>5, <2>1, <2>2, <2>3, <2>4
<1> QED BY <1>3, <1>4, <1>5, <1>6, <1>9, <1>10 DEF IsForest

LEMMA ForestHasLevels ==
  ASSUME NEW p, WellRead(p), NEW limit \in Nat \ {0}, IsForest(p, limit)
  PROVE  \E level : ForestBy(p, limit, level)
<1> DEFINE K == KnownIds(p.nodes)
           above(id) == {q \in K : Contains(ChildrenOf(p.nodes, q), id)}
<1>1. PICK level \in [K -> 1 .. limit] : \A id \in K :
        IF Contains(p.roots, id) THEN level[id] = 1 /\ above(id) = {}
        ELSE \E q \in K : above(id) = {q} /\ level[id] = level[q] + 1
  BY DEF IsForest
<1>2. /\ IsInjective(p.roots) /\ ToSet(p.roots) \subseteq K
      /\ \A id \in K : LET node == NodeOf(p.nodes, id)
                       IN  IsInjective(node.children) /\ ToSet(node.children) \subseteq K
  BY DEF IsForest
<1>3. \A c : Contains(p.roots, c) <=> c \in ToSet(p.roots)
  <2>1. p.roots \in Seq(ToSet(p.roots)) BY DEF WellRead
  <2>2. DOMAIN p.roots = 1 .. Len(p.roots) BY <2>1, LenProperties
  <2> QED BY <2>2 DEF Contains, ToSet
<1>4. \A q, c : q \in above(c) <=> q \in K /\ IsChild(p.nodes, c, q) BY DEF Contains, IsChild
<1> HIDE DEF above, K
<1>5. \A r \in ToSet(p.roots) : level[r] = 1 /\ \A q \in K : ~ IsChild(p.nodes, r, q)
  BY <1>1, <1>2, <1>3, <1>4
<1>6. ASSUME NEW q \in K, NEW x \in K, NEW c \in K, IsChild(p.nodes, c, q)
      PROVE  level[c] = level[q] + 1 /\ (IsChild(p.nodes, c, x) => x = q)
  <2>1. ~ Contains(p.roots, c) BY <1>3, <1>5, <1>6
  <2>2. PICK r \in K : above(c) = {r} /\ level[c] = level[r] + 1 BY <1>1, <2>1
  <2>3. q = r BY <1>4, <1>6, <2>2
  <2> QED BY <1>4, <2>2, <2>3
<1>7. \A c \in K \ ToSet(p.roots) : \E q \in K : IsChild(p.nodes, c, q)
  <2> TAKE c \in K \ ToSet(p.roots)
  <2>1. PICK r \in K : above(c) = {r} BY <1>1, <1>3
  <2> QED BY <1>4, <2>1
<1>8. \A q \in K : IsInjective(ChildrenOf(p.nodes, q)) /\ ToSet(ChildrenOf(p.nodes, q)) \subseteq K
  BY <1>2 DEF ChildrenOf
<1>9. ForestBy(p, limit, level) BY <1>1, <1>2, <1>5, <1>6, <1>7, <1>8 DEF ForestBy, K
<1> QED BY <1>9

(* All nodes of a forest were visited: of those that were not, take one at *)
(* the least level.                                                        *)
LEMMA ForestIsVisited ==
  ASSUME NEW p, NEW limit \in Nat \ {0}, NEW w, Ended(p, limit, w),
         NEW level, ForestBy(p, limit, level)
  PROVE  KnownIds(p.nodes) = w.visited /\ Clean(w)
<1> DEFINE K == KnownIds(p.nodes)
           Missed == {id \in K : id \notin w.visited}
           T == {level[id] : id \in Missed}
<1>1. MetOnce(p, w, level) BY DEF Ended, WalkInv, ForestsAreClean
<1>2. Clean(w) BY <1>1 DEF MetOnce
<1>3. w.visited \in SUBSET K BY EndedWalk
<1>4. \A k \in 1 .. Len(p.roots) : p.roots[k] \in K => p.roots[k] \in w.visited
  <2>1. 1 .. Len(w.stack) = {} BY DEF Ended
  <2>2. \A x : ~ OnStack(w, x) BY <2>1 DEF OnStack
  <2>3. RootsAreDue(p, w) /\ w.begun = Len(p.roots) BY DEF Ended, WalkInv
  <2> QED BY <1>2, <2>2, <2>3 DEF RootsAreDue
<1>5. ToSet(p.roots) \cap K \subseteq w.visited
  <2>1. p.roots \in Seq(ToSet(p.roots)) BY EndedWalk
  <2>2. DOMAIN p.roots = 1 .. Len(p.roots) BY <2>1, LenProperties
  <2> QED BY <1>4, <2>2 DEF ToSet
<1>6. \A x \in w.visited : \A c \in K : IsChild(p.nodes, c, x) => c \in w.visited
  BY <1>2 DEF Ended, WalkInv, ChildrenAreDue
<1>7. ASSUME Missed # {} PROVE FALSE
  <2>1. level \in [K -> 1 .. limit] BY DEF ForestBy
  <2>2. T \subseteq Nat /\ T # {} BY <1>7, <2>1
  <2>3. PICK n \in T : \A y \in T : n <= y BY <2>2, LeastNumber
  <2>4. PICK c \in Missed : level[c] = n BY <2>3
  <2>5. c \in K \ ToSet(p.roots) BY <1>5, <2>4
  <2>6. PICK q \in K : IsChild(p.nodes, c, q) BY <2>5 DEF ForestBy
  <2>7. level[c] = level[q] + 1 BY <2>5, <2>6 DEF ForestBy
  <2>8. q \notin w.visited BY <1>6, <2>4, <2>5, <2>6
  <2>9. level[q] \in T BY <2>6, <2>8
  <2>10. level[q] \in Nat BY <2>1, <2>6
  <2> QED BY <2>3, <2>4, <2>7, <2>9, <2>10
<1> QED BY <1>2, <1>3, <1>7

LEMMA ForestIsAccepted ==
  ASSUME NEW p, NEW limit \in Nat \ {0}, NEW w, Ended(p, limit, w),
         NEW f, f = Faults(p, w), IsForest(p, limit)
  PROVE  \A code \in DOMAIN f : ~ f[code]
<1> DEFINE K == KnownIds(p.nodes)
<1>1. /\ w.cycle \in BOOLEAN /\ w.tooDeep \in BOOLEAN
      /\ p.nodes \in Seq(ToSet(p.nodes)) /\ p.roots \in Seq(ToSet(p.roots))
      /\ \A i \in 1 .. Len(p.nodes) : WellFormed(p.nodes[i])
  BY EndedWalk
<1>0. FaultsTell(p, w, f) BY <1>1, FaultsAre
<1>2. PICK level : ForestBy(p, limit, level) BY ForestHasLevels DEF Ended
<1>3. K = w.visited /\ ~ w.cycle /\ ~ w.tooDeep BY <1>2, ForestIsVisited DEF Clean
<1>4. /\ p.roots # << >> /\ IsInjective(p.roots)
      /\ IsInjective([i \in DOMAIN p.nodes |-> p.nodes[i].id])
      /\ \A id \in K : LET node == NodeOf(p.nodes, id)
                       IN  /\ node.op = "leaf" <=> node.children = << >>
                           /\ node.op = "difference" => Len(node.children) >= 2
  BY DEF IsForest
<1>5. \A id \in K : /\ id \in Groups(p.nodes) <=> NodeOf(p.nodes, id).op # "leaf"
                    /\ NodeOf(p.nodes, id).children = ChildrenOf(p.nodes, id)
                    /\ Len(ChildrenOf(p.nodes, id)) \in Nat
  BY <1>1, OpsAre, NodeIs
<1>6. ~ f.duplicate_id
  <2>1. Cardinality(K) = Len(p.nodes) BY <1>1, <1>4, KnownFinite
  <2> QED BY <1>0, <2>1 DEF FaultsTell
<1>7. ~ f.leaf_has_children /\ ~ f.empty_group
  <2>1. \A id \in Groups(p.nodes) : id \in K BY DEF Groups
  <2>2. \A id \in K : id \in Groups(p.nodes) <=> ChildrenOf(p.nodes, id) # << >> BY <1>4, <1>5
  <2> QED BY <1>0, <2>1, <2>2 DEF FaultsTell
<1>8. ~ f.invalid_difference
  <2>1. \A id \in K : NodeOf(p.nodes, id).op = "difference" => ~ (Len(ChildrenOf(p.nodes, id)) < 2)
    BY <1>4, <1>5
  <2> QED BY <1>0, <2>1 DEF FaultsTell
<1>9. ~ f.missing_reference
  <2>1. ToSet(p.roots) \subseteq K /\ \A q \in K : ToSet(ChildrenOf(p.nodes, q)) \subseteq K
    BY <1>2 DEF ForestBy
  <2> QED BY <1>0, <2>1 DEF FaultsTell
<1>10. ~ f.multiple_parents
  <2>1. ASSUME NEW id \in K, NEW q \in K, NEW r \in K,
               NEW i \in 1 .. Len(ChildrenOf(p.nodes, q)), NEW j \in 1 .. Len(ChildrenOf(p.nodes, r)),
               ChildrenOf(p.nodes, q)[i] = id, ChildrenOf(p.nodes, r)[j] = id
        PROVE  q = r /\ i = j
    <3>1. IsChild(p.nodes, id, q) /\ IsChild(p.nodes, id, r) BY <2>1 DEF IsChild
    <3>2. q = r BY <1>2, <3>1 DEF ForestBy
    <3>3. IsInjective(ChildrenOf(p.nodes, q)) BY <1>2 DEF ForestBy
    <3>4. DOMAIN ChildrenOf(p.nodes, q) = 1 .. Len(ChildrenOf(p.nodes, q)) BY <1>1, NodeIs
    <3> QED BY <2>1, <3>2, <3>3, <3>4 DEF IsInjective
  <2>2. \A id \in K : ~ (Cardinality(Places(p.nodes, id)) > 1) BY <1>1, <2>1, PlacesAre
  <2> QED BY <1>0, <2>2 DEF FaultsTell
<1>11. ~ f.root_has_parent
  <2>1. \A id \in ToSet(p.roots) \cap K : ~ \E q \in K : IsChild(p.nodes, id, q) BY <1>2 DEF ForestBy
  <2>2. \A id \in ToSet(p.roots) \cap K : Places(p.nodes, id) = {} BY <1>1, <2>1, PlacesAre
  <2> QED BY <1>0, <2>2 DEF FaultsTell
<1>12. ~ f.duplicate_root /\ ~ f.missing_root
  <2>1. Cardinality(ToSet(p.roots)) = Len(p.roots) BY <1>1, <1>4, SequenceSize
  <2> QED BY <1>0, <1>4, <2>1 DEF FaultsTell
<1>13. ~ f.cycle /\ ~ f.hierarchy_too_deep /\ ~ f.unreachable_node BY <1>0, <1>3 DEF FaultsTell
<1> QED BY <1>1, <1>6, <1>7, <1>8, <1>9, <1>10, <1>11, <1>12, <1>13, NoFaults

LEMMA SafeEnds ==
  ASSUME NEW p, NEW limit \in Nat \ {0}, NEW w, Ended(p, limit, w),
         NEW f, f = Faults(p, w), GeometryIsSafe(f), NEW K, K = KnownIds(p.nodes)
  PROVE  \E level \in [K -> 1 .. IF f.root_has_parent THEN Cardinality(K) ELSE limit] :
           \A id \in K : \A c \in ToSet(ChildrenOf(p.nodes, id)) : c \in K /\ level[c] > level[id]
<1>1. /\ w.cycle \in BOOLEAN /\ w.tooDeep \in BOOLEAN /\ Cardinality(K) \in Nat
      /\ ~ f.cycle /\ ~ f.hierarchy_too_deep /\ ~ f.missing_reference
      /\ ~ f.multiple_parents /\ ~ f.unreachable_node
  BY EndedWalk DEF GeometryIsSafe
<1>0. FaultsTell(p, w, f) BY <1>1, FaultsAre
<1>2. K = w.visited /\ Clean(w) BY <1>0, <1>1 DEF Clean, FaultsTell
<1>3. /\ \A q, r, c \in K : IsChild(p.nodes, c, q) /\ IsChild(p.nodes, c, r) => q = r
      /\ \A q \in K : ToSet(ChildrenOf(p.nodes, q)) \subseteq K
      /\ \A q \in K : \A c : IsChild(p.nodes, c, q) <=> c \in ToSet(ChildrenOf(p.nodes, q))
  BY <1>1, OneParent
<1>4. CASE f.root_has_parent
  <2> DEFINE m == Cardinality(K)
  <2>1. PICK rank \in [K -> 1 .. m] : \A x, c \in K : IsChild(p.nodes, c, x) => rank[c] < rank[x]
    BY <1>2 DEF Ended, WalkInv, LeftInOrder
  <2> DEFINE level == [x \in K |-> (m + 1) - rank[x]]
  <2>2. m \in Nat /\ \A x \in K : rank[x] \in 1 .. m BY <1>1, <2>1
  <2> HIDE DEF m
  <2>3. level \in [K -> 1 .. m] BY <2>2
  <2>4. \A id \in K : \A c \in ToSet(ChildrenOf(p.nodes, id)) : c \in K /\ level[c] > level[id]
    BY <1>3, <2>1, <2>2
  <2> QED BY <1>4, <2>3, <2>4 DEF m
<1>5. CASE ~ f.root_has_parent
  <2>0. \E level \in [KnownIds(p.nodes) -> 1 .. limit] :
          \A c \in KnownIds(p.nodes) :
            /\ c \in ToSet(p.roots) => level[c] = 1 /\ \A q \in KnownIds(p.nodes) : ~ IsChild(p.nodes, c, q)
            /\ c \notin ToSet(p.roots) =>
                 \E q \in KnownIds(p.nodes) : /\ IsChild(p.nodes, c, q) /\ level[c] = level[q] + 1
                              /\ \A r \in KnownIds(p.nodes) : IsChild(p.nodes, c, r) => r = q
    BY <1>1, <1>5, DepthIsLevel
  <2>1. PICK level \in [K -> 1 .. limit] :
          \A c \in K :
            /\ c \in ToSet(p.roots) => level[c] = 1 /\ \A q \in K : ~ IsChild(p.nodes, c, q)
            /\ c \notin ToSet(p.roots) =>
                 \E q \in K : /\ IsChild(p.nodes, c, q) /\ level[c] = level[q] + 1
                              /\ \A r \in K : IsChild(p.nodes, c, r) => r = q
    BY <2>0
  <2>2. ASSUME NEW id \in K, NEW c \in ToSet(ChildrenOf(p.nodes, id))
        PROVE  c \in K /\ level[c] > level[id]
    <3>1. c \in K /\ IsChild(p.nodes, c, id) BY <1>3
    <3>2. level[c] = level[id] + 1 BY <2>1, <3>1
    <3>3. level[id] \in 1 .. limit BY <2>1
    <3> QED BY <3>1, <3>2, <3>3
  <2> QED BY <1>5, <2>1, <2>2
<1> QED BY <1>4, <1>5

LEMMA TreeTells == TreeInv => HierarchyIsExact
<1> SUFFICES ASSUME TreeInv, draft # "none", WalkEnded PROVE HierarchyIsExact
  BY DEF HierarchyIsExact
<1> DEFINE limit == Drafts[draft].depth
           f == Faults(program, walk)
           K == KnownIds(program.nodes)
<1>1. Ended(program, limit, walk) /\ limit \in Nat \ {0}
  BY DraftsAssumption DEF TreeInv, WalkEnded, Ended
<1>2. f = Faults(program, walk) /\ K = KnownIds(program.nodes) OBVIOUS
<1> HIDE DEF limit, f, K
<1>3. (\A code \in DOMAIN f : ~ f[code]) <=> IsForest(program, limit)
  BY <1>1, <1>2, AcceptedIsForest, ForestIsAccepted
<1>4. GeometryIsSafe(f) =>
        \E level \in [K -> 1 .. IF f.root_has_parent THEN Cardinality(K) ELSE limit] :
          \A id \in K : \A c \in ToSet(ChildrenOf(program.nodes, id)) : c \in K /\ level[c] > level[id]
  BY <1>1, <1>2, SafeEnds
<1> QED BY <1>3, <1>4 DEF HierarchyIsExact, limit, f, K

(* The walk accepts exactly the forests within the limit, and recursion is *)
(* only begun where it ends: for programs of any number of nodes and any   *)
(* children, and every limit on the depth.                                 *)
THEOREM HierarchyExact == ProgramSpec => []HierarchyIsExact
BY TreeInductive, TreeTells, PTL

(***************************************************************************)
(* The bounds of a transformed node, axis by axis: the cells that are seen *)
(* as one cell from within it are a row of k, and bounds go to bounds.     *)
(***************************************************************************)
Box == [lower : [Axes -> Int], upper : [Axes -> Int]]
InBox(b, c) == \A a \in Axes : b.lower[a] <= c[a] /\ c[a] < b.upper[a]

(* The set of cells C reaches every side of b.                             *)
Reaches(C, b) ==
  \A a \in Axes : /\ \E c \in C : c[a] = b.lower[a]
                  /\ \E c \in C : c[a] = b.upper[a] - 1

(* The lowest of the k cells that are seen as d, with an axis turned round *)
(* or not.                                                                 *)
Lowest(k, flip, m, d) == IF flip THEN m - (d + 1) * k ELSE m + d * k
SeenFrom(flip, m, c) == IF flip THEN 0 - (2 * (c - m) + 1) ELSE 2 * (c - m) + 1

LEMMA Quotient ==
  ASSUME NEW x \in Int, NEW k \in Nat \ {0}, NEW d \in Int
  PROVE  (x \div k = d) <=> (d * k <= x /\ x < (d + 1) * k)
OBVIOUS

LEMMA Multiples ==
  ASSUME NEW x \in Int, NEW y \in Int, NEW k \in Nat \ {0}
  PROVE  x <= y <=> x * k <= y * k
OBVIOUS

LEMMA SeenAs ==
  ASSUME NEW k \in Nat \ {0}, NEW flip \in BOOLEAN, NEW m \in Int, NEW c \in Int, NEW d \in Int
  PROVE  /\ Lowest(k, flip, m, d) \in Int
         /\ SeenFrom(flip, m, c) \div (2 * k) = d
              <=> Lowest(k, flip, m, d) <= c /\ c < Lowest(k, flip, m, d) + k
<1>1. d * k \in Int /\ (d + 1) * k = d * k + k /\ 2 * k \in Nat \ {0}
      /\ d * (2 * k) = 2 * (d * k) /\ (d + 1) * (2 * k) = 2 * (d * k) + 2 * k
  OBVIOUS
<1>2. SeenFrom(flip, m, c) \in Int BY DEF SeenFrom
<1>3. SeenFrom(flip, m, c) \div (2 * k) = d
        <=> 2 * (d * k) <= SeenFrom(flip, m, c) /\ SeenFrom(flip, m, c) < 2 * (d * k) + 2 * k
  BY <1>1, <1>2, Quotient
<1>4. CASE flip
  <2>1. SeenFrom(flip, m, c) = 0 - (2 * (c - m) + 1) BY <1>4 DEF SeenFrom
  <2>2. Lowest(k, flip, m, d) = m - (d * k + k) BY <1>1, <1>4 DEF Lowest
  <2> DEFINE e == d * k
  <2>3. e \in Int BY <1>1
  <2> HIDE DEF e
  <2>4. (2 * e <= 0 - (2 * (c - m) + 1) /\ 0 - (2 * (c - m) + 1) < 2 * e + 2 * k)
        <=> m - (e + k) <= c /\ c < m - (e + k) + k
    BY <2>3
  <2>5. m - (e + k) \in Int BY <2>3
  <2> QED BY <1>3, <2>1, <2>2, <2>4, <2>5 DEF e
<1>5. CASE ~ flip
  <2>1. SeenFrom(flip, m, c) = 2 * (c - m) + 1 BY <1>5 DEF SeenFrom
  <2>2. Lowest(k, flip, m, d) = m + d * k BY <1>5 DEF Lowest
  <2> DEFINE e == d * k
  <2>3. e \in Int BY <1>1
  <2> HIDE DEF e
  <2>4. (2 * e <= 2 * (c - m) + 1 /\ 2 * (c - m) + 1 < 2 * e + 2 * k)
        <=> m + e <= c /\ c < m + e + k
    BY <2>3
  <2>5. m + e \in Int BY <2>3
  <2> QED BY <1>3, <2>1, <2>2, <2>4, <2>5 DEF e
<1> QED BY <1>4, <1>5

LEMMA LowestOrdered ==
  ASSUME NEW k \in Nat \ {0}, NEW flip \in BOOLEAN, NEW m \in Int, NEW d \in Int, NEW e \in Int, d <= e
  PROVE  IF flip THEN Lowest(k, flip, m, e) <= Lowest(k, flip, m, d)
         ELSE Lowest(k, flip, m, d) <= Lowest(k, flip, m, e)
<1>1. d * k \in Int /\ e * k \in Int /\ d * k <= e * k BY Multiples
<1>2. (d + 1) * k = d * k + k /\ (e + 1) * k = e * k + k OBVIOUS
<1>3. CASE flip BY <1>1, <1>2, <1>3 DEF Lowest
<1>4. CASE ~ flip BY <1>1, <1>2, <1>4 DEF Lowest
<1> QED BY <1>3, <1>4


(* The axis of the node that becomes the axis a, whether it is turned      *)
(* round on the way, and by how much it grows.                             *)
FromAxis(node, a) == IF node.turn \in {0, 2} THEN a ELSE 3 - a
Mirrored(node, a) == node.turn = 2 \/ (node.turn = 1 /\ a = 1) \/ (node.turn = 3 /\ a = 2)
Factor(node, a) == Size(node.scale[FromAxis(node, a)])
Flips(node, a) == ~ (node.scale[FromAxis(node, a)] < 0 <=> Mirrored(node, a))

LEMMA AxesAre ==
  ASSUME NEW node, WellFormed(node), NEW a \in Axes
  PROVE  /\ a \in {1, 2} /\ FromAxis(node, a) \in Axes
         /\ Factor(node, a) \in Nat \ {0} /\ Flips(node, a) \in BOOLEAN /\ Mirrored(node, a) \in BOOLEAN
         /\ node.move[a] \in Int /\ node.scale[FromAxis(node, a)] \in Int \ {0}
         /\ Factor(node, a) = IF Flips(node, a) = Mirrored(node, a) THEN node.scale[FromAxis(node, a)]
                              ELSE 0 - node.scale[FromAxis(node, a)]
<1>1. a \in {1, 2} BY DEF Axes
<1>2. FromAxis(node, a) \in Axes BY <1>1 DEF FromAxis, Axes
<1>3. node.scale[FromAxis(node, a)] \in Int \ {0} BY <1>2 DEF WellFormed
<1>4. Factor(node, a) \in Nat \ {0} BY <1>3 DEF Factor, Size
<1>5. Flips(node, a) \in BOOLEAN /\ Mirrored(node, a) \in BOOLEAN BY DEF Flips, Mirrored
<1>6. node.move[a] \in Int BY <1>1 DEF WellFormed
<1>7. CASE node.scale[FromAxis(node, a)] < 0
  <2>1. Factor(node, a) = 0 - node.scale[FromAxis(node, a)] BY <1>7 DEF Factor, Size
  <2>2. Flips(node, a) = ~ Mirrored(node, a) BY <1>5, <1>7 DEF Flips
  <2> QED BY <1>1, <1>2, <1>3, <1>4, <1>5, <1>6, <2>1, <2>2
<1>8. CASE ~ (node.scale[FromAxis(node, a)] < 0)
  <2>1. Factor(node, a) = node.scale[FromAxis(node, a)] BY <1>8 DEF Factor, Size
  <2>2. Flips(node, a) = Mirrored(node, a) BY <1>5, <1>8 DEF Flips
  <2> QED BY <1>1, <1>2, <1>3, <1>4, <1>5, <1>6, <2>1, <2>2
<1> QED BY <1>7, <1>8

LEMMA TurnedIs ==
  ASSUME NEW node, WellFormed(node), NEW v, \A j \in Axes : v[j] \in Int, NEW a \in Axes
  PROVE  /\ Turned(v, node.turn)[a] =
              IF Mirrored(node, a) THEN 0 - v[FromAxis(node, a)] ELSE v[FromAxis(node, a)]
         /\ Turned(v, (4 - node.turn) % 4)[FromAxis(node, a)] =
              IF Mirrored(node, a) THEN 0 - v[a] ELSE v[a]
<1>1. a \in {1, 2} /\ node.turn \in {0, 1, 2, 3} BY DEF Axes, WellFormed
<1>2. v[1] \in Int /\ v[2] \in Int BY DEF Axes
<1>3. CASE node.turn = 0
  <2>1. (4 - node.turn) % 4 = 0 /\ FromAxis(node, a) = a /\ ~ Mirrored(node, a)
    BY <1>1, <1>3 DEF FromAxis, Mirrored
  <2>2. Turned(v, 0) = v BY DEF Turned
  <2> QED BY <1>3, <2>1, <2>2
<1>4. CASE node.turn = 1
  <2>1. (4 - node.turn) % 4 = 3 /\ FromAxis(node, a) = 3 - a /\ (Mirrored(node, a) <=> a = 1)
    BY <1>1, <1>4 DEF FromAxis, Mirrored
  <2>2. Turned(v, 1) = <<0 - v[2], v[1]>> /\ Turned(v, 3) = <<v[2], 0 - v[1]>> BY DEF Turned
  <2>3. CASE a = 1 BY <1>2, <1>4, <2>1, <2>2, <2>3
  <2>4. CASE a = 2 BY <1>2, <1>4, <2>1, <2>2, <2>4
  <2> QED BY <1>1, <2>3, <2>4
<1>5. CASE node.turn = 2
  <2>1. (4 - node.turn) % 4 = 2 /\ FromAxis(node, a) = a /\ Mirrored(node, a)
    BY <1>1, <1>5 DEF FromAxis, Mirrored
  <2>2. Turned(v, 2) = <<0 - v[1], 0 - v[2]>> BY DEF Turned
  <2> QED BY <1>1, <1>5, <2>1, <2>2
<1>6. CASE node.turn = 3
  <2>1. (4 - node.turn) % 4 = 1 /\ FromAxis(node, a) = 3 - a /\ (Mirrored(node, a) <=> a = 2)
    BY <1>1, <1>6 DEF FromAxis, Mirrored
  <2>2. Turned(v, 1) = <<0 - v[2], v[1]>> /\ Turned(v, 3) = <<v[2], 0 - v[1]>> BY DEF Turned
  <2>3. CASE a = 1 BY <1>2, <1>6, <2>1, <2>2, <2>3
  <2>4. CASE a = 2 BY <1>2, <1>6, <2>1, <2>2, <2>4
  <2> QED BY <1>1, <2>3, <2>4
<1> QED BY <1>1, <1>3, <1>4, <1>5, <1>6

LEMMA WithinIs ==
  ASSUME NEW node, WellFormed(node), NEW c \in Int \X Int
  PROVE  /\ Within(node, c) \in Int \X Int
         /\ \A a \in Axes :
              Within(node, c)[FromAxis(node, a)] =
                SeenFrom(Flips(node, a), node.move[a], c[a]) \div (2 * Factor(node, a))
<1> DEFINE v == [a \in Axes |-> 2 * (c[a] - node.move[a]) + 1]
           center == Turned(v, (4 - node.turn) % 4)
<1>1. \A a \in Axes : v[a] \in Int BY AxesAre DEF Axes
<1>2. ASSUME NEW a \in Axes
      PROVE  /\ center[FromAxis(node, a)] \in Int
             /\ Within(node, c)[FromAxis(node, a)] =
                  SeenFrom(Flips(node, a), node.move[a], c[a]) \div (2 * Factor(node, a))
  <2> DEFINE j == FromAxis(node, a)
  <2>1. center[j] = IF Mirrored(node, a) THEN 0 - v[a] ELSE v[a] BY <1>1, TurnedIs
  <2>2. v[a] = 2 * (c[a] - node.move[a]) + 1 /\ v[a] \in Int BY <1>1
  <2>3. j \in Axes /\ Mirrored(node, a) \in BOOLEAN BY AxesAre
  <2>4. center[j] \in Int BY <2>1, <2>2, <2>3
  <2>5. Within(node, c)[j] = (IF node.scale[j] < 0 THEN 0 - center[j] ELSE center[j]) \div (2 * Size(node.scale[j]))
    BY <2>3 DEF Within
  <2>6. (IF node.scale[j] < 0 THEN 0 - center[j] ELSE center[j]) = SeenFrom(Flips(node, a), node.move[a], c[a])
    <3> DEFINE x == v[a]
    <3>1. x \in Int /\ x = 2 * (c[a] - node.move[a]) + 1 BY <2>2
    <3>2. center[j] = IF Mirrored(node, a) THEN 0 - x ELSE x BY <2>1
    <3>3. Flips(node, a) <=> ~ (node.scale[j] < 0 <=> Mirrored(node, a)) BY DEF Flips
    <3>4. SeenFrom(Flips(node, a), node.move[a], c[a]) = IF Flips(node, a) THEN 0 - x ELSE x
      BY <3>1 DEF SeenFrom
    <3> HIDE DEF x, center
    <3>5. CASE Mirrored(node, a)
      <4>1. center[j] = 0 - x BY <3>2, <3>5
      <4>2. CASE node.scale[j] < 0 BY <3>1, <3>3, <3>4, <3>5, <4>1, <4>2
      <4>3. CASE ~ (node.scale[j] < 0) BY <3>1, <3>3, <3>4, <3>5, <4>1, <4>3
      <4> QED BY <4>2, <4>3
    <3>6. CASE ~ Mirrored(node, a)
      <4>1. center[j] = x BY <3>2, <3>6
      <4>2. CASE node.scale[j] < 0 BY <3>1, <3>3, <3>4, <3>6, <4>1, <4>2
      <4>3. CASE ~ (node.scale[j] < 0) BY <3>1, <3>3, <3>4, <3>6, <4>1, <4>3
      <4> QED BY <4>2, <4>3
    <3> QED BY <3>5, <3>6
  <2> QED BY <2>4, <2>5, <2>6 DEF Factor
<1>3. \A j \in Axes : \E a \in Axes : j = FromAxis(node, a)
  <2>1. CASE node.turn \in {0, 2} BY <2>1 DEF FromAxis
  <2>2. CASE node.turn \notin {0, 2}
    <3>1. FromAxis(node, 1) = 2 /\ FromAxis(node, 2) = 1 BY <2>2 DEF FromAxis
    <3> QED BY <3>1 DEF Axes
  <2> QED BY <2>1, <2>2
<1>4. \A j \in Axes : center[j] \in Int BY <1>2, <1>3
<1>5. \A j \in Axes : Within(node, c)[j] \in Int
  <2>1. \A j \in Axes : Size(node.scale[j]) \in Nat \ {0} BY DEF WellFormed, Size
  <2> HIDE DEF center
  <2>2. \A x \in Int, k \in Nat \ {0} : x \div (2 * k) \in Int OBVIOUS
  <2>3. \A j \in Axes : Within(node, c)[j] =
          (IF node.scale[j] < 0 THEN 0 - center[j] ELSE center[j]) \div (2 * Size(node.scale[j]))
    BY DEF Within, center
  <2>4. \A j \in Axes : (IF node.scale[j] < 0 THEN 0 - center[j] ELSE center[j]) \in Int BY <1>4
  <2> QED BY <2>1, <2>2, <2>3, <2>4
<1>6. Within(node, c) = [j \in 1 .. 2 |-> Within(node, c)[j]] BY DEF Within, Axes
<1>7. Within(node, c) \in Int \X Int BY <1>5, <1>6 DEF Axes
<1> QED BY <1>2, <1>7


LEMMA Products ==
  ASSUME NEW l \in Int, NEW u \in Int, NEW k \in Nat \ {0}
  PROVE  /\ l * k \in Int /\ u * k \in Int /\ (l + u) * k = l * k + u * k /\ (u - l) * k = u * k - l * k
         /\ (l + 1) * k = l * k + k /\ (u - 1) * k = u * k - k /\ ((u - 1) + 1) * k = u * k
<1>1. l * k \in Int /\ u * k \in Int OBVIOUS
<1>2. (l + u) * k = l * k + u * k /\ (u - l) * k = u * k - l * k OBVIOUS
<1>3. (l + 1) * k = l * k + k /\ (u - 1) * k = u * k - k /\ ((u - 1) + 1) * k = u * k OBVIOUS
<1> QED BY <1>1, <1>2, <1>3

LEMMA TransformIs ==
  ASSUME NEW node, WellFormed(node), NEW b \in Box
  PROVE  /\ TransformBounds(b, node) \in Box
         /\ \A a \in Axes :
              LET j == FromAxis(node, a)
                  k == Factor(node, a)
                  flip == Flips(node, a)
              IN  /\ TransformBounds(b, node).lower[a] =
                       Lowest(k, flip, node.move[a], IF flip THEN b.upper[j] - 1 ELSE b.lower[j])
                  /\ TransformBounds(b, node).upper[a] =
                       Lowest(k, flip, node.move[a], IF flip THEN b.lower[j] ELSE b.upper[j] - 1) + k
<1> DEFINE v == [a \in Axes |-> (b.lower[a] + b.upper[a]) * node.scale[a]]
           center == Turned(v, node.turn)
           half == [a \in Axes |-> (b.upper[a] - b.lower[a]) * Size(node.scale[a])]
           turned == IF node.turn % 2 = 0 THEN half ELSE <<half[2], half[1]>>
           t == TransformBounds(b, node)
<1>1. \A a \in Axes : b.lower[a] \in Int /\ b.upper[a] \in Int BY DEF Box
<1>2. \A a \in Axes : node.scale[a] \in Int /\ Size(node.scale[a]) \in Nat BY DEF WellFormed, Size
<1>3. \A a \in Axes : v[a] \in Int BY <1>1, <1>2
<1>4. /\ t = [lower |-> t.lower, upper |-> t.upper]
      /\ t.lower = [a \in Axes |-> t.lower[a]] /\ t.upper = [a \in Axes |-> t.upper[a]]
      /\ \A a \in Axes : /\ t.lower[a] = (center[a] - turned[a]) \div 2 + node.move[a]
                         /\ t.upper[a] = (center[a] + turned[a]) \div 2 + node.move[a]
  <2>1. t = [lower |-> [a \in Axes |-> (center[a] - turned[a]) \div 2 + node.move[a]],
             upper |-> [a \in Axes |-> (center[a] + turned[a]) \div 2 + node.move[a]]]
    BY DEF TransformBounds
  <2> HIDE DEF v, half, center, turned, t
  <2> QED BY <2>1
<1>5. \A a \in Axes : turned[a] = half[FromAxis(node, a)]
  <2>1. node.turn \in {0, 1, 2, 3} BY DEF WellFormed
  <2>2. CASE node.turn \in {0, 2}
    <3>1. node.turn % 2 = 0 BY <2>2
    <3> QED BY <2>2, <3>1 DEF FromAxis
  <2>3. CASE node.turn \in {1, 3}
    <3>1. node.turn % 2 # 0 BY <2>3
    <3>2. turned = <<half[2], half[1]>> BY <3>1
    <3>3. FromAxis(node, 1) = 2 /\ FromAxis(node, 2) = 1 BY <2>3 DEF FromAxis
    <3> QED BY <3>2, <3>3 DEF Axes
  <2> QED BY <2>1, <2>2, <2>3
<1>6. ASSUME NEW a \in Axes
      PROVE  LET j == FromAxis(node, a)
                 k == Factor(node, a)
                 flip == Flips(node, a)
             IN  /\ t.lower[a] = Lowest(k, flip, node.move[a], IF flip THEN b.upper[j] - 1 ELSE b.lower[j])
                 /\ t.upper[a] = Lowest(k, flip, node.move[a], IF flip THEN b.lower[j] ELSE b.upper[j] - 1) + k
                 /\ t.lower[a] \in Int /\ t.upper[a] \in Int
  <2> DEFINE j == FromAxis(node, a)
             k == Factor(node, a)
             flip == Flips(node, a)
             m == node.move[a]
             l == b.lower[j]
             u == b.upper[j]
  <2>1. /\ j \in Axes /\ k \in Nat \ {0} /\ flip \in BOOLEAN /\ m \in Int
        /\ Mirrored(node, a) \in BOOLEAN /\ node.scale[j] \in Int
        /\ k = IF flip = Mirrored(node, a) THEN node.scale[j] ELSE 0 - node.scale[j]
    BY AxesAre
  <2>2. l \in Int /\ u \in Int BY <1>1, <2>1
  <2>3. center[a] = IF Mirrored(node, a) THEN 0 - v[j] ELSE v[j] BY <1>3, TurnedIs
  <2>4. v[j] = (l + u) * node.scale[j] BY <2>1
  <2>5. turned[a] = (u - l) * k BY <1>5, <2>1 DEF Factor
  <2>6. t.lower[a] = (center[a] - turned[a]) \div 2 + m /\ t.upper[a] = (center[a] + turned[a]) \div 2 + m
    BY <1>4
  <2> DEFINE s == node.scale[j]
             x == l * k
             y == u * k
  <2>7. /\ x \in Int /\ y \in Int /\ (l + u) * k = x + y /\ (u - l) * k = y - x
        /\ (l + 1) * k = x + k /\ (u - 1) * k = y - k /\ ((u - 1) + 1) * k = y
    <3>1. k \in Nat \ {0} /\ l \in Int /\ u \in Int BY <2>1, <2>2
    <3> HIDE DEF l, u, k
    <3> QED BY <3>1, Products
  <2>8. center[a] = IF flip THEN 0 - (x + y) ELSE x + y
    <3>0. v[j] = (l + u) * s /\ s \in Int /\ l + u \in Int BY <2>1, <2>2, <2>4
    <3> DEFINE w == v[j]
    <3>1. w = (l + u) * s /\ s \in Int /\ l + u \in Int BY <3>0
    <3>2. center[a] = IF Mirrored(node, a) THEN 0 - w ELSE w BY <2>3
    <3>3. k = IF flip = Mirrored(node, a) THEN s ELSE 0 - s BY <2>1
    <3>4. flip \in BOOLEAN /\ Mirrored(node, a) \in BOOLEAN /\ k \in Int BY <2>1
    <3>5. (l + u) * k = x + y BY <2>7
    <3> HIDE DEF w, center, s, x, y, k, flip, l, u
    <3>6. CASE flip = Mirrored(node, a)
      <4>1. w = x + y BY <3>1, <3>3, <3>5, <3>6
      <4> QED BY <3>2, <3>4, <3>6, <4>1
    <3>7. CASE flip # Mirrored(node, a)
      <4>1. k = 0 - s BY <3>3, <3>7
      <4>2. (l + u) * k = 0 - (l + u) * s BY <3>1, <4>1
      <4>3. w = 0 - (x + y) /\ w \in Int /\ 0 - w = x + y BY <2>7, <3>1, <3>5, <4>2 DEF w
      <4>4. flip = ~ Mirrored(node, a) BY <3>4, <3>7
      <4> QED BY <3>2, <3>4, <4>3, <4>4
    <3> QED BY <3>6, <3>7
  <2>9. turned[a] = y - x BY <2>5, <2>7
  <2> HIDE DEF center, turned, x, y, j, k, flip, m, l, u, s, t
  <2>10. CASE flip
    <3>1. center[a] - turned[a] = 2 * (0 - y) /\ center[a] + turned[a] = 2 * (0 - x)
      BY <2>7, <2>8, <2>9, <2>10
    <3>2. (2 * (0 - y)) \div 2 = 0 - y /\ (2 * (0 - x)) \div 2 = 0 - x BY <2>7
    <3>3. t.lower[a] = m - y /\ t.upper[a] = m - x BY <2>1, <2>6, <2>7, <3>1, <3>2
    <3>4. Lowest(k, flip, m, u - 1) = m - y /\ Lowest(k, flip, m, l) = m - (x + k) BY <2>7, <2>10 DEF Lowest
    <3>5. /\ t.lower[a] = Lowest(k, flip, m, IF flip THEN u - 1 ELSE l)
          /\ t.upper[a] = Lowest(k, flip, m, IF flip THEN l ELSE u - 1) + k
          /\ t.lower[a] \in Int /\ t.upper[a] \in Int
      <4>1. (IF flip THEN u - 1 ELSE l) = u - 1 /\ (IF flip THEN l ELSE u - 1) = l BY <2>10
      <4>2. m - y \in Int /\ m - x \in Int /\ m + x \in Int /\ m + y \in Int /\ k \in Int BY <2>1, <2>7
      <4>3. m - (x + k) + k = m - x /\ m + (y - k) + k = m + y BY <2>1, <2>7
      <4> QED BY <3>3, <3>4, <4>1, <4>2, <4>3
    <3> QED BY <3>5 DEF j, k, flip, m, l, u
  <2>11. CASE ~ flip
    <3>1. center[a] - turned[a] = 2 * x /\ center[a] + turned[a] = 2 * y
      BY <2>7, <2>8, <2>9, <2>11
    <3>2. (2 * y) \div 2 = y /\ (2 * x) \div 2 = x BY <2>7
    <3>3. t.lower[a] = m + x /\ t.upper[a] = m + y BY <2>1, <2>6, <2>7, <3>1, <3>2
    <3>4. Lowest(k, flip, m, u - 1) = m + (y - k) /\ Lowest(k, flip, m, l) = m + x
      BY <2>7, <2>11 DEF Lowest, x
    <3>5. /\ t.lower[a] = Lowest(k, flip, m, IF flip THEN u - 1 ELSE l)
          /\ t.upper[a] = Lowest(k, flip, m, IF flip THEN l ELSE u - 1) + k
          /\ t.lower[a] \in Int /\ t.upper[a] \in Int
      <4>1. (IF flip THEN u - 1 ELSE l) = l /\ (IF flip THEN l ELSE u - 1) = u - 1 BY <2>11
      <4>2. m - y \in Int /\ m - x \in Int /\ m + x \in Int /\ m + y \in Int /\ k \in Int BY <2>1, <2>7
      <4>3. m - (x + k) + k = m - x /\ m + (y - k) + k = m + y BY <2>1, <2>7
      <4> QED BY <3>3, <3>4, <4>1, <4>2, <4>3
    <3> QED BY <3>5 DEF j, k, flip, m, l, u
  <2> QED BY <2>10, <2>11
<1>7. t \in Box
  <2>1. t.lower \in [Axes -> Int] /\ t.upper \in [Axes -> Int] BY <1>4, <1>6
  <2> HIDE DEF t
  <2> QED BY <1>4, <2>1 DEF Box
<1> QED BY <1>6, <1>7

(* What is in the bounds within the node is in those outside.              *)
LEMMA BoundsCarry ==
  ASSUME NEW node, WellFormed(node), NEW b \in Box, NEW c \in Int \X Int, InBox(b, Within(node, c))
  PROVE  InBox(TransformBounds(b, node), c)
<1> SUFFICES ASSUME NEW a \in Axes
             PROVE  /\ TransformBounds(b, node).lower[a] <= c[a]
                    /\ c[a] < TransformBounds(b, node).upper[a]
  BY DEF InBox
<1> DEFINE j == FromAxis(node, a)
           k == Factor(node, a)
           flip == Flips(node, a)
           m == node.move[a]
           d == Within(node, c)[j]
           l == b.lower[j]
           u == b.upper[j]
<1>1. j \in Axes /\ k \in Nat \ {0} /\ flip \in BOOLEAN /\ m \in Int /\ a \in {1, 2} BY AxesAre
<1>2. d \in Int /\ c[a] \in Int BY <1>1, WithinIs DEF Axes
<1>3. l \in Int /\ u \in Int BY <1>1 DEF Box
<1>4. l <= d /\ d <= u - 1
  <2>1. b.lower[j] <= Within(node, c)[j] /\ Within(node, c)[j] < b.upper[j]
    <3> HIDE DEF j
    <3> QED BY <1>1 DEF InBox
  <2>2. l <= d /\ d < u BY <2>1
  <2> HIDE DEF l, d, u
  <2> QED BY <1>2, <1>3, <2>2
<1>5. d = SeenFrom(flip, m, c[a]) \div (2 * k) BY WithinIs
<1>6. /\ TransformBounds(b, node).lower[a] = Lowest(k, flip, m, IF flip THEN u - 1 ELSE l)
      /\ TransformBounds(b, node).upper[a] = Lowest(k, flip, m, IF flip THEN l ELSE u - 1) + k
  BY TransformIs
<1> HIDE DEF j, k, flip, m, d, l, u
<1>7. Lowest(k, flip, m, d) <= c[a] /\ c[a] < Lowest(k, flip, m, d) + k
  BY <1>1, <1>2, <1>5, SeenAs
<1>8. /\ Lowest(k, flip, m, d) \in Int /\ Lowest(k, flip, m, l) \in Int /\ Lowest(k, flip, m, u - 1) \in Int
  BY <1>1, <1>2, <1>3, SeenAs
<1>9. u - 1 \in Int BY <1>3
<1>10. CASE flip
  <2>1. Lowest(k, flip, m, d) <= Lowest(k, flip, m, l) BY <1>1, <1>2, <1>3, <1>4, <1>10, LowestOrdered
  <2>2. Lowest(k, flip, m, u - 1) <= Lowest(k, flip, m, d) BY <1>1, <1>2, <1>4, <1>9, <1>10, LowestOrdered
  <2>3. /\ TransformBounds(b, node).lower[a] = Lowest(k, flip, m, u - 1)
        /\ TransformBounds(b, node).upper[a] = Lowest(k, flip, m, l) + k
    BY <1>6, <1>10
  <2> QED BY <1>1, <1>2, <1>7, <1>8, <2>1, <2>2, <2>3
<1>11. CASE ~ flip
  <2>1. Lowest(k, flip, m, l) <= Lowest(k, flip, m, d) BY <1>1, <1>2, <1>3, <1>4, <1>11, LowestOrdered
  <2>2. Lowest(k, flip, m, d) <= Lowest(k, flip, m, u - 1) BY <1>1, <1>2, <1>4, <1>9, <1>11, LowestOrdered
  <2>3. /\ TransformBounds(b, node).lower[a] = Lowest(k, flip, m, l)
        /\ TransformBounds(b, node).upper[a] = Lowest(k, flip, m, u - 1) + k
    BY <1>6, <1>11
  <2> QED BY <1>1, <1>2, <1>7, <1>8, <2>1, <2>2, <2>3
<1> QED BY <1>1, <1>10, <1>11


LEMMA AxesTaken ==
  ASSUME NEW node
  PROVE  \A j \in Axes : \E a \in Axes : j = FromAxis(node, a)
<1>1. CASE node.turn \in {0, 2} BY <1>1 DEF FromAxis
<1>2. CASE node.turn \notin {0, 2}
  <2>1. FromAxis(node, 1) = 2 /\ FromAxis(node, 2) = 1 BY <1>2 DEF FromAxis
  <2> QED BY <2>1 DEF Axes
<1> QED BY <1>1, <1>2

LEMMA CellSeen ==
  ASSUME NEW node, WellFormed(node), NEW d \in Int \X Int, NEW c \in Int \X Int,
         \A a \in Axes :
           /\ Lowest(Factor(node, a), Flips(node, a), node.move[a], d[FromAxis(node, a)]) <= c[a]
           /\ c[a] < Lowest(Factor(node, a), Flips(node, a), node.move[a], d[FromAxis(node, a)])
                       + Factor(node, a)
  PROVE  Within(node, c) = d
<1>1. ASSUME NEW a \in Axes PROVE Within(node, c)[FromAxis(node, a)] = d[FromAxis(node, a)]
  <2> DEFINE j == FromAxis(node, a)
             k == Factor(node, a)
             flip == Flips(node, a)
             m == node.move[a]
  <2>1. j \in {1, 2} /\ a \in {1, 2} /\ k \in Nat \ {0} /\ flip \in BOOLEAN /\ m \in Int
    BY AxesAre DEF Axes
  <2>2. d[j] \in Int /\ c[a] \in Int BY <2>1
  <2>3. Within(node, c)[j] = SeenFrom(flip, m, c[a]) \div (2 * k) BY WithinIs
  <2>4. Lowest(k, flip, m, d[j]) <= c[a] /\ c[a] < Lowest(k, flip, m, d[j]) + k OBVIOUS
  <2> HIDE DEF j, k, flip, m
  <2>5. SeenFrom(flip, m, c[a]) \div (2 * k) = d[j] BY <2>1, <2>2, <2>4, SeenAs
  <2>6. Within(node, c)[j] = d[j] BY <2>3, <2>5
  <2> QED BY <2>6 DEF j
<1>2. \A j \in Axes : Within(node, c)[j] = d[j] BY <1>1, AxesTaken
<1>3. Within(node, c)[1] = d[1] /\ Within(node, c)[2] = d[2] BY <1>2 DEF Axes
<1>4. Within(node, c) \in Int \X Int BY WithinIs
<1> QED BY <1>3, <1>4

(* Of the cells that are seen as d one is lowest, one highest, on any axis. *)
LEMMA CellsBehind ==
  ASSUME NEW node, WellFormed(node), NEW d \in Int \X Int, NEW a \in Axes
  PROVE  LET low == Lowest(Factor(node, a), Flips(node, a), node.move[a], d[FromAxis(node, a)])
         IN  /\ \E c \in Int \X Int : Within(node, c) = d /\ c[a] = low
             /\ \E c \in Int \X Int : Within(node, c) = d /\ c[a] = low + Factor(node, a) - 1
<1> DEFINE low(i) == Lowest(Factor(node, i), Flips(node, i), node.move[i], d[FromAxis(node, i)])
           high(i) == low(i) + Factor(node, i) - 1
           least == <<low(1), low(2)>>
           most == <<high(1), high(2)>>
<1>1. ASSUME NEW i \in Axes PROVE low(i) \in Int /\ Factor(node, i) \in Nat \ {0}
  <2>1. /\ FromAxis(node, i) \in Axes /\ Factor(node, i) \in Nat \ {0} /\ Flips(node, i) \in BOOLEAN
        /\ node.move[i] \in Int
    BY AxesAre
  <2>2. d[FromAxis(node, i)] \in Int BY <2>1 DEF Axes
  <2> QED BY <2>1, <2>2, SeenAs
<1>2. 1 \in Axes /\ 2 \in Axes /\ a \in {1, 2} BY DEF Axes
<1> HIDE DEF low
<1>3. least \in Int \X Int /\ most \in Int \X Int BY <1>1, <1>2
<1>4. \A i \in Axes : low(i) <= least[i] /\ least[i] < low(i) + Factor(node, i) BY <1>1, <1>2 DEF Axes
<1>5. \A i \in Axes : low(i) <= most[i] /\ most[i] < low(i) + Factor(node, i) BY <1>1, <1>2 DEF Axes
<1>6. least[a] = low(a) /\ most[a] = high(a) BY <1>2
<1> HIDE DEF least, most
<1>7. Within(node, least) = d /\ Within(node, most) = d BY <1>3, <1>4, <1>5, CellSeen DEF low
<1> QED BY <1>3, <1>6, <1>7 DEF low

(* What reaches the bounds within the node reaches those outside.          *)
LEMMA ReachCarry ==
  ASSUME NEW node, WellFormed(node), NEW b \in Box, NEW C \in SUBSET (Int \X Int), Reaches(C, b)
  PROVE  Reaches({c \in Int \X Int : Within(node, c) \in C}, TransformBounds(b, node))
<1> DEFINE D == {c \in Int \X Int : Within(node, c) \in C}
           t == TransformBounds(b, node)
<1> SUFFICES ASSUME NEW a \in Axes
             PROVE  (\E c \in D : c[a] = t.lower[a]) /\ (\E c \in D : c[a] = t.upper[a] - 1)
  BY DEF Reaches
<1> DEFINE j == FromAxis(node, a)
           k == Factor(node, a)
           flip == Flips(node, a)
           m == node.move[a]
<1>1. j \in Axes /\ k \in Nat \ {0} /\ flip \in BOOLEAN /\ m \in Int BY AxesAre
<1>2. PICK d \in C : d[j] = b.lower[j] BY <1>1 DEF Reaches
<1>3. PICK e \in C : e[j] = b.upper[j] - 1 BY <1>1 DEF Reaches
<1>4. /\ t.lower[a] = Lowest(k, flip, m, IF flip THEN e[j] ELSE d[j])
      /\ t.upper[a] = Lowest(k, flip, m, IF flip THEN d[j] ELSE e[j]) + k
  BY <1>2, <1>3, TransformIs
<1>5. \A x \in C : /\ \E c \in D : c[a] = Lowest(k, flip, m, x[j])
                   /\ \E c \in D : c[a] = Lowest(k, flip, m, x[j]) + k - 1
  BY CellsBehind
<1>6. d \in Int \X Int /\ e \in Int \X Int BY <1>2, <1>3
<1>7. d[j] \in Int /\ e[j] \in Int BY <1>1, <1>6 DEF Axes
<1> HIDE DEF D, t, j, k, flip, m
<1>8. t.lower[a] \in Int /\ t.upper[a] \in Int /\ Lowest(k, flip, m, d[j]) \in Int /\ Lowest(k, flip, m, e[j]) \in Int
  BY <1>1, <1>4, <1>7, SeenAs
<1>9. CASE flip
  <2>1. t.lower[a] = Lowest(k, flip, m, e[j]) /\ t.upper[a] = Lowest(k, flip, m, d[j]) + k BY <1>4, <1>9
  <2>2. t.upper[a] - 1 = Lowest(k, flip, m, d[j]) + k - 1 BY <1>1, <1>8, <2>1
  <2>3. \E c \in D : c[a] = Lowest(k, flip, m, e[j]) BY <1>5
  <2>4. \E c \in D : c[a] = Lowest(k, flip, m, d[j]) + k - 1 BY <1>5
  <2> QED BY <2>1, <2>2, <2>3, <2>4
<1>10. CASE ~ flip
  <2>1. t.lower[a] = Lowest(k, flip, m, d[j]) /\ t.upper[a] = Lowest(k, flip, m, e[j]) + k BY <1>4, <1>10
  <2>2. t.upper[a] - 1 = Lowest(k, flip, m, e[j]) + k - 1 BY <1>1, <1>8, <2>1
  <2>3. \E c \in D : c[a] = Lowest(k, flip, m, d[j]) BY <1>5
  <2>4. \E c \in D : c[a] = Lowest(k, flip, m, e[j]) + k - 1 BY <1>5
  <2> QED BY <2>1, <2>2, <2>3, <2>4
<1> QED BY <1>1, <1>9, <1>10


(***************************************************************************)
(* What a node makes of the bounds and the cells of its children.          *)
(***************************************************************************)
LEMMA LeastIndex ==
  ASSUME NEW n \in Nat \ {0}, NEW g \in [1 .. n -> Int]
  PROVE  \E i \in 1 .. n : \A j \in 1 .. n : g[i] <= g[j]
<1> DEFINE S == {m \in Nat : m + 1 <= n => \E i \in 1 .. m + 1 : \A j \in 1 .. m + 1 : g[i] <= g[j]}
<1>1. 0 \in S
  <2>1. 1 \in 1 .. 0 + 1 /\ \A j \in 1 .. 0 + 1 : j = 1 /\ g[1] \in Int OBVIOUS
  <2> QED BY <2>1
<1>2. ASSUME NEW m \in Nat, m \in S PROVE m + 1 \in S
  <2> SUFFICES ASSUME (m + 1) + 1 <= n
               PROVE  \E i \in 1 .. (m + 1) + 1 : \A j \in 1 .. (m + 1) + 1 : g[i] <= g[j]
    OBVIOUS
  <2>1. PICK i \in 1 .. m + 1 : \A j \in 1 .. m + 1 : g[i] <= g[j] BY <1>2
  <2>2. \A j \in 1 .. (m + 1) + 1 : g[j] \in Int /\ (j \in 1 .. m + 1 \/ j = (m + 1) + 1) OBVIOUS
  <2>3. i \in 1 .. (m + 1) + 1 /\ (m + 1) + 1 \in 1 .. (m + 1) + 1 OBVIOUS
  <2>4. CASE g[i] <= g[(m + 1) + 1]
    <3>1. \A j \in 1 .. (m + 1) + 1 : g[i] <= g[j] BY <2>1, <2>2, <2>4
    <3> QED BY <2>3, <3>1
  <2>5. CASE ~ (g[i] <= g[(m + 1) + 1])
    <3>1. \A j \in 1 .. (m + 1) + 1 : g[(m + 1) + 1] <= g[j] BY <2>1, <2>2, <2>3, <2>5
    <3> QED BY <2>3, <3>1
  <2> QED BY <2>4, <2>5
<1> HIDE DEF S
<1>3. Nat \subseteq S BY <1>1, <1>2, SetInduction
<1>4. n - 1 \in S BY <1>3
<1>5. (n - 1) + 1 = n OBVIOUS
<1> QED BY <1>4, <1>5 DEF S

LEMMA GreatestIndex ==
  ASSUME NEW n \in Nat \ {0}, NEW g \in [1 .. n -> Int]
  PROVE  \E i \in 1 .. n : \A j \in 1 .. n : g[j] <= g[i]
<1> DEFINE h == [i \in 1 .. n |-> 0 - g[i]]
<1>1. h \in [1 .. n -> Int] OBVIOUS
<1>2. PICK i \in 1 .. n : \A j \in 1 .. n : h[i] <= h[j]
  <2> HIDE DEF h
  <2> QED BY <1>1, LeastIndex
<1>3. \A j \in 1 .. n : g[j] <= g[i] BY <1>2
<1> QED BY <1>3

LEMMA MinIs ==
  ASSUME NEW n \in Nat \ {0}, NEW g \in [1 .. n -> Int]
  PROVE  /\ Min({g[i] : i \in 1 .. n}) \in Int
         /\ \E i \in 1 .. n : Min({g[j] : j \in 1 .. n}) = g[i]
         /\ \A i \in 1 .. n : Min({g[j] : j \in 1 .. n}) <= g[i]
<1> DEFINE T == {g[i] : i \in 1 .. n}
<1>1. \E x \in T : \A y \in T : x <= y
  <2>1. PICK i \in 1 .. n : \A j \in 1 .. n : g[i] <= g[j] BY LeastIndex
  <2> QED BY <2>1
<1>2. Min(T) \in T /\ \A y \in T : Min(T) <= y
  <2> HIDE DEF T
  <2> QED BY <1>1 DEF Min
<1> QED BY <1>2

LEMMA MaxIs ==
  ASSUME NEW n \in Nat \ {0}, NEW g \in [1 .. n -> Int]
  PROVE  /\ Max({g[i] : i \in 1 .. n}) \in Int
         /\ \E i \in 1 .. n : Max({g[j] : j \in 1 .. n}) = g[i]
         /\ \A i \in 1 .. n : g[i] <= Max({g[j] : j \in 1 .. n})
<1> DEFINE T == {g[i] : i \in 1 .. n}
<1>1. \E x \in T : \A y \in T : x >= y
  <2>1. PICK i \in 1 .. n : \A j \in 1 .. n : g[j] <= g[i] BY GreatestIndex
  <2>2. \A j \in 1 .. n : g[i] >= g[j] BY <2>1
  <2> QED BY <2>2
<1>2. Max(T) \in T /\ \A y \in T : Max(T) >= y
  <2> HIDE DEF T
  <2> QED BY <1>1 DEF Max
<1>3. T \subseteq Int OBVIOUS
<1>4. \A i \in 1 .. n : g[i] \in T /\ g[i] \in Int OBVIOUS
<1>5. \E i \in 1 .. n : Max(T) = g[i] BY <1>2
<1> HIDE DEF T
<1>6. \A i \in 1 .. n : g[i] <= Max(T) BY <1>2, <1>3, <1>4
<1> QED BY <1>2, <1>3, <1>5, <1>6 DEF T

Extremes(n, bs, side) ==
  \A a \in Axes :
    /\ \E i \in 1 .. n : Least(bs, side)[a] = bs[i][side][a]
    /\ \A i \in 1 .. n : Least(bs, side)[a] <= bs[i][side][a]
    /\ \E i \in 1 .. n : Greatest(bs, side)[a] = bs[i][side][a]
    /\ \A i \in 1 .. n : bs[i][side][a] <= Greatest(bs, side)[a]

LEMMA LeastIs ==
  ASSUME NEW n \in Nat \ {0}, NEW bs \in [1 .. n -> Box], NEW side \in {"lower", "upper"}
  PROVE  /\ Least(bs, side) \in [Axes -> Int] /\ Greatest(bs, side) \in [Axes -> Int]
         /\ Extremes(n, bs, side)
<1>1. \A i \in 1 .. n : \A a \in Axes : bs[i][side][a] \in Int
  <2>1. CASE side = "lower" BY <2>1 DEF Box
  <2>2. CASE side = "upper" BY <2>2 DEF Box
  <2> QED BY <2>1, <2>2
<1>2. DOMAIN bs = 1 .. n OBVIOUS
<1>3. ASSUME NEW a \in Axes
      PROVE  /\ Least(bs, side)[a] \in Int /\ Greatest(bs, side)[a] \in Int
             /\ \E i \in 1 .. n : Least(bs, side)[a] = bs[i][side][a]
             /\ \A i \in 1 .. n : Least(bs, side)[a] <= bs[i][side][a]
             /\ \E i \in 1 .. n : Greatest(bs, side)[a] = bs[i][side][a]
             /\ \A i \in 1 .. n : bs[i][side][a] <= Greatest(bs, side)[a]
  <2> DEFINE g == [i \in 1 .. n |-> bs[i][side][a]]
  <2>1. g \in [1 .. n -> Int] BY <1>1
  <2>2. {bs[i][side][a] : i \in DOMAIN bs} = {g[i] : i \in 1 .. n} BY <1>2
  <2>3. Least(bs, side)[a] = Min({g[i] : i \in 1 .. n}) BY <2>2 DEF Least
  <2>4. Greatest(bs, side)[a] = Max({g[i] : i \in 1 .. n}) BY <2>2 DEF Greatest
  <2>5. \A i \in 1 .. n : g[i] = bs[i][side][a] OBVIOUS
  <2> HIDE DEF g
  <2>6. /\ Least(bs, side)[a] \in Int
        /\ \E i \in 1 .. n : Least(bs, side)[a] = g[i]
        /\ \A i \in 1 .. n : Least(bs, side)[a] <= g[i]
    BY <2>1, <2>3, MinIs
  <2>7. /\ Greatest(bs, side)[a] \in Int
        /\ \E i \in 1 .. n : Greatest(bs, side)[a] = g[i]
        /\ \A i \in 1 .. n : g[i] <= Greatest(bs, side)[a]
    BY <2>1, <2>4, MaxIs
  <2> QED BY <2>5, <2>6, <2>7
<1>4. /\ Least(bs, side) = [a \in Axes |-> Least(bs, side)[a]]
      /\ Greatest(bs, side) = [a \in Axes |-> Greatest(bs, side)[a]]
  BY DEF Least, Greatest
<1>5. Least(bs, side) \in [Axes -> Int] /\ Greatest(bs, side) \in [Axes -> Int] BY <1>3, <1>4
<1> QED BY <1>3, <1>5 DEF Extremes


(* The bounds and cells of a node before its transform, from those of its  *)
(* children.                                                               *)
LocalBounds(node, below) ==
  CASE node.op = "leaf" -> [lower |-> [a \in Axes |-> 0 - node.half[a]],
                            upper |-> [a \in Axes |-> node.half[a]]]
    [] node.op = "difference" -> below[1]
    [] node.op = "intersection" -> [lower |-> Greatest(below, "lower"), upper |-> Least(below, "upper")]
    [] node.op = "union" -> [lower |-> Least(below, "lower"), upper |-> Greatest(below, "upper")]

Full(node, d) == \A a \in Axes : 0 - node.half[a] <= d[a] /\ d[a] < node.half[a]
Corner(node, d) == \A a \in Axes : d[a] \in {0 - node.half[a], node.half[a] - 1}
HasCell(node, part, d) ==
  CASE node.op = "leaf" -> Full(node, d) /\ (node.round => ~ Corner(node, d))
    [] node.op = "union" -> \E i \in DOMAIN part : d \in part[i]
    [] node.op = "intersection" -> \A i \in DOMAIN part : d \in part[i]
    [] node.op = "difference" -> d \in part[1] /\ \A i \in DOMAIN part \ {1} : d \notin part[i]

(* The parts of a node: bounds bs and cells cs of its n children.          *)
Parts(node, n, bs, cs) ==
  /\ WellFormed(node) /\ n \in Nat /\ (node.op # "leaf" => n # 0)
  /\ bs \in [1 .. n -> Box] /\ cs \in [1 .. n -> SUBSET (Int \X Int)]

LEMMA LocalIsBox ==
  ASSUME NEW node, NEW n, NEW bs, NEW cs, Parts(node, n, bs, cs)
  PROVE  LocalBounds(node, bs) \in Box
<1>1. node.op \in Ops BY DEF Parts, WellFormed
<1>2. CASE node.op = "leaf"
  <2>1. \A a \in Axes : node.half[a] \in Nat BY DEF Parts, WellFormed
  <2>2. LocalBounds(node, bs) = [lower |-> [a \in Axes |-> 0 - node.half[a]],
                                 upper |-> [a \in Axes |-> node.half[a]]]
    BY <1>2 DEF LocalBounds
  <2> QED BY <2>1, <2>2 DEF Box
<1>3. ASSUME node.op # "leaf"
      PROVE  /\ n \in Nat \ {0} /\ bs \in [1 .. n -> Box] /\ 1 \in 1 .. n
             /\ \A side \in {"lower", "upper"} :
                  Least(bs, side) \in [Axes -> Int] /\ Greatest(bs, side) \in [Axes -> Int]
  <2>1. n \in Nat \ {0} /\ bs \in [1 .. n -> Box] BY <1>3 DEF Parts
  <2> QED BY <2>1, LeastIs
<1>4. CASE node.op = "difference" BY <1>3, <1>4 DEF LocalBounds
<1>5. CASE node.op = "intersection" BY <1>3, <1>5 DEF LocalBounds, Box
<1>6. CASE node.op = "union" BY <1>3, <1>6 DEF LocalBounds, Box
<1> QED BY <1>1, <1>2, <1>4, <1>5, <1>6 DEF Ops

LEMMA LocalIsSound ==
  ASSUME NEW node, NEW n, NEW bs, NEW cs, Parts(node, n, bs, cs),
         \A i \in 1 .. n : \A d \in cs[i] : InBox(bs[i], d),
         NEW d \in Int \X Int, HasCell(node, cs, d)
  PROVE  InBox(LocalBounds(node, bs), d)
<1>1. node.op \in Ops /\ DOMAIN cs = 1 .. n BY DEF Parts, WellFormed
<1>2. CASE node.op = "leaf"
  <2>1. LocalBounds(node, bs) = [lower |-> [a \in Axes |-> 0 - node.half[a]],
                                 upper |-> [a \in Axes |-> node.half[a]]]
    BY <1>2 DEF LocalBounds
  <2>2. Full(node, d) BY <1>2 DEF HasCell
  <2> QED BY <2>1, <2>2 DEF InBox, Full
<1>3. ASSUME node.op # "leaf"
      PROVE  /\ n \in Nat \ {0} /\ bs \in [1 .. n -> Box] /\ 1 \in 1 .. n
             /\ \A side \in {"lower", "upper"} : \A a \in Axes :
                  /\ Least(bs, side)[a] \in Int /\ Greatest(bs, side)[a] \in Int
                  /\ \E i \in 1 .. n : Least(bs, side)[a] = bs[i][side][a]
                  /\ \A i \in 1 .. n : Least(bs, side)[a] <= bs[i][side][a]
                  /\ \E i \in 1 .. n : Greatest(bs, side)[a] = bs[i][side][a]
                  /\ \A i \in 1 .. n : bs[i][side][a] <= Greatest(bs, side)[a]
  <2>1. n \in Nat \ {0} /\ bs \in [1 .. n -> Box] BY <1>3 DEF Parts
  <2>2. ASSUME NEW side \in {"lower", "upper"}, NEW a \in Axes
        PROVE  /\ Least(bs, side)[a] \in Int /\ Greatest(bs, side)[a] \in Int
               /\ \E i \in 1 .. n : Least(bs, side)[a] = bs[i][side][a]
               /\ \A i \in 1 .. n : Least(bs, side)[a] <= bs[i][side][a]
               /\ \E i \in 1 .. n : Greatest(bs, side)[a] = bs[i][side][a]
               /\ \A i \in 1 .. n : bs[i][side][a] <= Greatest(bs, side)[a]
    <3>1. /\ Least(bs, side) \in [Axes -> Int] /\ Greatest(bs, side) \in [Axes -> Int]
          /\ Extremes(n, bs, side)
      BY <2>1, LeastIs
    <3> QED BY <3>1 DEF Extremes
  <2>3. 1 \in 1 .. n BY <2>1
  <2> QED BY <2>1, <2>2, <2>3
<1>4. \A a \in Axes : d[a] \in Int BY DEF Axes
<1>5. \A i \in 1 .. n : \A a \in Axes :
        d \in cs[i] => bs[i].lower[a] <= d[a] /\ d[a] < bs[i].upper[a]
  BY DEF InBox
<1>6. \A i \in 1 .. n : \A a \in Axes : bs[i].lower[a] \in Int /\ bs[i].upper[a] \in Int
  BY DEF Parts, Box
<1>7. CASE node.op = "difference"
  <2>1. d \in cs[1] BY <1>7 DEF HasCell
  <2>2. LocalBounds(node, bs) = bs[1] BY <1>7 DEF LocalBounds
  <2> QED BY <1>3, <1>7, <2>1, <2>2
<1>8. CASE node.op = "intersection"
  <2>1. \A i \in 1 .. n : d \in cs[i] BY <1>1, <1>8 DEF HasCell
  <2>2. LocalBounds(node, bs) = [lower |-> Greatest(bs, "lower"), upper |-> Least(bs, "upper")]
    BY <1>8 DEF LocalBounds
  <2>3. ASSUME NEW a \in Axes PROVE Greatest(bs, "lower")[a] <= d[a] /\ d[a] < Least(bs, "upper")[a]
    <3>1. PICK i \in 1 .. n : Greatest(bs, "lower")[a] = bs[i].lower[a] BY <1>3, <1>8
    <3>2. PICK j \in 1 .. n : Least(bs, "upper")[a] = bs[j].upper[a] BY <1>3, <1>8
    <3> QED BY <1>5, <2>1, <3>1, <3>2
  <2> QED BY <2>2, <2>3 DEF InBox
<1>9. CASE node.op = "union"
  <2>1. PICK i \in 1 .. n : d \in cs[i] BY <1>1, <1>9 DEF HasCell
  <2>2. LocalBounds(node, bs) = [lower |-> Least(bs, "lower"), upper |-> Greatest(bs, "upper")]
    BY <1>9 DEF LocalBounds
  <2>3. ASSUME NEW a \in Axes PROVE Least(bs, "lower")[a] <= d[a] /\ d[a] < Greatest(bs, "upper")[a]
    <3>1. bs[i].lower[a] <= d[a] /\ d[a] < bs[i].upper[a] BY <1>5, <2>1
    <3>2. /\ Least(bs, "lower")[a] <= bs[i].lower[a] /\ bs[i].upper[a] <= Greatest(bs, "upper")[a]
          /\ Least(bs, "lower")[a] \in Int /\ Greatest(bs, "upper")[a] \in Int
      BY <1>3, <1>9
    <3> QED BY <1>4, <1>6, <3>1, <3>2
  <2> QED BY <2>2, <2>3 DEF InBox
<1> QED BY <1>1, <1>2, <1>7, <1>8, <1>9 DEF Ops

LEMMA LeafReaches ==
  ASSUME NEW node, WellFormed(node), node.op = "leaf", NEW bs, NEW cs
  PROVE  Reaches({d \in Int \X Int : HasCell(node, cs, d)}, LocalBounds(node, bs))
<1> DEFINE C == {d \in Int \X Int : HasCell(node, cs, d)}
           h == node.half
<1>1. LocalBounds(node, bs) = [lower |-> [a \in Axes |-> 0 - h[a]], upper |-> [a \in Axes |-> h[a]]]
  BY DEF LocalBounds
<1>2. /\ h[1] \in Nat /\ h[1] > 0 /\ h[2] \in Nat /\ h[2] > 0
      /\ node.round => h[1] > 1 /\ h[2] > 1
  BY DEF WellFormed, Axes
<1>3. ASSUME NEW x \in Int, NEW y \in Int, 0 - h[1] <= x, x < h[1], 0 - h[2] <= y, y < h[2], x = 0 \/ y = 0
      PROVE  <<x, y>> \in C
  <2> DEFINE d == <<x, y>>
  <2>1. d[1] = x /\ d[2] = y /\ d \in Int \X Int OBVIOUS
  <2> HIDE DEF d
  <2>2. Full(node, d) BY <1>3, <2>1 DEF Full, Axes
  <2>3. node.round => ~ Corner(node, d) BY <1>2, <1>3, <2>1 DEF Corner, Axes
  <2>4. HasCell(node, cs, d) BY <2>2, <2>3 DEF HasCell
  <2> QED BY <2>1, <2>4 DEF d
<1>4. <<0 - h[1], 0>> \in C /\ <<h[1] - 1, 0>> \in C /\ <<0, 0 - h[2]>> \in C /\ <<0, h[2] - 1>> \in C
  <2>1. /\ 0 - h[1] \in Int /\ h[1] - 1 \in Int /\ 0 - h[2] \in Int /\ h[2] - 1 \in Int
        /\ 0 - h[1] <= 0 - h[1] /\ 0 - h[1] < h[1] /\ 0 - h[1] <= h[1] - 1 /\ h[1] - 1 < h[1]
        /\ 0 - h[2] <= 0 - h[2] /\ 0 - h[2] < h[2] /\ 0 - h[2] <= h[2] - 1 /\ h[2] - 1 < h[2]
        /\ 0 - h[1] <= 0 /\ 0 < h[1] /\ 0 - h[2] <= 0 /\ 0 < h[2]
    BY <1>2
  <2> HIDE DEF C, h
  <2> QED BY <1>3, <2>1
<1> SUFFICES ASSUME NEW a \in Axes
             PROVE  (\E d \in C : d[a] = 0 - h[a]) /\ (\E d \in C : d[a] = h[a] - 1)
  BY <1>1 DEF Reaches
<1> HIDE DEF C, h
<1>5. CASE a = 1 BY <1>4, <1>5
<1>6. CASE a = 2 BY <1>4, <1>6
<1> QED BY <1>5, <1>6 DEF Axes

LEMMA UnionReaches ==
  ASSUME NEW node, NEW n, NEW bs, NEW cs, Parts(node, n, bs, cs), node.op = "union",
         \A i \in 1 .. n : Reaches(cs[i], bs[i])
  PROVE  Reaches({d \in Int \X Int : HasCell(node, cs, d)}, LocalBounds(node, bs))
<1> DEFINE C == {d \in Int \X Int : HasCell(node, cs, d)}
<1>1. /\ n \in Nat \ {0} /\ bs \in [1 .. n -> Box] /\ DOMAIN cs = 1 .. n
      /\ \A i \in 1 .. n : cs[i] \subseteq Int \X Int
  BY DEF Parts
<1>2. \A i \in 1 .. n : cs[i] \subseteq C BY <1>1 DEF HasCell
<1>3. LocalBounds(node, bs) = [lower |-> Least(bs, "lower"), upper |-> Greatest(bs, "upper")]
  BY DEF LocalBounds
<1> SUFFICES ASSUME NEW a \in Axes
             PROVE  /\ \E d \in C : d[a] = Least(bs, "lower")[a]
                    /\ \E d \in C : d[a] = Greatest(bs, "upper")[a] - 1
  BY <1>3 DEF Reaches
<1>4. PICK i \in 1 .. n : Least(bs, "lower")[a] = bs[i].lower[a] BY <1>1, LeastIs DEF Extremes
<1>5. PICK j \in 1 .. n : Greatest(bs, "upper")[a] = bs[j].upper[a] BY <1>1, LeastIs DEF Extremes
<1>6. \E d \in cs[i] : d[a] = bs[i].lower[a] BY DEF Reaches
<1>7. \E d \in cs[j] : d[a] = bs[j].upper[a] - 1 BY DEF Reaches
<1> HIDE DEF C
<1> QED BY <1>2, <1>4, <1>5, <1>6, <1>7


(***************************************************************************)
(* The functions on nodes that are defined by recursion, of nodes that are *)
(* grounded: every way down ends.                                          *)
(***************************************************************************)
Below(nodes) == [id \in KnownIds(nodes) |-> ToSet(ChildrenOf(nodes, id))]

Grounded(nodes) ==
  /\ nodes \in Seq(ToSet(nodes)) /\ \A i \in 1 .. Len(nodes) : WellFormed(nodes[i])
  /\ \A id \in KnownIds(nodes) : NodeOf(nodes, id).op # "leaf" => ChildrenOf(nodes, id) # << >>
  /\ \E limit \in Nat : \E rank : /\ Ranked(KnownIds(nodes), rank, Below(nodes))
                                  /\ \A id \in KnownIds(nodes) : rank[id] < limit

Width(nodes, id) == Len(ChildrenOf(nodes, id))
OfChildren(f, nodes, id) == [i \in 1 .. Width(nodes, id) |-> f[ChildrenOf(nodes, id)[i]]]

LEMMA GroundedNode ==
  ASSUME NEW nodes, Grounded(nodes), NEW id \in KnownIds(nodes)
  PROVE  /\ WellFormed(NodeOf(nodes, id)) /\ Width(nodes, id) \in Nat
         /\ NodeOf(nodes, id).op # "leaf" => Width(nodes, id) # 0
         /\ NodeOf(nodes, id).children = ChildrenOf(nodes, id)
         /\ DOMAIN ChildrenOf(nodes, id) = 1 .. Width(nodes, id)
         /\ Below(nodes)[id] = {ChildrenOf(nodes, id)[i] : i \in 1 .. Width(nodes, id)}
         /\ Below(nodes)[id] \subseteq KnownIds(nodes)
<1>1. /\ WellFormed(NodeOf(nodes, id)) /\ Width(nodes, id) \in Nat
      /\ ChildrenOf(nodes, id) \in Seq(ToSet(ChildrenOf(nodes, id)))
      /\ DOMAIN ChildrenOf(nodes, id) = 1 .. Width(nodes, id)
  BY NodeIs DEF Grounded, Width
<1>2. NodeOf(nodes, id).op # "leaf" => Width(nodes, id) # 0 BY <1>1 DEF Grounded, Width
<1>3. NodeOf(nodes, id).children = ChildrenOf(nodes, id) BY DEF ChildrenOf
<1>4. Below(nodes)[id] = ToSet(ChildrenOf(nodes, id)) BY DEF Below
<1>5. ToSet(ChildrenOf(nodes, id)) = {ChildrenOf(nodes, id)[i] : i \in 1 .. Width(nodes, id)}
  BY <1>1 DEF ToSet
<1>6. Below(nodes)[id] \subseteq KnownIds(nodes) BY DEF Grounded, Ranked
<1> QED BY <1>1, <1>2, <1>3, <1>4, <1>5, <1>6

(* Of grounded nodes what holds if it holds of the children holds of all.  *)
LEMMA GroundedInduction ==
  ASSUME NEW nodes, Grounded(nodes), NEW T,
         \A id \in KnownIds(nodes) :
           (\A i \in 1 .. Width(nodes, id) : ChildrenOf(nodes, id)[i] \in T) => id \in T
  PROVE  KnownIds(nodes) \subseteq T
<1>1. PICK rank : Ranked(KnownIds(nodes), rank, Below(nodes)) BY DEF Grounded
<1>2. \A id \in KnownIds(nodes) : Below(nodes)[id] \subseteq T => id \in T BY GroundedNode
<1> QED BY <1>1, <1>2, RankInduction

(* Whatever step is made from the values of the children, there is a       *)
(* function that makes it at each node.                                    *)
LooksAtChildren(step, nodes, X) ==
  /\ step \in [KnownIds(nodes) \X [KnownIds(nodes) -> X] -> X]
  /\ \A id \in KnownIds(nodes) : \A g, h \in [KnownIds(nodes) -> X] :
       OfChildren(g, nodes, id) = OfChildren(h, nodes, id) => step[<<id, g>>] = step[<<id, h>>]

LEMMA GroundedRecursion ==
  ASSUME NEW nodes, Grounded(nodes), NEW X, X # {}, NEW step, LooksAtChildren(step, nodes, X)
  PROVE  Defines(step, KnownIds(nodes), X)
<1> DEFINE K == KnownIds(nodes)
<1>0. PICK limit \in Nat : \E rank : /\ Ranked(K, rank, Below(nodes))
                                      /\ \A id \in K : rank[id] < limit
  BY DEF Grounded
<1>1. PICK rank : Ranked(K, rank, Below(nodes)) /\ \A id \in K : rank[id] < limit BY <1>0
<1>2. ASSUME NEW id \in K, NEW g \in [K -> X], NEW h \in [K -> X],
             \A y \in Below(nodes)[id] : g[y] = h[y]
      PROVE  step[<<id, g>>] = step[<<id, h>>]
  <2>1. \A i \in 1 .. Width(nodes, id) : g[ChildrenOf(nodes, id)[i]] = h[ChildrenOf(nodes, id)[i]]
    BY <1>2, GroundedNode
  <2>2. OfChildren(g, nodes, id) = OfChildren(h, nodes, id) BY <2>1 DEF OfChildren
  <2> QED BY <2>2 DEF LooksAtChildren
<1> HIDE DEF K
<1>3. Defines(step, K, X)
  <2>1. LooksBelow(step, K, X, Below(nodes)) BY <1>2 DEF LooksBelow, LooksAtChildren, K
  <2> QED BY <1>0, <1>1, <2>1, RankRecursion
<1> QED BY <1>3 DEF K

BoundsStep(nodes, f, id) == BoundsOf(NodeOf(nodes, id), OfChildren(f, nodes, id))

LEMMA BoundsInBox ==
  ASSUME NEW nodes, Grounded(nodes), NEW id \in KnownIds(nodes), NEW bs \in [1 .. Width(nodes, id) -> Box]
  PROVE  /\ BoundsOf(NodeOf(nodes, id), bs) = TransformBounds(LocalBounds(NodeOf(nodes, id), bs), NodeOf(nodes, id))
         /\ LocalBounds(NodeOf(nodes, id), bs) \in Box /\ BoundsOf(NodeOf(nodes, id), bs) \in Box
<1> DEFINE node == NodeOf(nodes, id)
           n == Width(nodes, id)
           cs == [i \in 1 .. n |-> {}]
<1>1. BoundsOf(node, bs) = TransformBounds(LocalBounds(node, bs), node) BY DEF BoundsOf, LocalBounds
<1>2. Parts(node, n, bs, cs) BY GroundedNode DEF Parts
<1> HIDE DEF node, n, cs
<1>3. LocalBounds(node, bs) \in Box BY <1>2, LocalIsBox
<1>4. WellFormed(node) BY <1>2 DEF Parts
<1>5. TransformBounds(LocalBounds(node, bs), node) \in Box BY <1>3, <1>4, TransformIs
<1> QED BY <1>1, <1>3, <1>5 DEF node

LEMMA BoundsAre ==
  ASSUME NEW nodes, Grounded(nodes)
  PROVE  \A id \in KnownIds(nodes) :
           /\ NodeBounds(nodes)[id] = BoundsStep(nodes, NodeBounds(nodes), id)
           /\ NodeBounds(nodes)[id] \in Box
<1> DEFINE K == KnownIds(nodes)
           IsBounds(f) == f = [id \in KnownIds(nodes) |->
                                 BoundsOf(NodeOf(nodes, id), [i \in DOMAIN ChildrenOf(nodes, id) |->
                                                                f[ChildrenOf(nodes, id)[i]]])]
           step == [x \in K \X [K -> Box] |-> BoundsStep(nodes, x[2], x[1])]
<1>1. \A f, id : id \in K =>
        [i \in DOMAIN ChildrenOf(nodes, id) |-> f[ChildrenOf(nodes, id)[i]]] = OfChildren(f, nodes, id)
  BY GroundedNode DEF OfChildren
<1>2. \A f : IsBounds(f) <=> f = [id \in K |-> BoundsStep(nodes, f, id)]
  BY <1>1 DEF BoundsStep
<1>3. ASSUME NEW id \in K, NEW g, \A i \in 1 .. Width(nodes, id) : g[ChildrenOf(nodes, id)[i]] \in Box
      PROVE  BoundsStep(nodes, g, id) \in Box
  <2>1. OfChildren(g, nodes, id) \in [1 .. Width(nodes, id) -> Box] BY <1>3 DEF OfChildren
  <2> QED BY <2>1, BoundsInBox DEF BoundsStep
<1>4. ASSUME NEW id \in K, NEW g \in [K -> Box] PROVE BoundsStep(nodes, g, id) \in Box
  <2>1. \A i \in 1 .. Width(nodes, id) : ChildrenOf(nodes, id)[i] \in K BY GroundedNode
  <2> QED BY <1>3, <2>1
<1>5. step \in [K \X [K -> Box] -> Box] BY <1>4
<1>6. [lower |-> [a \in Axes |-> 0], upper |-> [a \in Axes |-> 0]] \in Box BY DEF Box
<1>7. \A id \in K : \A g, h \in [K -> Box] :
        OfChildren(g, nodes, id) = OfChildren(h, nodes, id) => step[<<id, g>>] = step[<<id, h>>]
  BY DEF BoundsStep
<1>8. PICK f \in [K -> Box] : \A id \in K : f[id] = step[<<id, f>>]
  <2> HIDE DEF step
  <2>1. Box # {} BY <1>6
  <2>2. LooksAtChildren(step, nodes, Box) BY <1>5, <1>7 DEF LooksAtChildren
  <2>3. Defines(step, K, Box) BY <2>1, <2>2, GroundedRecursion
  <2> QED BY <2>3 DEF Defines
<1>9. \A id \in K : f[id] = BoundsStep(nodes, f, id) BY <1>8
<1>10. f = [id \in K |-> BoundsStep(nodes, f, id)] BY <1>8, <1>9
<1>11. IsBounds(f) BY <1>2, <1>10
<1>12. NodeBounds(nodes) = CHOOSE g : IsBounds(g) BY DEF NodeBounds
<1> DEFINE B == NodeBounds(nodes)
<1>13. IsBounds(B)
  <2> HIDE DEF IsBounds, B
  <2>1. IsBounds(CHOOSE g : IsBounds(g)) BY <1>11
  <2> QED BY <1>12, <2>1 DEF B
<1>14. B = [id \in K |-> BoundsStep(nodes, B, id)] BY <1>2, <1>13
<1> HIDE DEF B
<1>15. \A id \in K : B[id] = BoundsStep(nodes, B, id) BY <1>14
<1>16. K \subseteq {id \in K : B[id] \in Box}
  <2> DEFINE T == {id \in K : B[id] \in Box}
  <2>1. \A id \in K : (\A i \in 1 .. Width(nodes, id) : ChildrenOf(nodes, id)[i] \in T) => id \in T
    BY <1>3, <1>15
  <2> HIDE DEF T
  <2>2. K \subseteq T BY <2>1, GroundedInduction
  <2> QED BY <2>2 DEF T
<1> QED BY <1>15, <1>16 DEF B


SolidStep(nodes, f, id) ==
  {c \in Int \X Int : HasCell(NodeOf(nodes, id), OfChildren(f, nodes, id), Within(NodeOf(nodes, id), c))}

LEMMA SolidAre ==
  ASSUME NEW nodes, Grounded(nodes)
  PROVE  \A id \in KnownIds(nodes) :
           /\ Solid(nodes)[id] = SolidStep(nodes, Solid(nodes), id)
           /\ Solid(nodes)[id] \subseteq Int \X Int
<1> DEFINE K == KnownIds(nodes)
           X == SUBSET (Int \X Int)
           Part(f, id) == [i \in DOMAIN NodeOf(nodes, id).children |-> f[NodeOf(nodes, id).children[i]]]
           Cell(f, id, d) == HasCell(NodeOf(nodes, id), Part(f, id), d)
           Solving(f) == f = [id \in KnownIds(nodes) |->
                             {c \in Int \X Int : Cell(f, id, Within(NodeOf(nodes, id), c))}]
           step == [x \in K \X [K -> X] |-> SolidStep(nodes, x[2], x[1])]
<1>1. \A f, id : id \in K => Part(f, id) = OfChildren(f, nodes, id) BY GroundedNode DEF OfChildren
<1>2. \A f : Solving(f) <=> f = [id \in K |-> SolidStep(nodes, f, id)] BY <1>1 DEF SolidStep
<1>3. step \in [K \X [K -> X] -> X] BY DEF SolidStep
<1>4. LooksAtChildren(step, nodes, X)
  <2>1. \A id \in K : \A g, h \in [K -> X] :
          OfChildren(g, nodes, id) = OfChildren(h, nodes, id) => step[<<id, g>>] = step[<<id, h>>]
    BY DEF SolidStep
  <2> HIDE DEF step
  <2> QED BY <1>3, <2>1 DEF LooksAtChildren
<1>5. PICK f \in [K -> X] : \A id \in K : f[id] = step[<<id, f>>]
  <2> HIDE DEF step, X
  <2>1. X # {} BY DEF X
  <2>2. Defines(step, K, X) BY <1>4, <2>1, GroundedRecursion
  <2> QED BY <2>2 DEF Defines
<1>6. \A id \in K : f[id] = SolidStep(nodes, f, id) BY <1>5
<1>7. f = [id \in K |-> SolidStep(nodes, f, id)] BY <1>5, <1>6
<1>8. Solving(f) BY <1>2, <1>7
<1>9. Solid(nodes) = CHOOSE g : Solving(g) BY DEF Solid, HasCell, Full, Corner
<1> DEFINE S == Solid(nodes)
<1>10. Solving(S)
  <2> HIDE DEF Solving, S
  <2>1. Solving(CHOOSE g : Solving(g)) BY <1>8
  <2> QED BY <1>9, <2>1 DEF S
<1>11. S = [id \in K |-> SolidStep(nodes, S, id)] BY <1>2, <1>10
<1> HIDE DEF S
<1>12. \A id \in K : S[id] = SolidStep(nodes, S, id) BY <1>11
<1>13. \A id \in K : S[id] \subseteq Int \X Int BY <1>12 DEF SolidStep
<1> QED BY <1>12, <1>13 DEF S

ExactStep(nodes, f, id) ==
  \/ NodeOf(nodes, id).op = "leaf"
  \/ /\ NodeOf(nodes, id).op = "union"
     /\ \A i \in 1 .. Width(nodes, id) : OfChildren(f, nodes, id)[i]

LEMMA ExactAre ==
  ASSUME NEW nodes, Grounded(nodes), NEW id \in KnownIds(nodes), Exact(nodes)[id]
  PROVE  \/ NodeOf(nodes, id).op = "leaf"
         \/ /\ NodeOf(nodes, id).op = "union"
            /\ \A i \in 1 .. Width(nodes, id) : Exact(nodes)[ChildrenOf(nodes, id)[i]]
<1> DEFINE K == KnownIds(nodes)
           Told(f, x) == \/ NodeOf(nodes, x).op = "leaf"
                         \/ /\ NodeOf(nodes, x).op = "union"
                            /\ \A c \in ToSet(NodeOf(nodes, x).children) : f[c]
           Solving(f) == f = [x \in KnownIds(nodes) |-> Told(f, x)]
           step == [x \in K \X [K -> BOOLEAN] |-> ExactStep(nodes, x[2], x[1])]
<1>1. ASSUME NEW f, NEW x \in K PROVE Told(f, x) <=> ExactStep(nodes, f, x)
  <2>1. /\ NodeOf(nodes, x).children = ChildrenOf(nodes, x)
        /\ ToSet(ChildrenOf(nodes, x)) = {ChildrenOf(nodes, x)[i] : i \in 1 .. Width(nodes, x)}
    BY GroundedNode DEF Below
  <2>2. \A i \in 1 .. Width(nodes, x) : OfChildren(f, nodes, x)[i] = f[ChildrenOf(nodes, x)[i]]
    BY DEF OfChildren
  <2> QED BY <2>1, <2>2 DEF ExactStep
<1>2. \A f, x : ExactStep(nodes, f, x) \in BOOLEAN /\ Told(f, x) \in BOOLEAN BY DEF ExactStep
<1>3. \A f : Solving(f) <=> f = [x \in K |-> ExactStep(nodes, f, x)]
  <2> SUFFICES ASSUME NEW f PROVE [x \in K |-> Told(f, x)] = [x \in K |-> ExactStep(nodes, f, x)] OBVIOUS
  <2>1. \A x \in K : Told(f, x) = ExactStep(nodes, f, x) BY <1>1, <1>2
  <2> HIDE DEF Told
  <2> QED BY <2>1, Zenon
<1>4. step \in [K \X [K -> BOOLEAN] -> BOOLEAN] BY <1>2
<1>5. LooksAtChildren(step, nodes, BOOLEAN)
  <2>1. \A x \in K : \A g, h \in [K -> BOOLEAN] :
          OfChildren(g, nodes, x) = OfChildren(h, nodes, x) => step[<<x, g>>] = step[<<x, h>>]
    BY DEF ExactStep
  <2> HIDE DEF step
  <2> QED BY <1>4, <2>1 DEF LooksAtChildren
<1>6. PICK f \in [K -> BOOLEAN] : \A x \in K : f[x] = step[<<x, f>>]
  <2> HIDE DEF step
  <2>1. Defines(step, K, BOOLEAN) BY <1>5, GroundedRecursion
  <2> QED BY <2>1 DEF Defines
<1>7. \A x \in K : f[x] = ExactStep(nodes, f, x) BY <1>6
<1>8. f = [x \in K |-> ExactStep(nodes, f, x)] BY <1>6, <1>7
<1>9. Solving(f) BY <1>3, <1>8
<1>10. Exact(nodes) = CHOOSE g : Solving(g) BY DEF Exact
<1> DEFINE E == Exact(nodes)
<1>11. Solving(E)
  <2> HIDE DEF Solving, E
  <2>1. Solving(CHOOSE g : Solving(g)) BY <1>9
  <2> QED BY <1>10, <2>1 DEF E
<1>12. E = [x \in K |-> Told(E, x)] BY <1>11
<1> HIDE DEF E
<1>13. Told(E, id) BY <1>12 DEF E
<1>14. ExactStep(nodes, E, id) BY <1>1, <1>13
<1>15. \A i \in 1 .. Width(nodes, id) : OfChildren(E, nodes, id)[i] = E[ChildrenOf(nodes, id)[i]]
  BY DEF OfChildren
<1> QED BY <1>14, <1>15 DEF ExactStep, E


(***************************************************************************)
(* The bounds of every node are those of its solid.                        *)
(***************************************************************************)
LEMMA NodeParts ==
  ASSUME NEW nodes, Grounded(nodes), NEW id \in KnownIds(nodes)
  PROVE  Parts(NodeOf(nodes, id), Width(nodes, id), OfChildren(NodeBounds(nodes), nodes, id),
               OfChildren(Solid(nodes), nodes, id))
<1> DEFINE ch(i) == ChildrenOf(nodes, id)[i]
<1>1. \A i \in 1 .. Width(nodes, id) : ch(i) \in KnownIds(nodes) BY GroundedNode
<1>2. \A i \in 1 .. Width(nodes, id) : NodeBounds(nodes)[ch(i)] \in Box /\ Solid(nodes)[ch(i)] \in SUBSET (Int \X Int)
  BY <1>1, BoundsAre, SolidAre
<1>3. /\ OfChildren(NodeBounds(nodes), nodes, id) \in [1 .. Width(nodes, id) -> Box]
      /\ OfChildren(Solid(nodes), nodes, id) \in [1 .. Width(nodes, id) -> SUBSET (Int \X Int)]
  BY <1>2 DEF OfChildren
<1> QED BY <1>3, GroundedNode DEF Parts

LEMMA SolidInBounds ==
  ASSUME NEW nodes, Grounded(nodes)
  PROVE  \A id \in KnownIds(nodes) : \A c \in Solid(nodes)[id] : InBox(NodeBounds(nodes)[id], c)
<1> DEFINE B == NodeBounds(nodes)
           S == Solid(nodes)
           T == {id \in KnownIds(nodes) : \A c \in S[id] : InBox(B[id], c)}
<1>1. ASSUME NEW id \in KnownIds(nodes), \A i \in 1 .. Width(nodes, id) : ChildrenOf(nodes, id)[i] \in T
      PROVE  id \in T
  <2> DEFINE node == NodeOf(nodes, id)
             n == Width(nodes, id)
             bs == OfChildren(B, nodes, id)
             cs == OfChildren(S, nodes, id)
  <2>1. Parts(node, n, bs, cs) BY NodeParts
  <2>2. \A i \in 1 .. n : \A d \in cs[i] : InBox(bs[i], d) BY <1>1 DEF OfChildren
  <2>3. WellFormed(node) BY <2>1 DEF Parts
  <2>4. bs \in [1 .. n -> Box] BY <2>1 DEF Parts
  <2>5. B[id] = BoundsOf(node, bs) BY BoundsAre DEF BoundsStep
  <2>6. /\ BoundsOf(node, bs) = TransformBounds(LocalBounds(node, bs), node)
        /\ LocalBounds(node, bs) \in Box
    <3> HIDE DEF bs
    <3> QED BY <2>4, BoundsInBox
  <2>7. S[id] = {c \in Int \X Int : HasCell(node, cs, Within(node, c))} BY SolidAre DEF SolidStep
  <2> HIDE DEF B, S, node, n, bs, cs
  <2>8. ASSUME NEW c \in S[id] PROVE InBox(B[id], c)
    <3>1. c \in Int \X Int /\ HasCell(node, cs, Within(node, c)) BY <2>7
    <3>2. Within(node, c) \in Int \X Int BY <2>3, <3>1, WithinIs
    <3>3. InBox(LocalBounds(node, bs), Within(node, c)) BY <2>1, <2>2, <3>1, <3>2, LocalIsSound
    <3>4. InBox(TransformBounds(LocalBounds(node, bs), node), c) BY <2>3, <2>6, <3>1, <3>3, BoundsCarry
    <3> QED BY <2>5, <2>6, <3>4
  <2> QED BY <2>8
<1> HIDE DEF T
<1>2. KnownIds(nodes) \subseteq T BY <1>1, GroundedInduction
<1> QED BY <1>2 DEF T

LEMMA SolidReachesBounds ==
  ASSUME NEW nodes, Grounded(nodes)
  PROVE  \A id \in KnownIds(nodes) : Exact(nodes)[id] => Reaches(Solid(nodes)[id], NodeBounds(nodes)[id])
<1> DEFINE B == NodeBounds(nodes)
           S == Solid(nodes)
           E == Exact(nodes)
           T == {id \in KnownIds(nodes) : E[id] => Reaches(S[id], B[id])}
<1>1. ASSUME NEW id \in KnownIds(nodes), \A i \in 1 .. Width(nodes, id) : ChildrenOf(nodes, id)[i] \in T
      PROVE  id \in T
  <2> SUFFICES ASSUME E[id] PROVE Reaches(S[id], B[id]) OBVIOUS
  <2> DEFINE node == NodeOf(nodes, id)
             n == Width(nodes, id)
             bs == OfChildren(B, nodes, id)
             cs == OfChildren(S, nodes, id)
             C == {d \in Int \X Int : HasCell(node, cs, d)}
  <2>1. Parts(node, n, bs, cs) BY NodeParts
  <2>2. node.op = "leaf" \/ (node.op = "union" /\ \A i \in 1 .. n : E[ChildrenOf(nodes, id)[i]])
    BY ExactAre
  <2>3. WellFormed(node) BY <2>1 DEF Parts
  <2>4. bs \in [1 .. n -> Box] BY <2>1 DEF Parts
  <2>5. B[id] = BoundsOf(node, bs) BY BoundsAre DEF BoundsStep
  <2>6. /\ BoundsOf(node, bs) = TransformBounds(LocalBounds(node, bs), node)
        /\ LocalBounds(node, bs) \in Box
    <3> HIDE DEF bs
    <3> QED BY <2>4, BoundsInBox
  <2>7. S[id] = {c \in Int \X Int : HasCell(node, cs, Within(node, c))} BY SolidAre DEF SolidStep
  <2>8. (\A i \in 1 .. n : E[ChildrenOf(nodes, id)[i]]) => \A i \in 1 .. n : Reaches(cs[i], bs[i])
    BY <1>1 DEF OfChildren
  <2> HIDE DEF B, S, E, node, n, bs, cs
  <2>9. Reaches(C, LocalBounds(node, bs))
    <3>1. CASE node.op = "leaf" BY <2>3, <3>1, LeafReaches
    <3>2. CASE node.op = "union" BY <2>1, <2>2, <2>8, <3>2, UnionReaches
    <3> QED BY <2>2, <3>1, <3>2
  <2>10. C \in SUBSET (Int \X Int) OBVIOUS
  <2>11. S[id] = {c \in Int \X Int : Within(node, c) \in C} BY <2>3, <2>7, WithinIs
  <2> HIDE DEF C
  <2>12. Reaches({c \in Int \X Int : Within(node, c) \in C}, TransformBounds(LocalBounds(node, bs), node))
    BY <2>3, <2>6, <2>9, <2>10, ReachCarry
  <2> QED BY <2>5, <2>6, <2>11, <2>12
<1> HIDE DEF T
<1>2. KnownIds(nodes) \subseteq T BY <1>1, GroundedInduction
<1> QED BY <1>2 DEF T


LEMMA SafeIsGrounded ==
  ASSUME NEW p, NEW limit \in Nat \ {0}, NEW w, Ended(p, limit, w), GeometryIsSafe(Faults(p, w))
  PROVE  Grounded(p.nodes)
<1> DEFINE f == Faults(p, w)
           K == KnownIds(p.nodes)
           m == IF f.root_has_parent THEN Cardinality(K) ELSE limit
<1>1. /\ w.cycle \in BOOLEAN /\ w.tooDeep \in BOOLEAN
      /\ p.nodes \in Seq(ToSet(p.nodes)) /\ \A i \in 1 .. Len(p.nodes) : WellFormed(p.nodes[i])
      /\ Cardinality(K) \in Nat
  BY EndedWalk
<1>2. m \in Nat BY <1>1
<1>3. PICK level \in [K -> 1 .. m] :
        \A id \in K : \A c \in ToSet(ChildrenOf(p.nodes, id)) : c \in K /\ level[c] > level[id]
  <2> HIDE DEF f, K
  <2>1. f = Faults(p, w) /\ K = KnownIds(p.nodes) BY DEF f, K
  <2>2. GeometryIsSafe(f) BY DEF f
  <2> QED BY <2>1, <2>2, SafeEnds
<1> DEFINE rank == [id \in K |-> m - level[id]]
<1>4. \A id \in K : level[id] \in 1 .. m BY <1>3
<1>5. \A id \in KnownIds(p.nodes) : NodeOf(p.nodes, id).op # "leaf" => ChildrenOf(p.nodes, id) # << >>
  <2>1. ~ f.empty_group BY DEF GeometryIsSafe
  <2>2. f = Faults(p, w) /\ K = KnownIds(p.nodes) OBVIOUS
  <2> HIDE DEF f, K
  <2>3. FaultsTell(p, w, f) BY <1>1, <2>2, FaultsAre
  <2>4. \A id \in Groups(p.nodes) : ChildrenOf(p.nodes, id) # << >> BY <2>1, <2>3 DEF FaultsTell
  <2> QED BY <2>4 DEF Groups
<1> HIDE DEF m
<1>6. rank \in [K -> Nat] /\ \A id \in K : rank[id] < m BY <1>2, <1>4
<1>7. Ranked(K, rank, Below(p.nodes))
  <2>1. Below(p.nodes) \in [K -> SUBSET K] BY <1>3 DEF Below
  <2>2. ASSUME NEW id \in K, NEW c \in Below(p.nodes)[id] PROVE rank[c] < rank[id]
    <3>1. c \in K /\ level[c] > level[id] BY <1>3 DEF Below
    <3>2. rank[c] = m - level[c] /\ rank[id] = m - level[id] BY <3>1
    <3> HIDE DEF rank
    <3> QED BY <1>2, <1>4, <3>1, <3>2
  <2> HIDE DEF rank
  <2> QED BY <1>6, <2>1, <2>2 DEF Ranked
<1> HIDE DEF rank
<1> QED BY <1>1, <1>2, <1>5, <1>6, <1>7 DEF Grounded

(* Of a program that is valid: its solid is in its bounds, and where they  *)
(* are exact it reaches them.                                              *)
LEMMA ProgramInBounds ==
  ASSUME NEW p, Grounded(p.nodes), p.roots \in Seq(ToSet(p.roots)), p.roots # << >>,
         ToSet(p.roots) \subseteq KnownIds(p.nodes)
  PROVE  /\ ProgramBounds(p) \in Box
         /\ \A id \in ToSet(p.roots) : \A c \in Solid(p.nodes)[id] : InBox(ProgramBounds(p), c)
         /\ (\A id \in ToSet(p.roots) : Exact(p.nodes)[id]) =>
              Reaches(UNION {Solid(p.nodes)[id] : id \in ToSet(p.roots)}, ProgramBounds(p))
<1> DEFINE n == Len(p.roots)
           bs == [i \in DOMAIN p.roots |-> NodeBounds(p.nodes)[p.roots[i]]]
           b == ProgramBounds(p)
           S == Solid(p.nodes)
           C == UNION {S[id] : id \in ToSet(p.roots)}
<1>1. DOMAIN p.roots = 1 .. n /\ n \in Nat BY LenProperties
<1>2. n # 0 BY <1>1, EmptySeq
<1>3. \A i \in 1 .. n : p.roots[i] \in ToSet(p.roots) BY <1>1 DEF ToSet
<1>4. \A id \in ToSet(p.roots) : \E i \in 1 .. n : id = p.roots[i] BY <1>1 DEF ToSet
<1>5. bs \in [1 .. n -> Box] BY <1>1, <1>3, BoundsAre
<1>6. b = [lower |-> Least(bs, "lower"), upper |-> Greatest(bs, "upper")] BY DEF ProgramBounds
<1>7. \A i \in 1 .. n : bs[i] = NodeBounds(p.nodes)[p.roots[i]] BY <1>1
<1> HIDE DEF bs, b
<1>8. /\ Least(bs, "lower") \in [Axes -> Int] /\ Greatest(bs, "upper") \in [Axes -> Int]
      /\ Extremes(n, bs, "lower") /\ Extremes(n, bs, "upper")
  <2>1. n \in Nat \ {0} BY <1>1, <1>2
  <2> HIDE DEF n
  <2> QED BY <1>5, <2>1, LeastIs
<1>9. b \in Box BY <1>6, <1>8 DEF Box
<1>10. ASSUME NEW id \in ToSet(p.roots), NEW c \in S[id] PROVE InBox(b, c)
  <2>1. PICK i \in 1 .. n : id = p.roots[i] BY <1>4
  <2>2. c \in Int \X Int /\ InBox(bs[i], c) BY <1>7, <2>1, SolidInBounds, SolidAre
  <2>3. ASSUME NEW a \in Axes PROVE b.lower[a] <= c[a] /\ c[a] < b.upper[a]
    <3>1. bs[i].lower[a] <= c[a] /\ c[a] < bs[i].upper[a] BY <2>2 DEF InBox
    <3>2. b.lower[a] <= bs[i].lower[a] /\ bs[i].upper[a] <= b.upper[a] BY <1>6, <1>8 DEF Extremes
    <3>3. /\ b.lower[a] \in Int /\ b.upper[a] \in Int /\ c[a] \in Int
          /\ bs[i].lower[a] \in Int /\ bs[i].upper[a] \in Int
      BY <1>5, <1>9, <2>2 DEF Box, Axes
    <3> QED BY <3>1, <3>2, <3>3
  <2> QED BY <2>3 DEF InBox
<1>11. ASSUME \A id \in ToSet(p.roots) : Exact(p.nodes)[id] PROVE Reaches(C, b)
  <2>1. \A i \in 1 .. n : Reaches(S[p.roots[i]], bs[i]) /\ S[p.roots[i]] \subseteq C
    BY <1>3, <1>7, <1>11, SolidReachesBounds
  <2>2. ASSUME NEW a \in Axes
        PROVE  (\E c \in C : c[a] = b.lower[a]) /\ (\E c \in C : c[a] = b.upper[a] - 1)
    <3>1. PICK i \in 1 .. n : b.lower[a] = bs[i].lower[a] BY <1>6, <1>8 DEF Extremes
    <3>2. PICK j \in 1 .. n : b.upper[a] = bs[j].upper[a] BY <1>6, <1>8 DEF Extremes
    <3>3. \E c \in S[p.roots[i]] : c[a] = bs[i].lower[a] BY <2>1 DEF Reaches
    <3>4. \E c \in S[p.roots[j]] : c[a] = bs[j].upper[a] - 1 BY <2>1 DEF Reaches
    <3> QED BY <2>1, <3>1, <3>2, <3>3, <3>4
  <2> HIDE DEF C
  <2> QED BY <2>2 DEF Reaches
<1> QED BY <1>9, <1>10, <1>11 DEF b

LEMMA TreeTellsBounds == TreeInv => BoundsAreTrue
<1> SUFFICES ASSUME TreeInv, draft # "none", WalkEnded, GeometryIsSafe(Faults(program, walk))
             PROVE  BoundsAreTrue
  BY DEF BoundsAreTrue
<1> DEFINE p == program
           limit == Drafts[draft].depth
           S == Solid(p.nodes)
           b == ProgramBounds(p)
           box == (b.lower[1] .. b.upper[1] - 1) \X (b.lower[2] .. b.upper[2] - 1)
           inside(c) == \E id \in ToSet(p.roots) : c \in S[id]
<1>1. Ended(p, limit, walk) /\ limit \in Nat \ {0}
  BY DraftsAssumption DEF TreeInv, WalkEnded, Ended
<1>2. Grounded(p.nodes)
  <2> HIDE DEF p, limit
  <2>1. GeometryIsSafe(Faults(p, walk)) BY DEF p
  <2> QED BY <1>1, <2>1, SafeIsGrounded
<1>3. ASSUME NEW id \in KnownIds(p.nodes), EmptyIntersection(p.nodes, id), NEW c \in Cells
      PROVE  c \notin S[id]
  <2>1. PICK a \in Axes : NodeBounds(p.nodes)[id].lower[a] >= NodeBounds(p.nodes)[id].upper[a]
    BY <1>3 DEF EmptyIntersection
  <2>2. NodeBounds(p.nodes)[id] \in Box BY <1>2, BoundsAre
  <2>3. SUFFICES ASSUME c \in S[id] PROVE FALSE OBVIOUS
  <2>4. c \in Int \X Int /\ InBox(NodeBounds(p.nodes)[id], c) BY <1>2, <2>3, SolidInBounds, SolidAre
  <2>5. /\ NodeBounds(p.nodes)[id].lower[a] <= c[a] /\ c[a] < NodeBounds(p.nodes)[id].upper[a]
        /\ NodeBounds(p.nodes)[id].lower[a] \in Int /\ NodeBounds(p.nodes)[id].upper[a] \in Int
        /\ c[a] \in Int
    BY <2>2, <2>4 DEF InBox, Box, Axes
  <2> QED BY <2>1, <2>5
<1>4. ASSUME ProgramIsValid(p, walk)
      PROVE  /\ \A c \in Cells : inside(c) => c \in box
             /\ (\A id \in ToSet(p.roots) : Exact(p.nodes)[id]) =>
                  \A a \in Axes : /\ \E c \in box : inside(c) /\ c[a] = b.lower[a]
                                  /\ \E c \in box : inside(c) /\ c[a] = b.upper[a] - 1
  <2> DEFINE C == UNION {S[id] : id \in ToSet(p.roots)}
  <2>1. /\ p.roots \in Seq(ToSet(p.roots)) /\ walk.cycle \in BOOLEAN /\ walk.tooDeep \in BOOLEAN
    <3> HIDE DEF p, limit
    <3> QED BY <1>1, EndedWalk
  <2>2. p.roots # << >> /\ ToSet(p.roots) \subseteq KnownIds(p.nodes)
    <3> DEFINE f == Faults(p, walk)
               K == KnownIds(p.nodes)
    <3>1. \A code \in DOMAIN f : ~ f[code] BY <1>4 DEF ProgramIsValid
    <3>2. f = Faults(p, walk) /\ K = KnownIds(p.nodes) OBVIOUS
    <3> HIDE DEF f, K, p
    <3>3. ~ f.missing_root /\ ~ f.missing_reference BY <2>1, <3>1, <3>2, NoFaults
    <3>4. FaultsTell(p, walk, f) BY <2>1, <3>2, FaultsAre
    <3>5. p.roots # << >> /\ ToSet(p.roots) \subseteq K BY <3>2, <3>3, <3>4 DEF FaultsTell
    <3> QED BY <3>5 DEF K
  <2>3. /\ b \in Box
        /\ \A id \in ToSet(p.roots) : \A c \in S[id] : InBox(b, c)
        /\ (\A id \in ToSet(p.roots) : Exact(p.nodes)[id]) => Reaches(C, b)
    <3> HIDE DEF p
    <3> QED BY <1>2, <2>1, <2>2, ProgramInBounds
  <2>4. \A c \in C : c \in Int \X Int /\ inside(c) /\ InBox(b, c) BY <1>2, <2>2, <2>3, SolidAre
  <2>5. \A c \in Int \X Int : InBox(b, c) => c \in box
    <3>1. b.lower[1] \in Int /\ b.upper[1] \in Int /\ b.lower[2] \in Int /\ b.upper[2] \in Int
      BY <2>3 DEF Box, Axes
    <3> HIDE DEF b
    <3>2. ASSUME NEW c \in Int \X Int, InBox(b, c) PROVE c \in box
      <4>1. c[1] \in b.lower[1] .. b.upper[1] - 1 /\ c[2] \in b.lower[2] .. b.upper[2] - 1
        BY <3>1, <3>2 DEF InBox, Axes
      <4> QED BY <4>1
    <3> QED BY <3>2
  <2>6. \A c : inside(c) => c \in C OBVIOUS
  <2> HIDE DEF box, b, C, inside
  <2>7. \A c \in C : c \in box BY <2>4, <2>5
  <2>8. \A c \in Cells : inside(c) => c \in box BY <2>6, <2>7
  <2>9. ASSUME Reaches(C, b), NEW a \in Axes
        PROVE  /\ \E c \in box : inside(c) /\ c[a] = b.lower[a]
               /\ \E c \in box : inside(c) /\ c[a] = b.upper[a] - 1
    <3>1. PICK c \in C : c[a] = b.lower[a] BY <2>9 DEF Reaches
    <3>2. PICK d \in C : d[a] = b.upper[a] - 1 BY <2>9 DEF Reaches
    <3> QED BY <2>4, <2>7, <3>1, <3>2
  <2> QED BY <2>3, <2>8, <2>9
<1> QED BY <1>3, <1>4 DEF BoundsAreTrue

(* The bounds are true of every program, whatever its nodes, their sizes,  *)
(* scales, turns and nesting: a solid is within them and, where they are   *)
(* called exact, reaches them on every side; an intersection that is       *)
(* refused for its bounds has no cells.                                    *)
THEOREM BoundsTrue == ProgramSpec => []BoundsAreTrue
BY TreeInductive, TreeTellsBounds, PTL
-----------------------------------------------------------------------------
(***************************************************************************)
(* MeshSolid: what verify_stl passes as one solid.                         *)
(***************************************************************************)
(* A set has two members if they can be named.                             *)
LEMMA PairIs ==
  ASSUME NEW S, IsFiniteSet(S)
  PROVE  Cardinality(S) = 2 <=> \E a, b \in S : a # b /\ S = {a, b}
<1>1. ASSUME Cardinality(S) = 2 PROVE \E a, b \in S : a # b /\ S = {a, b}
  <2>1. S # {} BY <1>1, FS_EmptySet
  <2>2. PICK a \in S : TRUE BY <2>1
  <2>3. IsFiniteSet(S \ {a}) /\ Cardinality(S \ {a}) = 1 BY <1>1, <2>2, FS_RemoveElement
  <2>4. PICK b : S \ {a} = {b} BY <2>3, FS_Singleton
  <2>5. a # b /\ b \in S /\ S = {a, b} BY <2>2, <2>4
  <2> QED BY <2>2, <2>5
<1>2. ASSUME NEW a \in S, NEW b \in S, a # b, S = {a, b} PROVE Cardinality(S) = 2
  <2>1. IsFiniteSet({a}) /\ Cardinality({a}) = 1 BY FS_Singleton
  <2>2. Cardinality({a} \cup {b}) = 2 BY <1>2, <2>1, FS_AddElement
  <2>3. {a} \cup {b} = S BY <1>2
  <2> QED BY <2>2, <2>3
<1> QED BY <1>1, <1>2

(* Every item is in a tree, R has the root of each, and h falls on the way *)
(* there, from less than there are items in the tree.                      *)
Tree(S, R, r) == {y \in S : R[y] = r}
IsForestOf(S, P, R, h) ==
  /\ P \in [S -> S] /\ R \in [S -> S] /\ h \in [S -> Nat]
  /\ \A x \in S : /\ R[P[x]] = R[x] /\ P[R[x]] = R[x] /\ R[R[x]] = R[x]
                  /\ h[x] < Cardinality(Tree(S, R, R[x]))
                  /\ IF P[x] = x THEN R[x] = x ELSE h[P[x]] < h[x]

LEMMA HalvedKeeps ==
  ASSUME NEW S, NEW P, NEW R, NEW h, IsForestOf(S, P, R, h), NEW i \in S,
         NEW t, t = Halved([parents |-> P, root |-> i])
  PROVE  /\ t \in [parents : [S -> S], root : S]
         /\ IsForestOf(S, t.parents, R, h) /\ R[t.root] = R[i]
         /\ P[i] = i => t = [parents |-> P, root |-> i]
         /\ P[i] # i => t.parents[t.root] = t.root \/ h[t.root] + 2 <= h[i]
<1>1. CASE P[i] = i BY <1>1 DEF Halved, IsForestOf
<1>2. CASE P[i] # i
  <2> DEFINE up == P[P[i]]
             Q == [P EXCEPT ![i] = up]
  <2>1. t = [parents |-> Q, root |-> up] BY <1>2 DEF Halved
  <2>2. P[i] \in S /\ up \in S BY DEF IsForestOf
  <2>3. R[P[i]] = R[i] /\ R[up] = R[i] /\ h[P[i]] < h[i] /\ h[P[i]] \in Nat /\ h[up] \in Nat
        /\ h[i] \in Nat
    BY <1>2, <2>2 DEF IsForestOf
  <2>4. h[up] < h[i]
    <3>1. CASE up = P[i] BY <2>3, <3>1
    <3>2. CASE up # P[i]
      <4>1. h[up] < h[P[i]] BY <2>2, <3>2 DEF IsForestOf
      <4> QED BY <2>3, <4>1
    <3> QED BY <3>1, <3>2
  <2>5. up # i BY <2>3, <2>4
  <2>10. P[up] = up \/ h[up] + 2 <= h[i]
    <3>1. CASE up = P[i] BY <3>1
    <3>2. CASE up # P[i]
      <4>1. h[up] < h[P[i]] BY <2>2, <3>2 DEF IsForestOf
      <4> QED BY <2>3, <4>1
    <3> QED BY <3>1, <3>2
  <2>6. Q \in [S -> S] /\ Q[i] = up /\ \A x \in S : x # i => Q[x] = P[x]
    BY <2>2 DEF IsForestOf
  <2>7. \A x \in S : R[x] # i
    <3> SUFFICES ASSUME NEW x \in S, R[x] = i PROVE FALSE OBVIOUS
    <3>1. P[R[x]] = R[x] BY DEF IsForestOf
    <3> QED BY <1>2, <3>1
  <2> HIDE DEF up, Q
  <2>8. ASSUME NEW x \in S
        PROVE  /\ R[Q[x]] = R[x] /\ Q[R[x]] = R[x]
               /\ IF Q[x] = x THEN R[x] = x ELSE h[Q[x]] < h[x]
    <3>1. R[x] \in S /\ R[x] # i BY <2>7 DEF IsForestOf
    <3>2. CASE x = i BY <2>3, <2>4, <2>5, <2>6, <3>1, <3>2 DEF IsForestOf
    <3>3. CASE x # i BY <2>6, <3>1, <3>3 DEF IsForestOf
    <3> QED BY <3>2, <3>3
  <2>9. IsForestOf(S, Q, R, h) BY <2>6, <2>8 DEF IsForestOf
  <2> QED BY <1>2, <2>1, <2>2, <2>3, <2>5, <2>6, <2>9, <2>10
<1> QED BY <1>1, <1>2

(* The turns of find.                                                      *)
LEMMA FindTurns ==
  ASSUME NEW S, IsFiniteSet(S), NEW P \in [S -> S], NEW i \in S
  PROVE  \E turn \in [0 .. Cardinality(S) \div 2 -> [parents : [S -> S], root : S]] :
           /\ turn[0] = [parents |-> P, root |-> i]
           /\ \A n \in 1 .. Cardinality(S) \div 2 : turn[n] = Halved(turn[n - 1])
           /\ Find(P, i) = turn[Cardinality(S) \div 2]
<1> DEFINE M == Cardinality(S) \div 2
           X == [parents : [S -> S], root : S]
           first == [parents |-> P, root |-> i]
           step == [x \in (1 .. M) \X X |-> Halved(x[2])]
           IsTurn(g) == g = [n \in 0 .. M |-> IF n = 0 THEN first ELSE Halved(g[n - 1])]
           turn == CHOOSE g : IsTurn(g)
<1>1. M \in Nat /\ first \in X
  <2>1. Cardinality(S) \in Nat BY FS_CardinalityType
  <2> QED BY <2>1
<1>2. \A s \in X : Halved(s) \in X
  <2> SUFFICES ASSUME NEW s \in X PROVE Halved(s) \in X OBVIOUS
  <2>1. s.parents \in [S -> S] /\ s.root \in S OBVIOUS
  <2>2. s.parents[s.parents[s.root]] \in S BY <2>1
  <2> QED BY <2>1, <2>2 DEF Halved
<1> HIDE DEF X
<1>3. step \in [(1 .. M) \X X -> X] BY <1>2
<1>4. \A n \in 1 .. M, s \in X : step[<<n, s>>] = Halved(s) OBVIOUS
<1>5. Find(P, i) = turn[M]
  <2>1. DOMAIN P = S OBVIOUS
  <2> QED BY <2>1 DEF Find
<1> HIDE DEF M, step, first
<1>6. PICK f : Follows(f, X, M, first, step) BY <1>1, <1>3, Recursion, Zenon
<1>7. IsTurn(f)
  <2>1. f = [n \in 0 .. M |-> f[n]] BY <1>6 DEF Follows
  <2>2. ASSUME NEW n \in 0 .. M PROVE f[n] = IF n = 0 THEN first ELSE Halved(f[n - 1])
    <3>1. CASE n = 0 BY <3>1, <1>6 DEF Follows
    <3>2. CASE n # 0
      <4>1. n \in 1 .. M /\ n - 1 \in 0 .. M BY <3>2, <1>1
      <4>2. f[n - 1] \in X /\ f[n] = step[<<n, f[n - 1]>>] BY <4>1, <1>6 DEF Follows
      <4> QED BY <4>1, <4>2, <3>2, <1>4
    <3> QED BY <3>1, <3>2
  <2> QED BY <2>1, <2>2
<1>8. IsTurn(turn) BY <1>7
<1> HIDE DEF turn
<1>9. DOMAIN turn = 0 .. M /\ turn = [n \in 0 .. M |-> turn[n]] /\ turn[0] = first BY <1>1, <1>8
<1>10. ASSUME NEW n \in 1 .. M PROVE turn[n] = Halved(turn[n - 1])
  <2>1. n \in 0 .. M /\ n # 0 BY <1>1
  <2> QED BY <2>1, <1>8
<1>11. ASSUME NEW n \in 1 .. M, turn[n - 1] \in X PROVE turn[n] = step[<<n, turn[n - 1]>>]
  BY <1>4, <1>10, <1>11
<1>12. Follows(turn, X, M, first, step) BY <1>1, <1>3, <1>9, <1>11, RecursionType
<1> QED BY <1>5, <1>9, <1>10, <1>12 DEF Follows, M, X, first

(* find returns the root, and leaves the trees as they were.               *)
LEMMA FindIs ==
  ASSUME NEW S, IsFiniteSet(S), NEW P, NEW R, NEW h, IsForestOf(S, P, R, h), NEW i \in S
  PROVE  Find(P, i).root = R[i] /\ IsForestOf(S, Find(P, i).parents, R, h)
<1> DEFINE M == Cardinality(S) \div 2
           X == [parents : [S -> S], root : S]
           Fits(s) == IsForestOf(S, s.parents, R, h) /\ R[s.root] = R[i]
<1>1. M \in Nat /\ Cardinality(S) \in Nat /\ Cardinality(S) <= 2 * M + 1
  <2>1. Cardinality(S) \in Nat BY FS_CardinalityType
  <2> QED BY <2>1
<1>2. P \in [S -> S] BY DEF IsForestOf
<1>3. PICK turn \in [0 .. M -> X] :
        /\ turn[0] = [parents |-> P, root |-> i]
        /\ \A n \in 1 .. M : turn[n] = Halved(turn[n - 1])
        /\ Find(P, i) = turn[M]
  BY <1>2, FindTurns
<1> DEFINE Done(n) == /\ Fits(turn[n])
                      /\ \/ turn[n].parents[turn[n].root] = turn[n].root
                         \/ h[turn[n].root] + 2 * n <= h[i]
           T == {n \in Nat : n <= M => Done(n)}
<1>4. h[i] \in Nat BY DEF IsForestOf
<1>5. 0 \in T
  <2>1. Done(0) BY <1>3, <1>4
  <2> QED BY <2>1
<1>6. ASSUME NEW n \in Nat, n \in T PROVE n + 1 \in T
  <2> SUFFICES ASSUME n + 1 <= M PROVE Done(n + 1) OBVIOUS
  <2>1. n \in 0 .. M /\ n + 1 \in 1 .. M /\ (n + 1) - 1 = n BY <1>1
  <2>2. turn[n] \in X /\ turn[n + 1] = Halved(turn[n]) /\ Done(n) BY <1>3, <1>6, <2>1
  <2> DEFINE Q == turn[n].parents
             j == turn[n].root
             t == turn[n + 1]
  <2>3. turn[n] = [parents |-> Q, root |-> j] /\ j \in S BY <2>2
  <2> HIDE DEF Q, j
  <2>4. IsForestOf(S, Q, R, h) /\ R[j] = R[i] BY <2>2 DEF Q, j
  <2>5. t = Halved([parents |-> Q, root |-> j]) BY <2>2, <2>3
  <2> HIDE DEF t
  <2>6. /\ t \in X
        /\ IsForestOf(S, t.parents, R, h) /\ R[t.root] = R[j]
        /\ Q[j] = j => t = [parents |-> Q, root |-> j]
        /\ Q[j] # j => t.parents[t.root] = t.root \/ h[t.root] + 2 <= h[j]
    BY <2>3, <2>4, <2>5, HalvedKeeps
  <2>7. Fits(t) BY <2>4, <2>6
  <2>8. CASE Q[j] = j
    <3>1. t.parents[t.root] = t.root BY <2>6, <2>8
    <3> QED BY <2>7, <3>1 DEF t
  <2>9. CASE Q[j] # j
    <3>1. h[j] + 2 * n <= h[i] BY <2>2, <2>9 DEF Q, j
    <3>2. h[t.root] \in Nat /\ h[j] \in Nat BY <2>3, <2>6 DEF IsForestOf
    <3>3. t.parents[t.root] = t.root \/ h[t.root] + 2 * (n + 1) <= h[i]
      BY <1>4, <2>6, <2>9, <3>1, <3>2
    <3> QED BY <2>7, <3>3 DEF t
  <2> QED BY <2>8, <2>9
<1>7. Done(M)
  <2> HIDE DEF T, Done
  <2>1. M \in T BY <1>1, <1>5, <1>6, SetInduction
  <2> QED BY <1>1, <2>1 DEF T
<1>8. M \in 0 .. M BY <1>1
<1>9. turn[M] \in X BY <1>3, <1>8
<1>10. h[i] < Cardinality(S)
  <2>1. Tree(S, R, R[i]) \in SUBSET S BY DEF Tree
  <2>2. /\ IsFiniteSet(Tree(S, R, R[i])) /\ Cardinality(Tree(S, R, R[i])) <= Cardinality(S)
        /\ Cardinality(Tree(S, R, R[i])) \in Nat
    BY <2>1, FS_Subset, FS_CardinalityType
  <2>3. h[i] < Cardinality(Tree(S, R, R[i])) BY DEF IsForestOf
  <2> QED BY <1>1, <1>4, <2>2, <2>3
<1>11. turn[M].parents[turn[M].root] = turn[M].root
  <2> DEFINE Q == turn[M].parents
             j == turn[M].root
  <2>1. SUFFICES ASSUME h[j] + 2 * M <= h[i] PROVE Q[j] = j BY <1>7
  <2>2. j \in S /\ Q[j] \in S /\ h[j] \in Nat /\ h[Q[j]] \in Nat BY <1>7, <1>9 DEF IsForestOf
  <2>3. h[j] = 0 BY <1>1, <1>4, <1>10, <2>1, <2>2
  <2>4. ~ (h[Q[j]] < h[j]) BY <2>2, <2>3
  <2> QED BY <1>7, <2>2, <2>4 DEF IsForestOf
<1>12. R[turn[M].root] = turn[M].root BY <1>7, <1>9, <1>11 DEF IsForestOf
<1> QED BY <1>3, <1>7, <1>12

LEMMA UnifiedKeeps ==
  ASSUME NEW S, IsFiniteSet(S), NEW P, NEW R, NEW h, IsForestOf(S, P, R, h),
         NEW i \in S, NEW j \in S
  PROVE  \E R2, h2 : /\ IsForestOf(S, Unified(P, i, j), R2, h2)
                     /\ \A x \in S : R2[x] = IF R[x] = R[j] THEN R[i] ELSE R[x]
<1> DEFINE l == Find(P, i)
           r == Find(l.parents, j)
           Q == r.parents
           a == R[i]
           b == R[j]
<1>1. l.root = a /\ IsForestOf(S, l.parents, R, h) BY FindIs
<1>2. r.root = b /\ IsForestOf(S, Q, R, h)
  <2> HIDE DEF l
  <2> QED BY <1>1, FindIs
<1>3. Unified(P, i, j) = IF a = b THEN Q ELSE [Q EXCEPT ![b] = a] BY <1>1, <1>2 DEF Unified
<1> HIDE DEF l, r, Q
<1>4. a \in S /\ b \in S /\ R[a] = a /\ R[b] = b BY <1>2 DEF IsForestOf
<1>5. CASE a = b
  <2>1. \A x \in S : R[x] = IF R[x] = b THEN a ELSE R[x] BY <1>5
  <2> QED BY <1>2, <1>3, <1>5, <2>1
<1>6. CASE a # b
  <2> DEFINE m == Cardinality(Tree(S, R, a))
             P2 == [Q EXCEPT ![b] = a]
             R2 == [x \in S |-> IF R[x] = b THEN a ELSE R[x]]
             h2 == [x \in S |-> IF R[x] = b THEN h[x] + m ELSE h[x]]
  <2>1. \A c : Tree(S, R, c) \in SUBSET S BY DEF Tree
  <2>2. \A c : /\ IsFiniteSet(Tree(S, R, c)) /\ Cardinality(Tree(S, R, c)) \in Nat
    BY <2>1, FS_Subset, FS_CardinalityType
  <2>3. Tree(S, R2, a) = Tree(S, R, a) \cup Tree(S, R, b) BY <1>4 DEF Tree
  <2>4. Tree(S, R, a) \cap Tree(S, R, b) = {} BY <1>6 DEF Tree
  <2>5. Cardinality(Tree(S, R2, a)) = m + Cardinality(Tree(S, R, b))
    <3>1. Cardinality(Tree(S, R, a) \cup Tree(S, R, b))
            = m + Cardinality(Tree(S, R, b)) - Cardinality({})
      BY <2>2, <2>4, FS_Union
    <3>2. Cardinality({}) = 0 /\ m \in Nat /\ Cardinality(Tree(S, R, b)) \in Nat
      BY <2>2, FS_EmptySet
    <3>3. Cardinality(Tree(S, R2, a)) = Cardinality(Tree(S, R, a) \cup Tree(S, R, b)) BY <2>3
    <3> HIDE DEF m, R2
    <3> QED BY <3>1, <3>2, <3>3
  <2>6. m \in Nat BY <2>2
  <2>7. R2 \in [S -> S] /\ h2 \in [S -> Nat] /\ P2 \in [S -> S]
    BY <1>2, <1>4, <2>6 DEF IsForestOf
  <2>8. P2[b] = a /\ \A x \in S : x # b => P2[x] = Q[x] BY <1>2, <1>4 DEF IsForestOf
  <2>9. \A x \in S : /\ R2[x] = (IF R[x] = b THEN a ELSE R[x])
                     /\ h2[x] = (IF R[x] = b THEN h[x] + m ELSE h[x])
    OBVIOUS
  <2>10. \A c \in S : c # a /\ c # b => Tree(S, R2, c) = Tree(S, R, c) BY <2>9 DEF Tree
  <2> HIDE DEF P2, R2, h2, m
  <2>11. ASSUME NEW x \in S
         PROVE  /\ R2[P2[x]] = R2[x] /\ P2[R2[x]] = R2[x] /\ R2[R2[x]] = R2[x]
                /\ h2[x] < Cardinality(Tree(S, R2, R2[x]))
                /\ IF P2[x] = x THEN R2[x] = x ELSE h2[P2[x]] < h2[x]
    <3>1. /\ R[x] \in S /\ Q[x] \in S /\ R[Q[x]] = R[x] /\ Q[R[x]] = R[x] /\ R[R[x]] = R[x]
          /\ h[x] \in Nat /\ h[Q[x]] \in Nat /\ h[x] < Cardinality(Tree(S, R, R[x]))
          /\ IF Q[x] = x THEN R[x] = x ELSE h[Q[x]] < h[x]
      BY <1>2 DEF IsForestOf
    <3>2. /\ Q[a] = a /\ Q[b] = b /\ h[a] \in Nat /\ h[b] \in Nat /\ h[a] < m
      BY <1>2, <1>4 DEF IsForestOf, m
    <3>3. CASE x = b
      <4>1. R2[x] = a /\ P2[x] = a /\ R2[a] = a /\ P2[a] = a BY <1>4, <1>6, <2>8, <2>9, <3>2, <3>3
      <4>2. h2[x] = h[b] + m /\ h2[a] = h[a] BY <1>4, <1>6, <2>9, <3>3
      <4>3. h[b] < Cardinality(Tree(S, R, b)) BY <1>4, <3>1, <3>3
      <4>4. Cardinality(Tree(S, R, b)) \in Nat BY <2>2
      <4>5. h2[x] < Cardinality(Tree(S, R2, a)) BY <2>5, <2>6, <3>2, <4>2, <4>3, <4>4
      <4> QED BY <1>6, <2>6, <3>2, <3>3, <4>1, <4>2, <4>5
    <3>4. CASE x # b /\ R[x] = b
      <4>1. R2[x] = a /\ P2[x] = Q[x] /\ R2[Q[x]] = a /\ R2[a] = a /\ P2[a] = a
        BY <1>4, <1>6, <2>8, <2>9, <3>1, <3>2, <3>4
      <4>2. h2[x] = h[x] + m /\ h2[Q[x]] = h[Q[x]] + m BY <2>9, <3>1, <3>4
      <4>3. Cardinality(Tree(S, R, b)) \in Nat BY <2>2
      <4>4. h2[x] < Cardinality(Tree(S, R2, a)) BY <2>5, <2>6, <3>1, <3>4, <4>2, <4>3
      <4>5. Q[x] # x BY <3>1, <3>4
      <4> QED BY <2>6, <3>1, <4>1, <4>2, <4>4, <4>5
    <3>5. CASE R[x] # b
      <4>1. x # b /\ Q[x] # b /\ R[Q[x]] # b BY <1>4, <3>1, <3>5
      <4>2. R2[x] = R[x] /\ P2[x] = Q[x] /\ R2[Q[x]] = R[x] /\ R2[R[x]] = R[x] /\ P2[R[x]] = R[x]
        BY <2>8, <2>9, <3>1, <3>5, <4>1
      <4>3. h2[x] = h[x] /\ h2[Q[x]] = h[Q[x]] BY <2>9, <3>1, <3>5
      <4>4. h2[x] < Cardinality(Tree(S, R2, R[x]))
        <5>1. CASE R[x] = a
          <6>1. Cardinality(Tree(S, R, b)) \in Nat BY <2>2
          <6>2. h[x] < m BY <3>1, <5>1 DEF m
          <6> QED BY <2>5, <2>6, <3>1, <4>3, <5>1, <6>1, <6>2
        <5>2. CASE R[x] # a BY <2>10, <3>1, <3>5, <4>3, <5>2
        <5> QED BY <5>1, <5>2
      <4> QED BY <3>1, <4>2, <4>3, <4>4
    <3> QED BY <3>3, <3>4, <3>5
  <2>12. IsForestOf(S, P2, R2, h2) BY <2>7, <2>11 DEF IsForestOf
  <2>13. Unified(P, i, j) = P2 BY <1>3, <1>6 DEF P2
  <2> QED BY <2>9, <2>12, <2>13
<1> QED BY <1>5, <1>6

(* Face i meets face j, a later one, over its side s, and no other does.   *)
Meets(fs, i, s, j) == i < j /\ Fan(fs, Ends(Sides(fs[i])[s])) = {i, j}

(* Nothing in C meets anything outside.                                    *)
Closed(fs, C) ==
  \A i, j \in DOMAIN fs : \A s \in 1 .. 3 : Meets(fs, i, s, j) => (i \in C <=> j \in C)

(* After the sides in T: what has met is in one tree, and what is in one   *)
(* tree has met.                                                           *)
InOneTree(fs, R, i, s) == \A j \in DOMAIN fs : Meets(fs, i, s, j) => R[i] = R[j]
KeepsIn(fs, R, C) == \A x \in DOMAIN fs : x \in C <=> R[x] \in C
JoinedOver(fs, P, T) ==
  \E R, h : /\ IsForestOf(DOMAIN fs, P, R, h)
            /\ \A C \in SUBSET DOMAIN fs : Closed(fs, C) => KeepsIn(fs, R, C)
            /\ \A i \in DOMAIN fs, s \in 1 .. 3 : <<i, s>> \in T => InOneTree(fs, R, i, s)

LEMMA FanFinite ==
  ASSUME NEW X, NEW fs \in Seq(X), NEW e
  PROVE  IsFiniteSet(Fan(fs, e)) /\ Fan(fs, e) \subseteq 1 .. Len(fs) /\ IsFiniteSet(DOMAIN fs)
<1>1. DOMAIN fs = 1 .. Len(fs) /\ Len(fs) \in Nat OBVIOUS
<1>2. IsFiniteSet(1 .. Len(fs)) BY <1>1, FS_Interval
<1>3. Fan(fs, e) \in SUBSET (1 .. Len(fs)) BY <1>1 DEF Fan
<1> QED BY <1>1, <1>2, <1>3, FS_Subset

LEMMA PairOrder ==
  ASSUME NEW a \in Int, NEW b \in Int, a < b
  PROVE  Min({a, b}) = a /\ Max({a, b}) = b
<1>1. \E x \in {a, b} : \A y \in {a, b} : x <= y OBVIOUS
<1>2. Min({a, b}) \in {a, b} /\ \A y \in {a, b} : Min({a, b}) <= y BY <1>1 DEF Min
<1>3. \E x \in {a, b} : \A y \in {a, b} : x >= y OBVIOUS
<1>4. Max({a, b}) \in {a, b} /\ \A y \in {a, b} : Max({a, b}) >= y BY <1>3 DEF Max
<1> QED BY <1>2, <1>4

LEMMA OverSideKeeps ==
  ASSUME NEW X, NEW fs \in Seq(X), NEW P, NEW T, JoinedOver(fs, P, T),
         NEW i \in DOMAIN fs, NEW s \in 1 .. 3
  PROVE  JoinedOver(fs, OverSide(fs, i, s, P), T \cup {<<i, s>>})
<1> DEFINE D == DOMAIN fs
           fan == Fan(fs, Ends(Sides(fs[i])[s]))
<1>1. IsFiniteSet(fan) /\ fan \subseteq D /\ D \subseteq Int /\ IsFiniteSet(D) BY FanFinite
<1>2. PICK R, h : /\ IsForestOf(D, P, R, h)
                  /\ \A C \in SUBSET D : Closed(fs, C) => KeepsIn(fs, R, C)
                  /\ \A k \in D, t \in 1 .. 3 : <<k, t>> \in T => InOneTree(fs, R, k, t)
  BY DEF JoinedOver
<1>3. CASE Cardinality(fan) = 2 /\ i = Min(fan)
  <2>1. PICK a, b \in fan : a # b /\ fan = {a, b} BY <1>1, <1>3, PairIs
  <2>2. PICK j \in D : i < j /\ fan = {i, j}
    <3>1. CASE a < b BY <1>1, <1>3, <2>1, <3>1, PairOrder
    <3>2. CASE b < a
      <4>1. fan = {b, a} BY <2>1
      <4> QED BY <1>1, <1>3, <2>1, <3>2, <4>1, PairOrder
    <3>3. a \in Int /\ b \in Int BY <1>1, <2>1
    <3>4. a < b \/ b < a BY <2>1, <3>3
    <3> QED BY <3>1, <3>2, <3>4
  <2>3. Max(fan) = j BY <1>1, <2>2, PairOrder
  <2>4. OverSide(fs, i, s, P) = Unified(P, i, j) BY <1>3, <2>3 DEF OverSide
  <2>5. PICK R2, h2 : /\ IsForestOf(D, Unified(P, i, j), R2, h2)
                      /\ \A x \in D : R2[x] = IF R[x] = R[j] THEN R[i] ELSE R[x]
    BY <1>1, <1>2, <2>2, UnifiedKeeps
  <2> HIDE DEF fan, D
  <2>6. Meets(fs, i, s, j) BY <2>2 DEF Meets, fan
  <2>7. ASSUME NEW C \in SUBSET D, Closed(fs, C) PROVE KeepsIn(fs, R2, C)
    <3>1. KeepsIn(fs, R, C) BY <1>2, <2>7
    <3>2. i \in C <=> j \in C BY <2>2, <2>6, <2>7 DEF Closed, D
    <3>3. R[i] \in C <=> R[j] \in C BY <2>2, <3>1, <3>2 DEF KeepsIn, D
    <3> SUFFICES ASSUME NEW x \in D PROVE x \in C <=> R2[x] \in C BY DEF KeepsIn, D
    <3>4. x \in C <=> R[x] \in C BY <3>1 DEF KeepsIn, D
    <3> QED BY <2>5, <3>3, <3>4
  <2>8. ASSUME NEW k \in D, NEW t \in 1 .. 3, <<k, t>> \in T \cup {<<i, s>>}
        PROVE  InOneTree(fs, R2, k, t)
    <3> SUFFICES ASSUME NEW m \in D, Meets(fs, k, t, m) PROVE R2[k] = R2[m]
      BY DEF InOneTree, D
    <3>1. CASE <<k, t>> \in T
      <4>1. R[k] = R[m] BY <1>2, <3>1 DEF InOneTree, D
      <4> QED BY <2>5, <4>1
    <3>2. CASE k = i /\ t = s
      <4>1. {i, j} = {i, m} /\ i < m BY <2>2, <3>2 DEF Meets, fan
      <4>2. m = j BY <1>1, <4>1 DEF D
      <4> QED BY <2>2, <2>5, <3>2, <4>2 DEF D
    <3> QED BY <2>8, <3>1, <3>2
  <2> QED BY <2>4, <2>5, <2>7, <2>8 DEF JoinedOver, D
<1>4. CASE ~ (Cardinality(fan) = 2 /\ i = Min(fan))
  <2>1. OverSide(fs, i, s, P) = P BY <1>4 DEF OverSide
  <2>2. \A m \in D : ~ Meets(fs, i, s, m)
    <3> SUFFICES ASSUME NEW m \in D, i < m, fan = {i, m} PROVE FALSE BY DEF Meets
    <3>0. i \in fan /\ m \in fan /\ i # m OBVIOUS
    <3>1. Cardinality(fan) = 2
      <4> HIDE DEF fan
      <4> QED BY <1>1, <3>0, PairIs
    <3>2. Min(fan) = i BY <1>1, PairOrder
    <3> QED BY <1>4, <3>1, <3>2
  <2>3. ASSUME NEW k \in D, NEW t \in 1 .. 3, <<k, t>> \in T \cup {<<i, s>>}
        PROVE  InOneTree(fs, R, k, t)
    <3>1. CASE <<k, t>> \in T BY <1>2, <3>1
    <3>2. CASE k = i /\ t = s BY <2>2, <3>2 DEF InOneTree
    <3> QED BY <2>3, <3>1, <3>2
  <2> QED BY <1>2, <2>1, <2>3 DEF JoinedOver
<1> QED BY <1>3, <1>4

LEMMA FindType ==
  ASSUME NEW S, IsFiniteSet(S), NEW P \in [S -> S], NEW i \in S
  PROVE  Find(P, i) \in [parents : [S -> S], root : S]
<1>1. PICK turn \in [0 .. Cardinality(S) \div 2 -> [parents : [S -> S], root : S]] :
        /\ turn[0] = [parents |-> P, root |-> i]
        /\ \A n \in 1 .. Cardinality(S) \div 2 : turn[n] = Halved(turn[n - 1])
        /\ Find(P, i) = turn[Cardinality(S) \div 2]
  BY FindTurns
<1>2. Cardinality(S) \div 2 \in 0 .. Cardinality(S) \div 2
  <2>1. Cardinality(S) \in Nat BY FS_CardinalityType
  <2> QED BY <2>1
<1> QED BY <1>1, <1>2

LEMMA OverSideType ==
  ASSUME NEW X, NEW fs \in Seq(X), NEW P \in [DOMAIN fs -> DOMAIN fs],
         NEW i \in DOMAIN fs, NEW s \in 1 .. 3
  PROVE  OverSide(fs, i, s, P) \in [DOMAIN fs -> DOMAIN fs]
<1> DEFINE D == DOMAIN fs
           fan == Fan(fs, Ends(Sides(fs[i])[s]))
           j == Max(fan)
           l == Find(P, i)
           r == Find(l.parents, j)
<1>1. IsFiniteSet(fan) /\ fan \subseteq D /\ D \subseteq Int /\ IsFiniteSet(D) BY FanFinite
<1>2. CASE Cardinality(fan) = 2
  <2>1. PICK a, b \in fan : a # b /\ fan = {a, b} BY <1>1, <1>2, PairIs
  <2> HIDE DEF fan
  <2>2. \E x \in fan : \A y \in fan : x >= y
    <3>1. a \in Int /\ b \in Int BY <1>1, <2>1
    <3> QED BY <2>1, <3>1
  <2>3. j \in fan BY <2>2 DEF Max
  <2>4. j \in D BY <1>1, <2>3
  <2> HIDE DEF j
  <2>5. \A Q \in [D -> D], k \in D : Find(Q, k) \in [parents : [D -> D], root : D]
    BY <1>1, FindType
  <2>6. l \in [parents : [D -> D], root : D] BY <2>5
  <2>7. r \in [parents : [D -> D], root : D]
    <3> HIDE DEF l
    <3> QED BY <2>4, <2>5, <2>6
  <2>8. Unified(P, i, j) = IF l.root = r.root THEN r.parents ELSE [r.parents EXCEPT ![r.root] = l.root]
    BY DEF Unified
  <2> HIDE DEF l, r
  <2>9. Unified(P, i, j) \in [D -> D] BY <2>6, <2>7, <2>8
  <2> QED BY <2>9 DEF OverSide, j, fan
<1>3. CASE Cardinality(fan) # 2 BY <1>3 DEF OverSide
<1> QED BY <1>2, <1>3

LEMMA NothingJoined ==
  ASSUME NEW X, NEW fs \in Seq(X)
  PROVE  JoinedOver(fs, [face \in DOMAIN fs |-> face], {})
<1> DEFINE D == DOMAIN fs
           R == [face \in D |-> face]
           h == [face \in D |-> 0]
<1>1. \A x \in D : Cardinality(Tree(D, R, R[x])) = 1
  <2> SUFFICES ASSUME NEW x \in D PROVE Cardinality(Tree(D, R, R[x])) = 1 OBVIOUS
  <2>1. Tree(D, R, R[x]) = {x} BY DEF Tree
  <2> QED BY <2>1, FS_Singleton
<1>2. IsForestOf(D, R, R, h) BY <1>1 DEF IsForestOf
<1>3. \A C \in SUBSET D : KeepsIn(fs, R, C) BY DEF KeepsIn
<1> QED BY <1>2, <1>3 DEF JoinedOver

(* The loop over the faces.                                                *)
LEMMA BodiesJoinedIs ==
  ASSUME NEW X, NEW fs \in Seq(X)
  PROVE  JoinedOver(fs, BodiesJoined(fs), (1 .. Len(fs)) \X (1 .. 3))
<1> DEFINE D == DOMAIN fs
           M == Len(fs)
           Y == [D -> D]
           first == [face \in D |-> face]
           next(i, P) == OverSide(fs, i, 3, OverSide(fs, i, 2, OverSide(fs, i, 1, P)))
           step == [x \in (1 .. M) \X Y |-> next(x[1], x[2])]
           IsParents(g) == g = [i \in 0 .. M |-> IF i = 0 THEN first ELSE next(i, g[i - 1])]
           parents == CHOOSE g : IsParents(g)
<1>1. M \in Nat /\ first \in Y /\ D = 1 .. M OBVIOUS
<1>0. /\ \A i \in 1 .. M, s \in 1 .. 3, P \in Y : OverSide(fs, i, s, P) \in Y
      /\ \A P, T : \A i \in 1 .. M, s \in 1 .. 3 :
           JoinedOver(fs, P, T) => JoinedOver(fs, OverSide(fs, i, s, P), T \cup {<<i, s>>})
  BY <1>1, OverSideType, OverSideKeeps
<1>2. \A i \in 1 .. M, P \in Y : next(i, P) \in Y
  <2> SUFFICES ASSUME NEW i \in 1 .. M, NEW P \in Y PROVE next(i, P) \in Y OBVIOUS
  <2>0. 1 \in 1 .. 3 /\ 2 \in 1 .. 3 /\ 3 \in 1 .. 3 OBVIOUS
  <2> HIDE DEF Y
  <2>1. OverSide(fs, i, 1, P) \in Y BY <1>0, <2>0
  <2>2. OverSide(fs, i, 2, OverSide(fs, i, 1, P)) \in Y BY <1>0, <2>0, <2>1
  <2> QED BY <1>0, <2>0, <2>2
<1>3. BodiesJoined(fs) = parents[M] BY DEF BodiesJoined
<1>4. JoinedOver(fs, first, {}) BY NothingJoined
<1>5. ASSUME NEW i \in 1 .. M, NEW P \in Y, JoinedOver(fs, P, (1 .. i - 1) \X (1 .. 3))
      PROVE  JoinedOver(fs, next(i, P), (1 .. i) \X (1 .. 3))
  <2> DEFINE T == (1 .. i - 1) \X (1 .. 3)
             P1 == OverSide(fs, i, 1, P)
             P2 == OverSide(fs, i, 2, P1)
  <2>0. 1 \in 1 .. 3 /\ 2 \in 1 .. 3 /\ 3 \in 1 .. 3 OBVIOUS
  <2>1. JoinedOver(fs, P1, T \cup {<<i, 1>>}) BY <1>0, <1>5, <2>0
  <2> HIDE DEF P1, T
  <2>2. JoinedOver(fs, P2, (T \cup {<<i, 1>>}) \cup {<<i, 2>>}) BY <1>0, <2>0, <2>1
  <2> HIDE DEF P2
  <2>3. JoinedOver(fs, OverSide(fs, i, 3, P2), ((T \cup {<<i, 1>>}) \cup {<<i, 2>>}) \cup {<<i, 3>>})
    BY <1>0, <2>0, <2>2
  <2>4. ((T \cup {<<i, 1>>}) \cup {<<i, 2>>}) \cup {<<i, 3>>} = (1 .. i) \X (1 .. 3) BY DEF T
  <2>5. next(i, P) = OverSide(fs, i, 3, P2) BY DEF P2, P1
  <2> QED BY <2>3, <2>4, <2>5
<1> HIDE DEF Y, first, next, D
<1>6. step \in [(1 .. M) \X Y -> Y] BY <1>2
<1>7. \A i \in 1 .. M, P \in Y : step[<<i, P>>] = next(i, P) OBVIOUS
<1> HIDE DEF M, step
<1>8. PICK f : Follows(f, Y, M, first, step) BY <1>1, <1>6, Recursion, Zenon
<1>9. IsParents(f)
  <2>1. f = [i \in 0 .. M |-> f[i]] BY <1>8 DEF Follows
  <2>2. ASSUME NEW i \in 0 .. M PROVE f[i] = IF i = 0 THEN first ELSE next(i, f[i - 1])
    <3>1. CASE i = 0 BY <3>1, <1>8 DEF Follows
    <3>2. CASE i # 0
      <4>1. i \in 1 .. M /\ i - 1 \in 0 .. M BY <3>2, <1>1
      <4>2. f[i - 1] \in Y /\ f[i] = step[<<i, f[i - 1]>>] BY <4>1, <1>8 DEF Follows
      <4> QED BY <4>1, <4>2, <3>2, <1>7
    <3> QED BY <3>1, <3>2
  <2> QED BY <2>1, <2>2
<1>10. IsParents(parents) BY <1>9
<1> HIDE DEF parents
<1>11. DOMAIN parents = 0 .. M /\ parents = [i \in 0 .. M |-> parents[i]] /\ parents[0] = first
  BY <1>1, <1>10
<1>12. ASSUME NEW i \in 1 .. M PROVE parents[i] = next(i, parents[i - 1])
  <2>1. i \in 0 .. M /\ i # 0 BY <1>1
  <2> QED BY <2>1, <1>10
<1>13. ASSUME NEW i \in 1 .. M, parents[i - 1] \in Y PROVE parents[i] = step[<<i, parents[i - 1]>>]
  BY <1>7, <1>12, <1>13
<1>14. Follows(parents, Y, M, first, step) BY <1>1, <1>6, <1>11, <1>13, RecursionType
<1> DEFINE S == {n \in Nat : n <= M => JoinedOver(fs, parents[n], (1 .. n) \X (1 .. 3))}
<1>15. 0 \in S
  <2>1. (1 .. 0) \X (1 .. 3) = {} OBVIOUS
  <2> QED BY <1>4, <1>11, <2>1
<1>16. ASSUME NEW n \in Nat, n \in S PROVE n + 1 \in S
  <2> SUFFICES ASSUME n + 1 <= M PROVE JoinedOver(fs, parents[n + 1], (1 .. n + 1) \X (1 .. 3))
    OBVIOUS
  <2>1. n + 1 \in 1 .. M /\ n \in 0 .. M /\ (n + 1) - 1 = n BY <1>1
  <2>2. parents[n] \in Y /\ parents[n + 1] = next(n + 1, parents[n])
    BY <1>12, <1>14, <2>1 DEF Follows
  <2>3. JoinedOver(fs, parents[n], (1 .. (n + 1) - 1) \X (1 .. 3)) BY <1>16, <2>1
  <2> QED BY <1>5, <2>1, <2>2, <2>3
<1> HIDE DEF S
<1>17. M \in S BY <1>1, <1>15, <1>16, SetInduction
<1> QED BY <1>1, <1>3, <1>17 DEF S, M

(* There is one body exactly if nothing but all faces is closed.           *)
LEMMA BodiesAre ==
  ASSUME NEW X, NEW fs \in Seq(X), fs # << >>
  PROVE  Bodies(fs) = 1 <=>
           \A C \in SUBSET DOMAIN fs : Closed(fs, C) => C = {} \/ C = DOMAIN fs
<1> DEFINE D == DOMAIN fs
           P == BodiesJoined(fs)
<1>1. JoinedOver(fs, P, (1 .. Len(fs)) \X (1 .. 3)) BY BodiesJoinedIs
<1>2. D = 1 .. Len(fs) /\ D # {} /\ IsFiniteSet(D)
  <2>1. Len(fs) \in Nat /\ Len(fs) # 0 /\ D = 1 .. Len(fs) OBVIOUS
  <2>2. IsFiniteSet(1 .. Len(fs)) BY <2>1, FS_Interval
  <2>3. 1 \in 1 .. Len(fs) BY <2>1
  <2> HIDE DEF D
  <2> QED BY <2>1, <2>2, <2>3
<1> HIDE DEF P
<1>3. PICK R, h : /\ IsForestOf(D, P, R, h)
                  /\ \A C \in SUBSET D : Closed(fs, C) => KeepsIn(fs, R, C)
                  /\ \A i \in D, s \in 1 .. 3 : InOneTree(fs, R, i, s)
  BY <1>1, <1>2 DEF JoinedOver
<1> DEFINE roots == {R[x] : x \in D}
<1>4. \A x \in D : Find(P, x).root = R[x] BY <1>2, <1>3, FindIs
<1>5. Bodies(fs) = Cardinality(roots)
  <2>1. roots = {Find(P, x).root : x \in D} BY <1>4
  <2> QED BY <2>1 DEF Bodies, P
<1>6. roots \in SUBSET D BY <1>3 DEF IsForestOf
<1>7. IsFiniteSet(roots) BY <1>2, <1>6, FS_Subset
<1>8. Cardinality(roots) = 1 <=> \A x, y \in D : R[x] = R[y]
  <2>1. ASSUME Cardinality(roots) = 1 PROVE \A x, y \in D : R[x] = R[y]
    <3>1. PICK r : roots = {r}
      <4> HIDE DEF roots
      <4> QED BY <1>7, <2>1, FS_Singleton
    <3>2. \A x \in D : R[x] \in roots OBVIOUS
    <3> QED BY <3>1, <3>2
  <2>2. ASSUME \A x, y \in D : R[x] = R[y] PROVE Cardinality(roots) = 1
    <3>1. PICK x \in D : TRUE BY <1>2
    <3>2. roots = {R[x]} BY <2>2
    <3> QED BY <3>2, FS_Singleton
  <2> QED BY <2>1, <2>2
<1>9. ASSUME \A x, y \in D : R[x] = R[y], NEW C \in SUBSET D, Closed(fs, C), C # {}
      PROVE  C = D
  <2>1. KeepsIn(fs, R, C) BY <1>3, <1>9
  <2>2. PICK x \in C : TRUE BY <1>9
  <2>3. \A y \in D : y \in C BY <1>9, <2>1, <2>2 DEF KeepsIn
  <2> QED BY <2>3
<1>10. ASSUME \A C \in SUBSET D : Closed(fs, C) => C = {} \/ C = D, NEW x \in D, NEW y \in D
       PROVE  R[x] = R[y]
  <2> DEFINE C == Tree(D, R, R[x])
  <2>1. C \in SUBSET D /\ x \in C BY DEF Tree
  <2>2. Closed(fs, C)
    <3> SUFFICES ASSUME NEW i \in D, NEW j \in D, NEW s \in 1 .. 3, Meets(fs, i, s, j)
                 PROVE  i \in C <=> j \in C
      BY DEF Closed
    <3>1. R[i] = R[j] BY <1>3 DEF InOneTree
    <3> QED BY <3>1 DEF Tree
  <2>3. y \in C BY <1>10, <2>1, <2>2
  <2> QED BY <2>3 DEF Tree
<1> QED BY <1>5, <1>8, <1>9, <1>10

(* What a behaviour loads: triangles, no two with the same corners.        *)
IsTriangle(f) == f \in Int \X Int \X Int /\ f[1] # f[2] /\ f[2] # f[3] /\ f[3] # f[1]
Simplicial(fs) ==
  /\ fs \in Seq(Int \X Int \X Int) /\ \A i \in DOMAIN fs : IsTriangle(fs[i])
  /\ \A i, j \in DOMAIN fs : Corners(fs[i]) = Corners(fs[j]) => i = j

HasSide(f, a, b) == \E s \in 1 .. 3 : Sides(f)[s] = <<a, b>>

LEMMA SidesAre ==
  ASSUME NEW f, IsTriangle(f)
  PROVE  /\ \A a, b : HasSide(f, a, b) <=> \/ a = f[1] /\ b = f[2]
                                           \/ a = f[2] /\ b = f[3]
                                           \/ a = f[3] /\ b = f[1]
         /\ \A a, b : HasSide(f, a, b) => /\ a \in Corners(f) /\ b \in Corners(f) /\ a # b
                                          /\ a \in Int /\ b \in Int /\ ~ HasSide(f, b, a)
         /\ \A a, b \in Corners(f) : a # b => HasSide(f, a, b) \/ HasSide(f, b, a)
         /\ Corners(f) \subseteq Int
<1>1. \A s : s \in 1 .. 3 <=> s = 1 \/ s = 2 \/ s = 3 OBVIOUS
<1>2. /\ Sides(f)[1] = <<f[1], f[2]>> /\ Sides(f)[2] = <<f[2], f[3]>>
      /\ Sides(f)[3] = <<f[3], f[1]>>
  BY DEF Sides
<1>3. \A a, b : HasSide(f, a, b) <=> \/ a = f[1] /\ b = f[2]
                                     \/ a = f[2] /\ b = f[3]
                                     \/ a = f[3] /\ b = f[1]
  BY <1>1, <1>2 DEF HasSide
<1>4. f[1] \in Int /\ f[2] \in Int /\ f[3] \in Int /\ f[1] # f[2] /\ f[2] # f[3] /\ f[3] # f[1]
  BY DEF IsTriangle
<1> QED BY <1>3, <1>4 DEF Corners

LEMMA AscendingIs ==
  ASSUME NEW f, IsTriangle(f), NEW a \in Int, NEW b \in Int, a < b
  PROVE  Ascending(f, {a, b}) <=> HasSide(f, a, b)
<1>1. \A s : s \in 1 .. 3 <=> s = 1 \/ s = 2 \/ s = 3 OBVIOUS
<1>2. /\ Sides(f)[1] = <<f[1], f[2]>> /\ Sides(f)[2] = <<f[2], f[3]>>
      /\ Sides(f)[3] = <<f[3], f[1]>>
  BY DEF Sides
<1>3. f[1] \in Int /\ f[2] \in Int /\ f[3] \in Int BY DEF IsTriangle
<1>4. \A s \in 1 .. 3 : Ends(Sides(f)[s]) = {Sides(f)[s][1], Sides(f)[s][2]}
                        /\ Sides(f)[s] = <<Sides(f)[s][1], Sides(f)[s][2]>>
                        /\ Sides(f)[s][1] \in Int /\ Sides(f)[s][2] \in Int
  BY <1>1, <1>2, <1>3 DEF Ends
<1>5. ASSUME NEW s \in 1 .. 3
      PROVE  (Ends(Sides(f)[s]) = {a, b} /\ Sides(f)[s][1] < Sides(f)[s][2])
               <=> Sides(f)[s] = <<a, b>>
  <2> DEFINE x == Sides(f)[s][1]
             y == Sides(f)[s][2]
  <2>1. Ends(Sides(f)[s]) = {x, y} /\ Sides(f)[s] = <<x, y>> /\ x \in Int /\ y \in Int BY <1>4
  <2>2. ASSUME {x, y} = {a, b}, x < y PROVE x = a /\ y = b
    <3> HIDE DEF x, y
    <3> QED BY <2>1, <2>2
  <2>3. <<x, y>> = <<a, b>> <=> x = a /\ y = b
    <3> HIDE DEF x, y
    <3> QED OBVIOUS
  <2> QED BY <2>1, <2>2, <2>3
<1> QED BY <1>5 DEF Ascending, HasSide

LEMMA EdgesAre ==
  ASSUME NEW fs, Simplicial(fs)
  PROVE  /\ \A e \in Edges(fs) : \E i \in DOMAIN fs : \E a, b : HasSide(fs[i], a, b) /\ e = {a, b}
         /\ \A i \in DOMAIN fs : \A a, b \in Corners(fs[i]) : a # b => {a, b} \in Edges(fs)
<1>1. ASSUME NEW i \in DOMAIN fs, NEW s \in 1 .. 3
      PROVE  \E a, b : Sides(fs[i])[s] = <<a, b>> /\ Ends(Sides(fs[i])[s]) = {a, b}
  <2>1. s = 1 \/ s = 2 \/ s = 3 OBVIOUS
  <2> QED BY <2>1 DEF Sides, Ends
<1>2. ASSUME NEW e \in Edges(fs)
      PROVE  \E i \in DOMAIN fs : \E a, b : HasSide(fs[i], a, b) /\ e = {a, b}
  <2>1. PICK i \in DOMAIN fs, s \in 1 .. 3 : e = Ends(Sides(fs[i])[s]) BY DEF Edges
  <2>2. PICK a, b : Sides(fs[i])[s] = <<a, b>> /\ Ends(Sides(fs[i])[s]) = {a, b} BY <1>1
  <2>3. HasSide(fs[i], a, b) /\ e = {a, b} BY <2>1, <2>2 DEF HasSide
  <2> QED BY <2>3
<1>3. ASSUME NEW i \in DOMAIN fs, NEW a, NEW b, HasSide(fs[i], a, b) PROVE {a, b} \in Edges(fs)
  <2>1. PICK s \in 1 .. 3 : Sides(fs[i])[s] = <<a, b>> BY <1>3 DEF HasSide
  <2>2. Ends(Sides(fs[i])[s]) = {a, b} BY <2>1 DEF Ends
  <2> QED BY <2>2 DEF Edges
<1>4. ASSUME NEW i \in DOMAIN fs, NEW a \in Corners(fs[i]), NEW b \in Corners(fs[i]), a # b
      PROVE  {a, b} \in Edges(fs)
  <2>1. IsTriangle(fs[i]) BY DEF Simplicial
  <2>2. HasSide(fs[i], a, b) \/ HasSide(fs[i], b, a) BY <1>4, <2>1, SidesAre
  <2>3. {a, b} = {b, a} OBVIOUS
  <2> QED BY <1>3, <2>2, <2>3
<1> QED BY <1>2, <1>4

(* Every side is met by one that winds the other way; no two wind alike.   *)
Opposed(fs) ==
  \A i \in DOMAIN fs : \A a, b : HasSide(fs[i], a, b) =>
    \E j \in DOMAIN fs : j # i /\ HasSide(fs[j], b, a)
Apart(fs) ==
  \A i, j \in DOMAIN fs : \A a, b : HasSide(fs[i], a, b) /\ HasSide(fs[j], a, b) => i = j

LEMMA FanIs ==
  ASSUME NEW fs, Simplicial(fs), NEW a, NEW b, a # b
  PROVE  /\ IsFiniteSet(Fan(fs, {a, b})) /\ Fan(fs, {a, b}) \subseteq DOMAIN fs
         /\ \A i \in DOMAIN fs : i \in Fan(fs, {a, b}) <=> HasSide(fs[i], a, b) \/ HasSide(fs[i], b, a)
<1>1. IsFiniteSet(Fan(fs, {a, b})) BY FanFinite DEF Simplicial
<1>2. ASSUME NEW i \in DOMAIN fs
      PROVE  {a, b} \subseteq Corners(fs[i]) <=> HasSide(fs[i], a, b) \/ HasSide(fs[i], b, a)
  <2>1. IsTriangle(fs[i]) BY DEF Simplicial
  <2> QED BY <2>1, SidesAre
<1> QED BY <1>1, <1>2 DEF Fan

(* The two tests of trimesh find exactly that.                             *)
LEMMA WoundIs ==
  ASSUME NEW fs, Simplicial(fs)
  PROVE  Watertight(fs) /\ WindingConsistent(fs) <=> Opposed(fs) /\ Apart(fs)
<1>0. \A i \in DOMAIN fs : IsTriangle(fs[i]) BY DEF Simplicial
<1>1. ASSUME NEW i \in DOMAIN fs, NEW a, NEW b, HasSide(fs[i], a, b)
      PROVE  a \in Int /\ b \in Int /\ a # b /\ {a, b} \in Edges(fs) /\ {b, a} = {a, b}
             /\ i \in Fan(fs, {a, b}) /\ ~ HasSide(fs[i], b, a)
  <2>1. a \in Int /\ b \in Int /\ a # b /\ a \in Corners(fs[i]) /\ b \in Corners(fs[i])
        /\ ~ HasSide(fs[i], b, a)
    BY <1>0, <1>1, SidesAre
  <2>2. {a, b} \in Edges(fs) BY <2>1, EdgesAre
  <2>3. i \in Fan(fs, {a, b}) BY <1>1, <2>1, FanIs
  <2> QED BY <2>1, <2>2, <2>3
<1>2. ASSUME NEW i \in DOMAIN fs, NEW j \in DOMAIN fs, NEW a, NEW b, HasSide(fs[i], a, b),
             j \in Fan(fs, {a, b})
      PROVE  /\ HasSide(fs[j], a, b) \/ HasSide(fs[j], b, a)
             /\ (Ascending(fs[i], {a, b}) = Ascending(fs[j], {a, b})) <=> HasSide(fs[j], a, b)
  <2>1. a \in Int /\ b \in Int /\ a # b /\ {b, a} = {a, b} /\ ~ HasSide(fs[i], b, a) BY <1>1, <1>2
  <2>2. HasSide(fs[j], a, b) \/ HasSide(fs[j], b, a) BY <1>2, <2>1, FanIs
  <2>3. ~ (HasSide(fs[j], a, b) /\ HasSide(fs[j], b, a)) BY <1>0, SidesAre
  <2>4. CASE a < b
    <3>1. /\ Ascending(fs[i], {a, b}) <=> HasSide(fs[i], a, b)
          /\ Ascending(fs[j], {a, b}) <=> HasSide(fs[j], a, b)
      BY <1>0, <2>1, <2>4, AscendingIs
    <3>2. Ascending(fs[i], {a, b}) \in BOOLEAN /\ Ascending(fs[j], {a, b}) \in BOOLEAN
      BY DEF Ascending
    <3> QED BY <1>2, <2>2, <3>1, <3>2
  <2>5. CASE b < a
    <3>1. /\ Ascending(fs[i], {b, a}) <=> HasSide(fs[i], b, a)
          /\ Ascending(fs[j], {b, a}) <=> HasSide(fs[j], b, a)
      BY <1>0, <2>1, <2>5, AscendingIs
    <3>2. Ascending(fs[i], {a, b}) \in BOOLEAN /\ Ascending(fs[j], {a, b}) \in BOOLEAN
      BY DEF Ascending
    <3>3. /\ Ascending(fs[i], {a, b}) <=> HasSide(fs[i], b, a)
          /\ Ascending(fs[j], {a, b}) <=> HasSide(fs[j], b, a)
      BY <2>1, <3>1
    <3> QED BY <2>1, <2>2, <2>3, <3>2, <3>3
  <2> QED BY <2>1, <2>4, <2>5
<1>3. ASSUME Watertight(fs), WindingConsistent(fs) PROVE Opposed(fs) /\ Apart(fs)
  <2>1. ASSUME NEW i \in DOMAIN fs, NEW j \in DOMAIN fs, i # j, NEW a, NEW b,
               HasSide(fs[i], a, b), j \in Fan(fs, {a, b})
        PROVE  ~ HasSide(fs[j], a, b)
    <3>1. {a, b} \in Edges(fs) /\ i \in Fan(fs, {a, b}) BY <1>1, <2>1
    <3>2. Cardinality(Fan(fs, {a, b})) = 2 BY <1>3, <3>1 DEF Watertight
    <3>3. Ascending(fs[i], {a, b}) # Ascending(fs[j], {a, b})
      BY <1>3, <2>1, <3>1, <3>2 DEF WindingConsistent
    <3> QED BY <1>2, <2>1, <3>3
  <2>2. Opposed(fs)
    <3> SUFFICES ASSUME NEW i \in DOMAIN fs, NEW a, NEW b, HasSide(fs[i], a, b)
                 PROVE  \E j \in DOMAIN fs : j # i /\ HasSide(fs[j], b, a)
      BY DEF Opposed
    <3> DEFINE fan == Fan(fs, {a, b})
    <3>1. {a, b} \in Edges(fs) /\ i \in fan /\ a # b BY <1>1
    <3>2. IsFiniteSet(fan) /\ fan \subseteq DOMAIN fs BY <3>1, FanIs
    <3>3. Cardinality(fan) = 2 BY <1>3, <3>1 DEF Watertight
    <3>4. PICK x, y \in fan : x # y /\ fan = {x, y}
      <4> HIDE DEF fan
      <4> QED BY <3>2, <3>3, PairIs
    <3>5. PICK j \in DOMAIN fs : j # i /\ j \in fan BY <3>1, <3>2, <3>4
    <3>6. ~ HasSide(fs[j], a, b) BY <2>1, <3>5
    <3> QED BY <1>2, <3>5, <3>6
  <2>3. Apart(fs)
    <3> SUFFICES ASSUME NEW i \in DOMAIN fs, NEW j \in DOMAIN fs, NEW a, NEW b, i # j,
                        HasSide(fs[i], a, b), HasSide(fs[j], a, b)
                 PROVE  FALSE
      BY DEF Apart
    <3>1. j \in Fan(fs, {a, b}) BY <1>1
    <3> QED BY <2>1, <3>1
  <2> QED BY <2>2, <2>3
<1>4. ASSUME Opposed(fs), Apart(fs) PROVE Watertight(fs) /\ WindingConsistent(fs)
  <2>1. Watertight(fs)
    <3> SUFFICES ASSUME NEW e \in Edges(fs) PROVE Cardinality(Fan(fs, e)) = 2 BY DEF Watertight
    <3>1. PICK i \in DOMAIN fs : \E a, b : HasSide(fs[i], a, b) /\ e = {a, b} BY EdgesAre
    <3>2. PICK a, b : HasSide(fs[i], a, b) /\ e = {a, b} BY <3>1
    <3>3. PICK j \in DOMAIN fs : j # i /\ HasSide(fs[j], b, a) BY <1>4, <3>2 DEF Opposed
    <3>4. a # b BY <1>1, <3>2
    <3> DEFINE fan == Fan(fs, {a, b})
    <3>5. IsFiniteSet(fan) /\ fan \subseteq DOMAIN fs BY <3>4, FanIs
    <3>6. i \in fan /\ j \in fan BY <3>2, <3>3, <3>4, FanIs
    <3>7. ASSUME NEW k \in fan PROVE k = i \/ k = j
      <4>1. k \in DOMAIN fs BY <3>5
      <4>2. HasSide(fs[k], a, b) \/ HasSide(fs[k], b, a) BY <3>4, <4>1, FanIs
      <4> QED BY <1>4, <3>2, <3>3, <4>1, <4>2 DEF Apart
    <3> HIDE DEF fan
    <3>8. fan = {i, j} BY <3>6, <3>7
    <3>9. Cardinality(fan) = 2 BY <3>3, <3>5, <3>6, <3>8, PairIs
    <3> QED BY <3>2, <3>9 DEF fan
  <2>2. WindingConsistent(fs)
    <3> SUFFICES ASSUME NEW e \in Edges(fs), NEW i \in Fan(fs, e), NEW j \in Fan(fs, e), i # j,
                        Ascending(fs[i], e) = Ascending(fs[j], e)
                 PROVE  FALSE
      BY DEF WindingConsistent
    <3>1. PICK k \in DOMAIN fs : \E a, b : HasSide(fs[k], a, b) /\ e = {a, b} BY EdgesAre
    <3>2. PICK a, b : HasSide(fs[k], a, b) /\ e = {a, b} BY <3>1
    <3>3. a # b /\ {b, a} = {a, b} BY <1>1, <3>2
    <3>4. i \in DOMAIN fs /\ j \in DOMAIN fs BY DEF Fan
    <3>5. HasSide(fs[i], a, b) \/ HasSide(fs[i], b, a) BY <3>2, <3>3, <3>4, FanIs
    <3>6. CASE HasSide(fs[i], a, b)
      <4>1. HasSide(fs[j], a, b) BY <1>2, <3>2, <3>4, <3>6
      <4> QED BY <1>4, <3>4, <3>6, <4>1 DEF Apart
    <3>7. CASE HasSide(fs[i], b, a)
      <4>1. j \in Fan(fs, {b, a}) /\ e = {b, a} BY <3>2, <3>3
      <4>2. HasSide(fs[j], b, a) BY <1>2, <3>4, <3>7, <4>1
      <4> QED BY <1>4, <3>4, <3>7, <4>2 DEF Apart
    <3> QED BY <3>5, <3>6, <3>7
  <2> QED BY <2>1, <2>2
<1> QED BY <1>3, <1>4

LEMMA WholeIsTwo ==
  ASSUME NEW S, IsFiniteSet(S), S # {}, NEW sets, sets \subseteq SUBSET S
  PROVE  Cardinality(Whole(S, sets)) = 2 <=> \A T \in Whole(S, sets) : T = {} \/ T = S
<1> DEFINE W == Whole(S, sets)
<1>1. {} \in W /\ S \in W BY DEF Whole
<1>2. IsFiniteSet(SUBSET S) BY FS_SUBSET
<1>3. W \in SUBSET (SUBSET S) BY DEF Whole
<1>4. IsFiniteSet(W) BY <1>2, <1>3, FS_Subset
<1> HIDE DEF W
<1>5. ASSUME Cardinality(W) = 2, NEW T \in W PROVE T = {} \/ T = S
  <2>1. PICK a, b \in W : a # b /\ W = {a, b} BY <1>4, <1>5, PairIs
  <2> QED BY <1>1, <2>1
<1>6. ASSUME \A T \in W : T = {} \/ T = S PROVE Cardinality(W) = 2
  <2>1. W = {{}, S} BY <1>1, <1>6
  <2> QED BY <1>1, <1>4, <2>1, PairIs
<1> QED BY <1>5, <1>6 DEF W

(* A graph: edges with ends.                                               *)
IsGraph(link) ==
  /\ IsFiniteSet(link) /\ IsFiniteSet(UNION link) /\ \A e \in link : e # {}

(* What is reached is never left, and is no more than it has to be.        *)
LEMMA ReachedIs ==
  ASSUME NEW link, IsGraph(link), NEW v \in UNION link
  PROVE  /\ Reached(link, v) \in Whole(UNION link, link) /\ v \in Reached(link, v)
         /\ \A T \in Whole(UNION link, link) : v \in T => Reached(link, v) \subseteq T
<1> DEFINE all == UNION link
           M == Cardinality(all)
           Y == SUBSET all
           next(R) == R \cup UNION {e \in link : e \cap R # {}}
           first == {v}
           step == [x \in (1 .. M) \X Y |-> next(x[2])]
           IsSeen(g) == g = [n \in 0 .. M |-> IF n = 0 THEN first ELSE next(g[n - 1])]
           seen == CHOOSE g : IsSeen(g)
<1>1. M \in Nat /\ first \in Y /\ IsFiniteSet(all) BY FS_CardinalityType DEF IsGraph
<1>2. \A R \in Y : next(R) \in Y OBVIOUS
<1>3. Reached(link, v) = seen[M] BY DEF Reached
<1>4. \A R : next(R) = R => \A e \in link : e \cap R # {} => e \subseteq R OBVIOUS
<1>5. \A R : R \subseteq next(R) OBVIOUS
<1>6. \A T \in Whole(all, link) : \A R : R \subseteq T => next(R) \subseteq T BY DEF Whole
<1> HIDE DEF all, Y, next
<1>7. step \in [(1 .. M) \X Y -> Y] BY <1>2
<1>8. \A n \in 1 .. M, R \in Y : step[<<n, R>>] = next(R) OBVIOUS
<1> HIDE DEF M, step, first
<1>9. PICK f : Follows(f, Y, M, first, step) BY <1>1, <1>7, Recursion, Zenon
<1>10. IsSeen(f)
  <2>1. f = [n \in 0 .. M |-> f[n]] BY <1>9 DEF Follows
  <2>2. ASSUME NEW n \in 0 .. M PROVE f[n] = IF n = 0 THEN first ELSE next(f[n - 1])
    <3>1. CASE n = 0 BY <3>1, <1>9 DEF Follows
    <3>2. CASE n # 0
      <4>1. n \in 1 .. M /\ n - 1 \in 0 .. M BY <3>2, <1>1
      <4>2. f[n - 1] \in Y /\ f[n] = step[<<n, f[n - 1]>>] BY <4>1, <1>9 DEF Follows
      <4> QED BY <4>1, <4>2, <3>2, <1>8
    <3> QED BY <3>1, <3>2
  <2> QED BY <2>1, <2>2
<1>11. IsSeen(seen) BY <1>10
<1> HIDE DEF seen
<1>12. DOMAIN seen = 0 .. M /\ seen = [n \in 0 .. M |-> seen[n]] /\ seen[0] = first
  BY <1>1, <1>11
<1>13. ASSUME NEW n \in 1 .. M PROVE seen[n] = next(seen[n - 1])
  <2>1. n \in 0 .. M /\ n # 0 BY <1>1
  <2> QED BY <2>1, <1>11
<1>14. ASSUME NEW n \in 1 .. M, seen[n - 1] \in Y PROVE seen[n] = step[<<n, seen[n - 1]>>]
  BY <1>8, <1>13, <1>14
<1>15. Follows(seen, Y, M, first, step) BY <1>1, <1>7, <1>12, <1>14, RecursionType
<1>16. \A n \in 0 .. M : seen[n] \in SUBSET all BY <1>15 DEF Follows, Y
<1>17. \A n \in 0 .. M : IsFiniteSet(seen[n]) /\ Cardinality(seen[n]) \in Nat
                         /\ Cardinality(seen[n]) <= M
  <2> SUFFICES ASSUME NEW n \in 0 .. M
               PROVE  IsFiniteSet(seen[n]) /\ Cardinality(seen[n]) \in Nat
                      /\ Cardinality(seen[n]) <= M
    OBVIOUS
  <2>1. seen[n] \in SUBSET all BY <1>16
  <2> QED BY <1>1, <2>1, FS_Subset, FS_CardinalityType DEF M
<1> DEFINE Wider(n) == /\ v \in seen[n]
                       /\ next(seen[n]) = seen[n] \/ Cardinality(seen[n]) >= n + 1
                       /\ \A T \in Whole(all, link) : v \in T => seen[n] \subseteq T
           S == {n \in Nat : n <= M => Wider(n)}
<1>18. 0 \in S
  <2>1. seen[0] = {v} BY <1>12 DEF first
  <2>2. Cardinality({v}) = 1 BY FS_Singleton
  <2> QED BY <2>1, <2>2
<1>19. ASSUME NEW n \in Nat, n \in S PROVE n + 1 \in S
  <2> SUFFICES ASSUME n + 1 <= M PROVE Wider(n + 1) OBVIOUS
  <2>1. n + 1 \in 1 .. M /\ n \in 0 .. M /\ n + 1 \in 0 .. M /\ (n + 1) - 1 = n BY <1>1
  <2>2. seen[n + 1] = next(seen[n]) BY <1>13, <2>1
  <2>3. Wider(n) BY <1>19, <2>1
  <2>4. v \in seen[n + 1] BY <1>5, <2>2, <2>3
  <2>5. \A T \in Whole(all, link) : v \in T => seen[n + 1] \subseteq T BY <1>6, <2>2, <2>3
  <2>6. CASE next(seen[n]) = seen[n] BY <2>2, <2>4, <2>5, <2>6
  <2>7. CASE next(seen[n]) # seen[n]
    <3>1. Cardinality(seen[n]) >= n + 1 BY <2>3, <2>7
    <3>2. seen[n] \in SUBSET seen[n + 1] /\ seen[n] # seen[n + 1] BY <1>5, <2>2, <2>7
    <3>3. /\ IsFiniteSet(seen[n + 1]) /\ Cardinality(seen[n + 1]) \in Nat
          /\ Cardinality(seen[n]) \in Nat
      BY <1>17, <2>1
    <3>4. Cardinality(seen[n]) <= Cardinality(seen[n + 1])
          /\ Cardinality(seen[n]) # Cardinality(seen[n + 1])
      BY <3>2, <3>3, FS_Subset
    <3>5. Cardinality(seen[n + 1]) >= (n + 1) + 1 BY <3>1, <3>3, <3>4
    <3> QED BY <2>4, <2>5, <3>5
  <2> QED BY <2>6, <2>7
<1>20. Wider(M)
  <2> HIDE DEF S, Wider
  <2>1. M \in S BY <1>1, <1>18, <1>19, SetInduction
  <2> QED BY <1>1, <2>1 DEF S
<1>21. M \in 0 .. M BY <1>1
<1>22. next(seen[M]) = seen[M] BY <1>1, <1>17, <1>20, <1>21
<1>23. \A e \in link : e \cap seen[M] # {} => e \subseteq seen[M] BY <1>4, <1>22
<1>24. seen[M] \in Whole(all, link) BY <1>16, <1>21, <1>23 DEF Whole
<1> QED BY <1>3, <1>20, <1>24 DEF all

(* A graph of one path or cycle is connected, by degrees and by search.    *)
LEMMA ManifoldIsPath ==
  ASSUME NEW link, IsGraph(link), LinkIsManifold(link)
  PROVE  PathOrCycle(link)
<1> DEFINE all == UNION link
           v == CHOOSE x \in all : TRUE
<1>1. link # {} /\ all # {} /\ link \subseteq SUBSET all BY DEF LinkIsManifold, IsGraph
<1>2. v \in all BY <1>1
<1>3. Reached(link, v) = all BY DEF LinkIsManifold
<1>4. \A u \in all : Degree(link, u) <= 2
  <2>1. \A u \in all : Degree(link, u) \in {1, 2} BY DEF LinkIsManifold
  <2> QED BY <2>1
<1> HIDE DEF v
<1>5. \A T \in Whole(all, link) : v \in T => T = all BY <1>2, <1>3, ReachedIs DEF Whole
<1>6. ASSUME NEW T \in Whole(all, link), v \notin T PROVE T = {}
  <2>1. all \ T \in Whole(all, link) BY DEF Whole
  <2>2. all \ T = all BY <1>2, <1>5, <1>6, <2>1
  <2> QED BY <2>2 DEF Whole
<1>7. Cardinality(Whole(all, link)) = 2 BY <1>1, <1>5, <1>6, WholeIsTwo DEF IsGraph
<1> QED BY <1>1, <1>4, <1>7 DEF PathOrCycle

LEMMA CycleIsManifold ==
  ASSUME NEW link, IsGraph(link), PathOrCycle(link), \A u \in UNION link : Degree(link, u) = 2
  PROVE  LinkIsManifold(link)
<1> DEFINE all == UNION link
           v == CHOOSE x \in all : TRUE
<1>1. link # {} /\ all # {} /\ link \subseteq SUBSET all BY DEF PathOrCycle, IsGraph
<1>2. v \in all BY <1>1
<1> HIDE DEF v
<1>3. Reached(link, v) \in Whole(all, link) /\ v \in Reached(link, v) BY <1>2, ReachedIs
<1>4. \A T \in Whole(all, link) : T = {} \/ T = all
  BY <1>1, WholeIsTwo DEF IsGraph, PathOrCycle
<1>5. Reached(link, v) = all BY <1>3, <1>4
<1>6. {u \in all : Degree(link, u) = 1} = {} OBVIOUS
<1>7. Cardinality({u \in all : Degree(link, u) = 1}) = 0 BY <1>6, FS_EmptySet
<1> QED BY <1>1, <1>5, <1>7 DEF LinkIsManifold, v

LEMMA UsedFinite ==
  ASSUME NEW fs, Simplicial(fs)
  PROVE  IsFiniteSet(Used(fs))
<1> DEFINE F == [i \in DOMAIN fs |-> Corners(fs[i])]
<1>1. IsFiniteSet(DOMAIN fs) BY FanFinite DEF Simplicial
<1>2. F \in Surjection(DOMAIN fs, FaceSets(fs)) BY DEF Surjection, FaceSets
<1>3. IsFiniteSet(FaceSets(fs))
  <2> HIDE DEF F
  <2> QED BY <1>1, <1>2, FS_Surjection
<1>4. \A a, b, c : IsFiniteSet({a, b, c})
  <2> SUFFICES ASSUME NEW a, NEW b, NEW c PROVE IsFiniteSet({a, b, c}) OBVIOUS
  <2>1. IsFiniteSet({a}) BY FS_Singleton
  <2>2. IsFiniteSet({a} \cup {b}) BY <2>1, FS_AddElement
  <2>3. IsFiniteSet(({a} \cup {b}) \cup {c}) BY <2>2, FS_AddElement
  <2>4. ({a} \cup {b}) \cup {c} = {a, b, c} OBVIOUS
  <2> QED BY <2>3, <2>4
<1>5. ASSUME NEW s \in FaceSets(fs) PROVE IsFiniteSet(s)
  <2>1. PICK i \in DOMAIN fs : s = {fs[i][1], fs[i][2], fs[i][3]} BY DEF FaceSets, Corners
  <2> QED BY <1>4, <2>1
<1>6. Used(fs) = UNION FaceSets(fs) BY DEF Used, FaceSets
<1> QED BY <1>3, <1>5, <1>6, FS_UNION

LEMMA LinkIs ==
  ASSUME NEW fs, Simplicial(fs), NEW v
  PROVE  /\ IsGraph(Link(fs, v))
         /\ \A e \in Link(fs, v) :
              \E i \in DOMAIN fs : v \in Corners(fs[i]) /\ e = Corners(fs[i]) \ {v}
         /\ \A i \in DOMAIN fs : v \in Corners(fs[i]) => Corners(fs[i]) \ {v} \in Link(fs, v)
<1> DEFINE link == Link(fs, v)
<1>1. \A e \in link : \E i \in DOMAIN fs : v \in Corners(fs[i]) /\ e = Corners(fs[i]) \ {v}
  BY DEF Link
<1>2. \A i \in DOMAIN fs : v \in Corners(fs[i]) => Corners(fs[i]) \ {v} \in link BY DEF Link
<1> HIDE DEF link
<1>3. \A i \in DOMAIN fs : Corners(fs[i]) \subseteq Used(fs) BY DEF Used
<1>4. link \in SUBSET (SUBSET Used(fs)) BY <1>1, <1>3
<1>5. UNION link \in SUBSET Used(fs) BY <1>4
<1>6. IsFiniteSet(Used(fs)) /\ IsFiniteSet(SUBSET Used(fs)) BY UsedFinite, FS_SUBSET
<1>7. IsFiniteSet(link) /\ IsFiniteSet(UNION link) BY <1>4, <1>5, <1>6, FS_Subset
<1>8. ASSUME NEW e \in link PROVE e # {}
  <2>1. PICK i \in DOMAIN fs : e = Corners(fs[i]) \ {v} BY <1>1
  <2>2. IsTriangle(fs[i]) BY DEF Simplicial
  <2> QED BY <2>1, <2>2 DEF IsTriangle, Corners
<1>9. IsGraph(link) BY <1>7, <1>8 DEF IsGraph
<1> QED BY <1>1, <1>2, <1>9 DEF link

(* Around an edge of a watertight mesh there are two faces.                *)
LEMMA TwoAround ==
  ASSUME NEW fs, Simplicial(fs), Watertight(fs), NEW i \in DOMAIN fs,
         NEW u \in Corners(fs[i]), NEW v \in Corners(fs[i]), u # v
  PROVE  \E j \in DOMAIN fs : /\ i # j
                              /\ Fan(fs, {u, v}) = {i, j}
<1> DEFINE fan == Fan(fs, {u, v})
<1>1. IsFiniteSet(fan) /\ fan \subseteq DOMAIN fs BY FanIs
<1>2. i \in fan BY DEF Fan
<1>3. {u, v} \in Edges(fs) BY EdgesAre
<1>4. Cardinality(fan) = 2 BY <1>3 DEF Watertight
<1> HIDE DEF fan
<1>5. PICK a, b \in fan : a # b /\ fan = {a, b} BY <1>1, <1>4, PairIs
<1>6. PICK j \in fan : i # j /\ fan = {i, j} BY <1>2, <1>5
<1> QED BY <1>1, <1>6 DEF fan

LEMMA LinkDegree ==
  ASSUME NEW fs, Simplicial(fs), Watertight(fs), NEW v, NEW u \in UNION Link(fs, v)
  PROVE  Degree(Link(fs, v), u) = 2
<1> DEFINE link == Link(fs, v)
           here == {e \in link : u \in e}
<1>1. /\ IsGraph(link)
      /\ \A e \in link : \E i \in DOMAIN fs : v \in Corners(fs[i]) /\ e = Corners(fs[i]) \ {v}
      /\ \A i \in DOMAIN fs : v \in Corners(fs[i]) => Corners(fs[i]) \ {v} \in link
  BY LinkIs
<1> HIDE DEF link
<1>2. PICK e \in link : u \in e BY DEF link
<1>3. PICK i \in DOMAIN fs : v \in Corners(fs[i]) /\ e = Corners(fs[i]) \ {v} BY <1>1
<1>4. u \in Corners(fs[i]) /\ u # v BY <1>2, <1>3
<1>5. PICK j \in DOMAIN fs : i # j /\ Fan(fs, {u, v}) = {i, j} BY <1>3, <1>4, TwoAround
<1>6. \A k \in DOMAIN fs : k \in Fan(fs, {u, v}) <=> u \in Corners(fs[k]) /\ v \in Corners(fs[k])
  BY DEF Fan
<1>7. u \in Corners(fs[j]) /\ v \in Corners(fs[j]) BY <1>5, <1>6
<1> DEFINE x == Corners(fs[i]) \ {v}
           y == Corners(fs[j]) \ {v}
<1>8. x \in here /\ y \in here BY <1>1, <1>3, <1>4, <1>7
<1>9. x # y
  <2> SUFFICES ASSUME x = y PROVE FALSE OBVIOUS
  <2>1. Corners(fs[i]) = Corners(fs[j]) BY <1>3, <1>7
  <2> QED BY <1>5, <2>1 DEF Simplicial
<1>10. ASSUME NEW d \in here PROVE d = x \/ d = y
  <2>1. PICK k \in DOMAIN fs : v \in Corners(fs[k]) /\ d = Corners(fs[k]) \ {v} BY <1>1
  <2>2. k \in Fan(fs, {u, v}) BY <1>6, <2>1
  <2> QED BY <1>5, <2>1, <2>2
<1>11. IsFiniteSet(here)
  <2>1. here \in SUBSET link OBVIOUS
  <2> QED BY <1>1, <2>1, FS_Subset DEF IsGraph
<1> HIDE DEF here, x, y
<1>12. here = {x, y} BY <1>8, <1>10
<1>13. Cardinality(here) = 2 BY <1>8, <1>9, <1>11, <1>12, PairIs
<1> QED BY <1>13 DEF Degree, here, link

(* Whoever shares an edge with a face of a closed set is in it.            *)
LEMMA AcrossEdge ==
  ASSUME NEW fs, Simplicial(fs), Watertight(fs), NEW C \in SUBSET DOMAIN fs, Closed(fs, C),
         NEW f \in C, NEW k \in DOMAIN fs, NEW u, NEW v, u # v,
         {u, v} \subseteq Corners(fs[f]), {u, v} \subseteq Corners(fs[k])
  PROVE  k \in C
<1>1. CASE k = f BY <1>1
<1>2. CASE k # f
  <2>1. f \in DOMAIN fs OBVIOUS
  <2>2. PICK j \in DOMAIN fs : f # j /\ Fan(fs, {u, v}) = {f, j} BY <2>1, TwoAround
  <2>3. k \in Fan(fs, {u, v}) BY DEF Fan
  <2>4. Fan(fs, {u, v}) = {f, k} /\ Fan(fs, {u, v}) = {k, f} BY <1>2, <2>2, <2>3
  <2>5. \A i \in DOMAIN fs : {u, v} \subseteq Corners(fs[i]) =>
          \E s \in 1 .. 3 : Ends(Sides(fs[i])[s]) = {u, v}
    <3> SUFFICES ASSUME NEW i \in DOMAIN fs, {u, v} \subseteq Corners(fs[i])
                 PROVE  \E s \in 1 .. 3 : Ends(Sides(fs[i])[s]) = {u, v}
      OBVIOUS
    <3>1. IsTriangle(fs[i]) BY DEF Simplicial
    <3>2. HasSide(fs[i], u, v) \/ HasSide(fs[i], v, u) BY <3>1, SidesAre
    <3>3. PICK s \in 1 .. 3 : Sides(fs[i])[s] = <<u, v>> \/ Sides(fs[i])[s] = <<v, u>>
      BY <3>2 DEF HasSide
    <3>4. Ends(<<u, v>>) = {u, v} /\ Ends(<<v, u>>) = {u, v} BY DEF Ends
    <3> QED BY <3>3, <3>4
  <2>6. f \in Int /\ k \in Int
    <3>1. DOMAIN fs = 1 .. Len(fs) /\ Len(fs) \in Nat BY DEF Simplicial
    <3> QED BY <3>1
  <2>7. CASE f < k
    <3>1. PICK s \in 1 .. 3 : Ends(Sides(fs[f])[s]) = {u, v} BY <2>1, <2>5
    <3>2. Meets(fs, f, s, k) BY <2>4, <2>7, <3>1 DEF Meets
    <3> QED BY <2>1, <3>2 DEF Closed
  <2>8. CASE k < f
    <3>1. PICK s \in 1 .. 3 : Ends(Sides(fs[k])[s]) = {u, v} BY <2>5
    <3>2. Meets(fs, k, s, f) BY <2>4, <2>8, <3>1 DEF Meets
    <3> QED BY <2>1, <3>2 DEF Closed
  <2> QED BY <1>2, <2>6, <2>7, <2>8
<1> QED BY <1>1, <1>2

(* Nothing but all faces is closed.                                        *)
OneBody(fs) == \A C \in SUBSET DOMAIN fs : Closed(fs, C) => C = {} \/ C = DOMAIN fs
OneSurface(fs) == \A T \in Whole(Used(fs), FaceSets(fs)) : T = {} \/ T = Used(fs)

(* One body is one in its vertices.                                        *)
LEMMA BodyIsSurface ==
  ASSUME NEW fs, OneBody(fs)
  PROVE  OneSurface(fs)
<1> SUFFICES ASSUME NEW T \in Whole(Used(fs), FaceSets(fs)), T # {} PROVE T = Used(fs)
  BY DEF OneSurface
<1> DEFINE C == {i \in DOMAIN fs : Corners(fs[i]) \subseteq T}
<1>1. T \subseteq Used(fs) /\ \A i \in DOMAIN fs : Corners(fs[i]) \cap T # {} => i \in C
  BY DEF Whole, FaceSets
<1>2. Closed(fs, C)
  <2> SUFFICES ASSUME NEW i \in DOMAIN fs, NEW j \in DOMAIN fs, NEW s \in 1 .. 3,
                      Meets(fs, i, s, j)
               PROVE  i \in C <=> j \in C
    BY DEF Closed
  <2> DEFINE e == Ends(Sides(fs[i])[s])
  <2>1. e # {} BY DEF Ends
  <2>2. i \in Fan(fs, e) /\ j \in Fan(fs, e) BY DEF Meets
  <2> HIDE DEF e
  <2>3. e \subseteq Corners(fs[i]) /\ e \subseteq Corners(fs[j]) BY <2>2 DEF Fan
  <2> QED BY <1>1, <2>1, <2>3
<1>3. C # {}
  <2>1. PICK x \in T : TRUE OBVIOUS
  <2>2. PICK i \in DOMAIN fs : x \in Corners(fs[i]) BY <1>1, <2>1 DEF Used
  <2> QED BY <1>1, <2>1, <2>2
<1>4. C = DOMAIN fs
  <2>1. C \in SUBSET DOMAIN fs OBVIOUS
  <2> HIDE DEF C
  <2> QED BY <1>2, <1>3, <2>1 DEF OneBody
<1>5. Used(fs) \subseteq T BY <1>4 DEF Used
<1> QED BY <1>1, <1>5

(* If the surface touches itself nowhere, the other way too.               *)
LEMMA SurfaceIsBody ==
  ASSUME NEW fs, Simplicial(fs), Watertight(fs), OneSurface(fs),
         \A v \in Used(fs) : PathOrCycle(Link(fs, v))
  PROVE  OneBody(fs)
<1> SUFFICES ASSUME NEW C \in SUBSET DOMAIN fs, Closed(fs, C), C # {} PROVE C = DOMAIN fs
  BY DEF OneBody
<1>1. ASSUME NEW v, NEW f \in C, v \in Corners(fs[f]), NEW g \in DOMAIN fs, v \in Corners(fs[g])
      PROVE  g \in C
  <2> DEFINE link == Link(fs, v)
             W == UNION {Corners(fs[i]) \ {v} : i \in {j \in C : v \in Corners(fs[j])}}
  <2>1. /\ IsGraph(link)
        /\ \A e \in link : \E i \in DOMAIN fs : v \in Corners(fs[i]) /\ e = Corners(fs[i]) \ {v}
        /\ \A i \in DOMAIN fs : v \in Corners(fs[i]) => Corners(fs[i]) \ {v} \in link
    BY LinkIs
  <2>2. f \in DOMAIN fs /\ v \in Used(fs) BY <1>1 DEF Used
  <2>3. PathOrCycle(link) BY <2>2
  <2> HIDE DEF link
  <2>4. \A u : u \in W <=> \E i \in C : v \in Corners(fs[i]) /\ u \in Corners(fs[i]) /\ u # v
    OBVIOUS
  <2> HIDE DEF W
  <2>5. ASSUME NEW k \in DOMAIN fs, v \in Corners(fs[k]), NEW u \in W, u \in Corners(fs[k])
        PROVE  k \in C
    <3>1. PICK i \in C : v \in Corners(fs[i]) /\ u \in Corners(fs[i]) /\ u # v BY <2>4
    <3> QED BY <2>5, <3>1, AcrossEdge
  <2>6. W \in Whole(UNION link, link)
    <3>1. W \subseteq UNION link
      <4> SUFFICES ASSUME NEW u \in W PROVE u \in UNION link OBVIOUS
      <4>1. PICK i \in C : v \in Corners(fs[i]) /\ u \in Corners(fs[i]) /\ u # v BY <2>4
      <4>2. Corners(fs[i]) \ {v} \in link BY <2>1, <4>1
      <4> QED BY <4>1, <4>2
    <3>2. ASSUME NEW e \in link, NEW u \in e, u \in W PROVE e \subseteq W
      <4>1. PICK k \in DOMAIN fs : v \in Corners(fs[k]) /\ e = Corners(fs[k]) \ {v} BY <2>1
      <4>2. k \in C BY <2>5, <3>2, <4>1
      <4> QED BY <2>4, <4>1, <4>2
    <3>3. \A e \in link : e \cap W = {} \/ e \cap W = e
      <4> SUFFICES ASSUME NEW e \in link, e \cap W # {} PROVE e \cap W = e OBVIOUS
      <4>1. PICK u \in e : u \in W OBVIOUS
      <4>2. e \subseteq W BY <3>2, <4>1
      <4> QED BY <4>2
    <3> QED BY <3>1, <3>3 DEF Whole
  <2>7. \A i \in DOMAIN fs : v \in Corners(fs[i]) => \E u : u \in Corners(fs[i]) /\ u # v
    <3> SUFFICES ASSUME NEW i \in DOMAIN fs PROVE \E u : u \in Corners(fs[i]) /\ u # v OBVIOUS
    <3>1. IsTriangle(fs[i]) BY DEF Simplicial
    <3> QED BY <3>1 DEF IsTriangle, Corners
  <2>8. W # {}
    <3>1. PICK u : u \in Corners(fs[f]) /\ u # v BY <1>1, <2>2, <2>7
    <3> QED BY <1>1, <2>4, <3>1
  <2>9. W = UNION link
    <3>1. link \subseteq SUBSET (UNION link) /\ UNION link # {} BY <2>6, <2>8 DEF Whole
    <3>2. Cardinality(Whole(UNION link, link)) = 2 BY <2>3 DEF PathOrCycle
    <3>3. IsFiniteSet(UNION link) BY <2>1 DEF IsGraph
    <3>4. \A T \in Whole(UNION link, link) : T = {} \/ T = UNION link
      BY <3>1, <3>2, <3>3, WholeIsTwo
    <3> QED BY <2>6, <2>8, <3>4
  <2>10. PICK u : u \in Corners(fs[g]) /\ u # v BY <1>1, <2>7
  <2>11. u \in W
    <3>1. Corners(fs[g]) \ {v} \in link BY <1>1, <2>1
    <3> QED BY <2>9, <2>10, <3>1
  <2> QED BY <1>1, <2>5, <2>10, <2>11
<1> DEFINE T == UNION {Corners(fs[i]) : i \in C}
<1>2. \A x : x \in T <=> \E i \in C : x \in Corners(fs[i]) OBVIOUS
<1> HIDE DEF T
<1>3. ASSUME NEW k \in DOMAIN fs, NEW x \in Corners(fs[k]), x \in T PROVE k \in C
  <2>1. PICK i \in C : x \in Corners(fs[i]) BY <1>2, <1>3
  <2> QED BY <1>1, <2>1
<1>4. T \in Whole(Used(fs), FaceSets(fs))
  <2>1. T \subseteq Used(fs) BY <1>2 DEF Used
  <2>2. ASSUME NEW k \in DOMAIN fs PROVE Corners(fs[k]) \cap T \in {{}, Corners(fs[k])}
    <3>1. CASE Corners(fs[k]) \cap T = {} BY <3>1
    <3>2. CASE Corners(fs[k]) \cap T # {}
      <4>1. k \in C BY <1>3, <3>2
      <4>2. Corners(fs[k]) \subseteq T BY <1>2, <4>1
      <4> QED BY <4>2
    <3> QED BY <3>1, <3>2
  <2> QED BY <2>1, <2>2 DEF Whole, FaceSets
<1>5. \A i \in DOMAIN fs : Corners(fs[i]) # {} BY DEF Corners
<1>6. T # {} BY <1>2, <1>5
<1>7. T = Used(fs) BY <1>4, <1>6 DEF OneSurface
<1>8. ASSUME NEW g \in DOMAIN fs PROVE g \in C
  <2>1. PICK x \in Corners(fs[g]) : TRUE BY <1>5
  <2>2. x \in T BY <1>7, <2>1 DEF Used
  <2> QED BY <1>3, <2>1, <2>2
<1> QED BY <1>8

(* What the property says of the sides of faces.                           *)
LEMMA SidesSay ==
  ASSUME NEW fs
  PROVE  /\ Opposed(fs) <=>
              \A i \in DOMAIN fs : \A side \in ToSet(Sides(fs[i])) :
                \E j \in DOMAIN fs \ {i} : Contains(Sides(fs[j]), <<side[2], side[1]>>)
         /\ Apart(fs) <=>
              \A i, j \in DOMAIN fs :
                i # j => ToSet(Sides(fs[i])) \cap ToSet(Sides(fs[j])) = {}
<1>1. ASSUME NEW f
      PROVE  /\ \A a, b : HasSide(f, a, b) <=> <<a, b>> \in ToSet(Sides(f))
             /\ \A a, b : HasSide(f, a, b) <=> Contains(Sides(f), <<a, b>>)
             /\ \A side \in ToSet(Sides(f)) : side = <<side[1], side[2]>>
  <2>1. DOMAIN Sides(f) = 1 .. 3 /\ Len(Sides(f)) = 3 BY DEF Sides
  <2>2. \A s : s \in 1 .. 3 <=> s = 1 \/ s = 2 \/ s = 3 OBVIOUS
  <2>3. ToSet(Sides(f)) = {Sides(f)[s] : s \in 1 .. 3} BY <2>1 DEF ToSet
  <2>4. \A side : Contains(Sides(f), side) <=> \E s \in 1 .. 3 : Sides(f)[s] = side
    BY <2>1 DEF Contains
  <2>5. \A side \in ToSet(Sides(f)) : side = <<side[1], side[2]>>
    <3> SUFFICES ASSUME NEW s \in 1 .. 3
                 PROVE  Sides(f)[s] = <<Sides(f)[s][1], Sides(f)[s][2]>>
      BY <2>3
    <3> QED BY <2>2 DEF Sides
  <2>6. \A a, b : HasSide(f, a, b) <=> <<a, b>> \in ToSet(Sides(f)) BY <2>3 DEF HasSide
  <2>7. \A a, b : HasSide(f, a, b) <=> Contains(Sides(f), <<a, b>>) BY <2>4 DEF HasSide
  <2> QED BY <2>5, <2>6, <2>7
<1>2. ASSUME Opposed(fs), NEW i \in DOMAIN fs, NEW side \in ToSet(Sides(fs[i]))
      PROVE  \E j \in DOMAIN fs \ {i} : Contains(Sides(fs[j]), <<side[2], side[1]>>)
  <2>1. side = <<side[1], side[2]>> BY <1>1
  <2>2. HasSide(fs[i], side[1], side[2]) BY <1>1, <2>1
  <2>3. PICK j \in DOMAIN fs : j # i /\ HasSide(fs[j], side[2], side[1]) BY <1>2, <2>2 DEF Opposed
  <2> QED BY <1>1, <2>3
<1>3. ASSUME \A i \in DOMAIN fs : \A side \in ToSet(Sides(fs[i])) :
               \E j \in DOMAIN fs \ {i} : Contains(Sides(fs[j]), <<side[2], side[1]>>)
      PROVE  Opposed(fs)
  <2> SUFFICES ASSUME NEW i \in DOMAIN fs, NEW a, NEW b, HasSide(fs[i], a, b)
               PROVE  \E j \in DOMAIN fs : j # i /\ HasSide(fs[j], b, a)
    BY DEF Opposed
  <2>1. <<a, b>> \in ToSet(Sides(fs[i])) BY <1>1
  <2>2. PICK j \in DOMAIN fs \ {i} : Contains(Sides(fs[j]), <<b, a>>) BY <1>3, <2>1
  <2> QED BY <1>1, <2>2
<1>4. ASSUME Apart(fs), NEW i \in DOMAIN fs, NEW j \in DOMAIN fs, i # j
      PROVE  ToSet(Sides(fs[i])) \cap ToSet(Sides(fs[j])) = {}
  <2> SUFFICES ASSUME NEW side \in ToSet(Sides(fs[i])), side \in ToSet(Sides(fs[j])) PROVE FALSE
    OBVIOUS
  <2>1. side = <<side[1], side[2]>> BY <1>1
  <2>2. HasSide(fs[i], side[1], side[2]) /\ HasSide(fs[j], side[1], side[2]) BY <1>1, <2>1
  <2> QED BY <1>4, <2>2 DEF Apart
<1>5. ASSUME \A i, j \in DOMAIN fs :
               i # j => ToSet(Sides(fs[i])) \cap ToSet(Sides(fs[j])) = {}
      PROVE  Apart(fs)
  <2> SUFFICES ASSUME NEW i \in DOMAIN fs, NEW j \in DOMAIN fs, NEW a, NEW b,
                      HasSide(fs[i], a, b), HasSide(fs[j], a, b), i # j
               PROVE  FALSE
    BY DEF Apart
  <2>1. <<a, b>> \in ToSet(Sides(fs[i])) \cap ToSet(Sides(fs[j])) BY <1>1
  <2> QED BY <1>5, <2>1
<1> QED BY <1>2, <1>3, <1>4, <1>5

(* What verify_stl accepts.                                                *)
LEMMA SolidIs ==
  ASSUME NEW fs, Simplicial(fs), fs # << >>
  PROVE  IsSolid(fs) <=> /\ Cardinality(Whole(Used(fs), FaceSets(fs))) = 2
                         /\ \A v \in Used(fs) : PathOrCycle(Link(fs, v))
                         /\ Opposed(fs) /\ Apart(fs)
<1>1. Bodies(fs) = 1 <=> OneBody(fs) BY BodiesAre DEF Simplicial, OneBody
<1>2. Watertight(fs) /\ WindingConsistent(fs) <=> Opposed(fs) /\ Apart(fs) BY WoundIs
<1>3. Cardinality(Whole(Used(fs), FaceSets(fs))) = 2 <=> OneSurface(fs)
  <2>1. FaceSets(fs) \subseteq SUBSET Used(fs) BY DEF FaceSets, Used
  <2>2. Used(fs) # {}
    <3>1. 1 \in DOMAIN fs BY DEF Simplicial
    <3>2. fs[1][1] \in Corners(fs[1]) BY DEF Corners
    <3>3. fs[1][1] \in Used(fs) BY <3>1, <3>2 DEF Used
    <3> QED BY <3>3
  <2>3. IsFiniteSet(Used(fs)) BY UsedFinite
  <2> QED BY <2>1, <2>2, <2>3, WholeIsTwo DEF OneSurface
<1>4. \A v : IsGraph(Link(fs, v)) BY LinkIs
<1>5. ASSUME IsSolid(fs) PROVE \A v \in Used(fs) : PathOrCycle(Link(fs, v))
  <2>1. \A v \in Used(fs) : LinkIsManifold(Link(fs, v))
    BY <1>5 DEF IsSolid, IsManifold, BadVertices
  <2> QED BY <1>4, <2>1, ManifoldIsPath
<1>6. ASSUME Watertight(fs), \A v \in Used(fs) : PathOrCycle(Link(fs, v))
      PROVE  IsManifold(Used(fs), fs)
  <2>1. ASSUME NEW v \in Used(fs) PROVE LinkIsManifold(Link(fs, v))
    <3>1. \A u \in UNION Link(fs, v) : Degree(Link(fs, v), u) = 2 BY <1>6, LinkDegree
    <3> QED BY <1>4, <1>6, <3>1, CycleIsManifold
  <2>2. SingularEdges(fs) = {} BY <1>6 DEF SingularEdges, Watertight
  <2> QED BY <2>1, <2>2 DEF IsManifold, BadVertices
<1>7. OneBody(fs) => OneSurface(fs) BY BodyIsSurface
<1>8. /\ Watertight(fs) /\ OneSurface(fs) /\ (\A v \in Used(fs) : PathOrCycle(Link(fs, v)))
      => OneBody(fs)
  BY SurfaceIsBody
<1> QED BY <1>1, <1>2, <1>3, <1>5, <1>6, <1>7, <1>8 DEF IsSolid

(* The inductive invariant: the faces are triangles of the mesh, as wound  *)
(* or the other way round, each of them once and in order.                 *)
OneOf(f, t) == f = t \/ f = <<t[1], t[3], t[2]>>
MeshInv ==
  IF mesh = "none" THEN faces = << >> /\ loaded = << >>
  ELSE /\ mesh \in DOMAIN Meshes /\ loaded \in Seq(DOMAIN Meshes[mesh].triangles)
       /\ faces \in Seq(Int \X Int \X Int) /\ Len(faces) = Len(loaded)
       /\ \A i \in 1 .. Len(faces) : OneOf(faces[i], Meshes[mesh].triangles[loaded[i]])
       /\ \A i, j \in 1 .. Len(loaded) : i < j => loaded[i] < loaded[j]

LEMMA TrianglesAre ==
  ASSUME NEW m \in DOMAIN Meshes
  PROVE  /\ Simplicial(Meshes[m].triangles)
         /\ \A i \in DOMAIN Meshes[m].triangles : i \in Nat
<1> DEFINE ts == Meshes[m].triangles
           V == 1 .. Meshes[m].vertices
<1>1. /\ ts \in Seq(V \X V \X V) /\ V \subseteq Int
      /\ \A i \in DOMAIN ts : Cardinality(Corners(ts[i])) = 3
      /\ \A i, j \in DOMAIN ts : Corners(ts[i]) = Corners(ts[j]) => i = j
  <2>1. V \subseteq Int OBVIOUS
  <2>2. /\ ts \in Seq(V \X V \X V)
        /\ \A i \in DOMAIN ts : Cardinality(Corners(ts[i])) = 3
        /\ \A i, j \in DOMAIN ts : Corners(ts[i]) = Corners(ts[j]) => i = j
    BY MeshesAssumption, Zenon
  <2> QED BY <2>1, <2>2
<1> HIDE DEF ts, V
<1>2. DOMAIN ts = 1 .. Len(ts) /\ Len(ts) \in Nat BY <1>1
<1>3. \A i \in DOMAIN ts : ts[i] \in V \X V \X V BY <1>1
<1>4. \A i \in DOMAIN ts : ts[i] \in Int \X Int \X Int BY <1>1, <1>3
<1>5. ts \in Seq(Int \X Int \X Int) BY <1>1, <1>2, <1>4
<1>6. ASSUME NEW i \in DOMAIN ts PROVE IsTriangle(ts[i])
  <2> DEFINE f == ts[i]
  <2>1. \A a, b : Cardinality({a, b}) <= 2
    <3> SUFFICES ASSUME NEW a, NEW b PROVE Cardinality({a, b}) <= 2 OBVIOUS
    <3>1. IsFiniteSet({a}) /\ Cardinality({a}) = 1 BY FS_Singleton
    <3>2. Cardinality({a} \cup {b}) = IF b \in {a} THEN 1 ELSE 2
      <4>1. Cardinality({a} \cup {b}) = IF b \in {a} THEN Cardinality({a}) ELSE Cardinality({a}) + 1
        BY <3>1, FS_AddElement, Zenon
      <4> QED BY <3>1, <4>1
    <3>3. {a} \cup {b} = {a, b} OBVIOUS
    <3> QED BY <3>2, <3>3
  <2>2. Cardinality(Corners(f)) = 3 BY <1>1
  <2>3. f[1] = f[2] => Corners(f) = {f[1], f[3]} BY DEF Corners
  <2>4. f[2] = f[3] => Corners(f) = {f[1], f[3]} BY DEF Corners
  <2>5. f[3] = f[1] => Corners(f) = {f[1], f[2]} BY DEF Corners
  <2>6. f[1] # f[2] /\ f[2] # f[3] /\ f[3] # f[1]
    <3> HIDE DEF f
    <3>1. \A a, b : Corners(f) # {a, b}
      <4> SUFFICES ASSUME NEW a, NEW b, Corners(f) = {a, b} PROVE FALSE OBVIOUS
      <4>1. Cardinality({a, b}) = 3 BY <2>2
      <4>2. Cardinality({a, b}) <= 2 BY <2>1
      <4> QED BY <4>1, <4>2
    <3> QED BY <2>3, <2>4, <2>5, <3>1
  <2> QED BY <1>4, <2>6 DEF IsTriangle
<1> QED BY <1>1, <1>2, <1>5, <1>6 DEF Simplicial, ts

LEMMA LoadedIsSimplicial ==
  ASSUME MeshInv, faces # << >>
  PROVE  Simplicial(faces)
<1> DEFINE ts == Meshes[mesh].triangles
<1>1. mesh # "none" BY DEF MeshInv
<1>2. /\ mesh \in DOMAIN Meshes /\ loaded \in Seq(DOMAIN ts)
      /\ faces \in Seq(Int \X Int \X Int) /\ Len(faces) = Len(loaded)
      /\ \A i \in 1 .. Len(faces) : OneOf(faces[i], ts[loaded[i]])
      /\ \A i, j \in 1 .. Len(loaded) : i < j => loaded[i] < loaded[j]
  BY <1>1 DEF MeshInv
<1>3. Simplicial(ts) /\ \A i \in DOMAIN ts : i \in Nat BY <1>2, TrianglesAre
<1> HIDE DEF ts
<1>4. DOMAIN faces = 1 .. Len(faces) /\ Len(faces) \in Nat
      /\ \A i \in 1 .. Len(faces) : loaded[i] \in DOMAIN ts
  BY <1>2
<1>5. ASSUME NEW f, NEW t, OneOf(f, t), IsTriangle(t)
      PROVE  IsTriangle(f) /\ Corners(f) = Corners(t)
  BY <1>5 DEF OneOf, IsTriangle, Corners
<1>6. \A i \in DOMAIN faces : IsTriangle(ts[loaded[i]]) BY <1>3, <1>4 DEF Simplicial
<1>7. \A i \in DOMAIN faces : IsTriangle(faces[i]) /\ Corners(faces[i]) = Corners(ts[loaded[i]])
  BY <1>2, <1>4, <1>5, <1>6
<1>8. ASSUME NEW i \in DOMAIN faces, NEW j \in DOMAIN faces, Corners(faces[i]) = Corners(faces[j])
      PROVE  i = j
  <2>1. loaded[i] = loaded[j]
    <3>1. \A k, l \in DOMAIN ts : Corners(ts[k]) = Corners(ts[l]) => k = l BY <1>3 DEF Simplicial
    <3>2. loaded[i] \in DOMAIN ts /\ loaded[j] \in DOMAIN ts BY <1>4
    <3>3. Corners(ts[loaded[i]]) = Corners(ts[loaded[j]]) BY <1>7, <1>8
    <3> QED BY <3>1, <3>2, <3>3
  <2>2. loaded[i] \in Nat /\ loaded[j] \in Nat /\ i \in Int /\ j \in Int BY <1>3, <1>4
  <2>3. i \in 1 .. Len(loaded) /\ j \in 1 .. Len(loaded) BY <1>2, <1>4
  <2>4. ~ (i < j)
    <3> SUFFICES ASSUME i < j PROVE FALSE OBVIOUS
    <3>1. loaded[i] < loaded[j] BY <1>2, <2>3
    <3> QED BY <2>1, <2>2, <3>1
  <2>5. ~ (j < i)
    <3> SUFFICES ASSUME j < i PROVE FALSE OBVIOUS
    <3>1. loaded[j] < loaded[i] BY <1>2, <2>3
    <3> QED BY <2>1, <2>2, <3>1
  <2> QED BY <2>2, <2>4, <2>5
<1> QED BY <1>2, <1>7, <1>8 DEF Simplicial

LEMMA AddKeeps ==
  ASSUME MeshInv, AddFace
  PROVE  MeshInv'
<1> DEFINE ts == Meshes[mesh].triangles
           n == Len(faces)
<1>1. mesh # "none" /\ mesh' = mesh BY DEF AddFace
<1>2. /\ mesh \in DOMAIN Meshes /\ loaded \in Seq(DOMAIN ts)
      /\ faces \in Seq(Int \X Int \X Int) /\ n = Len(loaded)
      /\ \A i \in 1 .. n : OneOf(faces[i], ts[loaded[i]])
      /\ \A i, j \in 1 .. Len(loaded) : i < j => loaded[i] < loaded[j]
  BY <1>1 DEF MeshInv
<1>3. Simplicial(ts) /\ \A i \in DOMAIN ts : i \in Nat BY <1>2, TrianglesAre
<1>4. PICK i \in DOMAIN ts : /\ loaded # << >> => i > Last(loaded)
                             /\ loaded' = Append(loaded, i)
                             /\ \E f : OneOf(f, ts[i]) /\ faces' = Append(faces, f)
  BY DEF AddFace, OneOf
<1>5. PICK f : OneOf(f, ts[i]) /\ faces' = Append(faces, f) BY <1>4
<1> HIDE DEF ts
<1>6. f \in Int \X Int \X Int
  <2>1. ts[i] \in Int \X Int \X Int BY <1>3 DEF Simplicial
  <2> QED BY <1>5, <2>1 DEF OneOf
<1>7. n \in Nat /\ \A k \in 1 .. n : loaded[k] \in DOMAIN ts /\ loaded[k] \in Nat BY <1>2, <1>3
<1>8. /\ loaded' \in Seq(DOMAIN ts) /\ faces' \in Seq(Int \X Int \X Int)
      /\ Len(faces') = n + 1 /\ Len(loaded') = n + 1
      /\ loaded'[n + 1] = i /\ faces'[n + 1] = f
      /\ \A k \in 1 .. n : loaded'[k] = loaded[k] /\ faces'[k] = faces[k]
  BY <1>2, <1>4, <1>5, <1>6
<1> HIDE DEF n
<1>9. \A k \in 1 .. n + 1 : k = n + 1 \/ k \in 1 .. n BY <1>7
<1>10. \A k \in 1 .. n + 1 : OneOf(faces'[k], ts[loaded'[k]]) BY <1>2, <1>5, <1>8, <1>9
<1>11. \A k \in 1 .. n : loaded[k] < i
  <2> SUFFICES ASSUME NEW k \in 1 .. n PROVE loaded[k] < i OBVIOUS
  <2>1. n \in 1 .. n /\ loaded # << >> /\ Last(loaded) = loaded[n] BY <1>2, <1>7 DEF Last
  <2>2. loaded[n] < i /\ i \in Nat BY <1>3, <1>4, <1>7, <2>1
  <2>3. k = n \/ loaded[k] < loaded[n] BY <1>2, <1>7, <2>1
  <2> QED BY <1>7, <2>1, <2>2, <2>3
<1>12. \A k, m \in 1 .. n + 1 : k < m => loaded'[k] < loaded'[m]
  <2> SUFFICES ASSUME NEW k \in 1 .. n + 1, NEW m \in 1 .. n + 1, k < m
               PROVE  loaded'[k] < loaded'[m]
    OBVIOUS
  <2>1. k \in 1 .. n BY <1>7
  <2>2. CASE m = n + 1 BY <1>8, <1>11, <2>1, <2>2
  <2>3. CASE m \in 1 .. n
    <3>1. loaded'[k] = loaded[k] /\ loaded'[m] = loaded[m] BY <1>8, <2>1, <2>3
    <3>2. k \in 1 .. Len(loaded) /\ m \in 1 .. Len(loaded) BY <1>2, <2>1, <2>3
    <3> QED BY <1>2, <3>1, <3>2
  <2> QED BY <1>9, <2>2, <2>3
<1> QED BY <1>1, <1>2, <1>8, <1>10, <1>12 DEF MeshInv, ts

(* Whatever is loaded is made of triangles, no two with the same corners.  *)
THEOREM MeshInductive == MeshSpec => []MeshInv
<1>1. MeshInit => MeshInv BY DEF MeshInit, MeshInv
<1>2. MeshInv /\ [MeshNext]_meshVars => MeshInv'
  <2> SUFFICES ASSUME MeshInv, [MeshNext]_meshVars PROVE MeshInv' OBVIOUS
  <2>1. CASE Open
    <3>1. mesh = "none" /\ faces = << >> /\ loaded = << >> BY <2>1 DEF Open, MeshInv
    <3>2. mesh' \in DOMAIN Meshes /\ mesh' # "none" /\ faces' = << >> /\ loaded' = << >>
      BY <2>1, <3>1, MeshesAssumption DEF Open
    <3> QED BY <3>2 DEF MeshInv
  <2>2. CASE AddFace BY <2>2, AddKeeps
  <2>3. CASE UNCHANGED meshVars BY <2>3 DEF meshVars, MeshInv
  <2> QED BY <2>1, <2>2, <2>3 DEF MeshNext
<1> QED BY <1>1, <1>2, PTL DEF MeshSpec

(* Of any mesh, any part of its triangles, wound in any way: verify_stl    *)
(* passes it as one solid exactly if it is one closed surface, wound the   *)
(* same way all over, that touches itself nowhere (artifacts.py:468-482).  *)
THEOREM SolidExact == MeshSpec => []SolidIsExact
<1>1. MeshInv => SolidIsExact
  <2> SUFFICES ASSUME MeshInv, faces # << >>
               PROVE  IsSolid(faces) <=>
                        /\ Cardinality(Whole(Used(faces), FaceSets(faces))) = 2
                        /\ \A v \in Used(faces) : PathOrCycle(Link(faces, v))
                        /\ Opposed(faces) /\ Apart(faces)
    BY SidesSay DEF SolidIsExact
  <2> QED BY LoadedIsSimplicial, SolidIs
<1> QED BY <1>1, MeshInductive, PTL
=============================================================================
