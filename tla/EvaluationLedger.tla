-------------------------- MODULE EvaluationLedger --------------------------
(***************************************************************************)
(* The evaluation ledger of src/core/evaluation_ledger.py: a run that      *)
(* leaves one record per scheduled sample, whatever the adapter and the    *)
(* disk do, and the audit that replays it later.                           *)
(*                                                                         *)
(* A document is a value and its SHA-256 is that value.  The disk may lose *)
(* or damage a document at any time, and after the run somebody may change *)
(* one, the summary and its hashes included.                               *)
(***************************************************************************)
EXTENDS Naturals, Sequences

CONSTANTS
  Schedule,    \* the sample ids, in order
  Endpoint,    \* what an executor may return: passed, satisfied, total
  Manifest,    \* the document that pins the schedule and the identities
  OtherManifest, \* another manifest of the same schedule
  Garbage,     \* bytes that are not the JSON of any document
  None,
  MaxChanges   \* bound of the model on the documents lost or changed

Sample == {Schedule[i] : i \in 1 .. Len(Schedule)}
ASSUME ScheduleAssumption ==
  /\ Schedule \in Seq(Sample) /\ Schedule # << >>
  /\ \A i, j \in 1 .. Len(Schedule) : Schedule[i] = Schedule[j] => i = j
  /\ Sample \cap {"manifest", "summary"} = {}
ASSUME EndpointAssumption ==
  /\ Endpoint \subseteq [passed : BOOLEAN, satisfied : Nat, total : Nat]
  /\ MaxChanges \in Nat

Name == Sample \cup {"manifest", "summary"}

VARIABLES
  pc,          \* what the run does next
  outcomes,    \* the outcomes so far, one per sample
  hashes,      \* by name, what the run believes it has published, or None
  disk,        \* by name, the document in the output directory, or None
  returned,    \* the summary run_scheduled_evaluation returned, or None
  measured,    \* (history) what the executor really returned for each sample
  changes      \* how many documents have been lost or changed
vars == <<pc, outcomes, hashes, disk, returned, measured, changes>>

(* _metrics: the counts are ordered, and a pass has met every requirement. *)
Consistent(e) == /\ e.satisfied <= e.total
                 /\ e.passed => e.total # 0 /\ e.satisfied = e.total

(* _validate_outcome.                                                      *)
Row == [id : Sample, status : {"load_error", "execution_error"}, metrics : {None},
        persisted : BOOLEAN]
       \cup [id : Sample, status : {"evaluated"},
             metrics : {e \in Endpoint : Consistent(e)}, persisted : BOOLEAN]
Ledgers == {rows \in [1 .. Len(Schedule) -> Row] :
              \A i \in 1 .. Len(Schedule) : rows[i].id = Schedule[i]}

Init ==
  /\ pc = "manifest"
  /\ outcomes = << >>
  /\ hashes = [n \in Name |-> None]
  /\ disk = [n \in Name |-> None]
  /\ returned = None
  /\ measured = [s \in Sample |-> None]
  /\ changes = 0

(* write_text_atomic without overwrite: it refuses a name that is taken,   *)
(* and it may raise before or after the document has got its name.         *)
Written(n, document) == disk[n] = None /\ disk' = [disk EXCEPT ![n] = document]
NotWritten(n, document) == UNCHANGED disk \/ Written(n, document)

Abort == /\ pc' = "aborted"
         /\ UNCHANGED <<outcomes, hashes, returned, measured, changes>>

WriteManifest ==
  /\ pc = "manifest"
  /\ Written("manifest", Manifest)
  /\ hashes' = [hashes EXCEPT !["manifest"] = Manifest]
  /\ pc' = "evaluate"
  /\ UNCHANGED <<outcomes, returned, measured, changes>>

ManifestFails == pc = "manifest" /\ NotWritten("manifest", Manifest) /\ Abort

Current == Schedule[Len(outcomes)]
Outcome(status, metrics) ==
  [id |-> Schedule[Len(outcomes) + 1], status |-> status, metrics |-> metrics,
   persisted |-> FALSE]

(* An executor that returns inconsistent counts has failed, like one that  *)
(* raises.                                                                 *)
Evaluate ==
  /\ pc = "evaluate" /\ Len(outcomes) < Len(Schedule)
  /\ \/ \E status \in {"load_error", "execution_error"} :
          /\ outcomes' = Append(outcomes, Outcome(status, None))
          /\ UNCHANGED measured
     \/ \E e \in Endpoint :
          /\ outcomes' = Append(outcomes, IF Consistent(e) THEN Outcome("evaluated", e)
                                          ELSE Outcome("execution_error", None))
          /\ measured' = [measured EXCEPT ![Schedule[Len(outcomes) + 1]] = e]
  /\ pc' = "persist"
  /\ UNCHANGED <<hashes, disk, returned, changes>>

Retained == [outcomes[Len(outcomes)] EXCEPT !.persisted = TRUE]
AfterRow == IF Len(outcomes) = Len(Schedule) THEN "summary" ELSE "evaluate"

Persist ==
  /\ pc = "persist"
  /\ Written(Current, Retained)
  /\ outcomes' = [outcomes EXCEPT ![Len(outcomes)] = Retained]
  /\ hashes' = [hashes EXCEPT ![Current] = Retained]
  /\ pc' = AfterRow
  /\ UNCHANGED <<returned, measured, changes>>

(* The record is kept in the summary only.                                 *)
PersistFails ==
  /\ pc = "persist"
  /\ NotWritten(Current, Retained)
  /\ pc' = AfterRow
  /\ UNCHANGED <<outcomes, hashes, returned, measured, changes>>

(* The slip of looking only at whether the documents exist.                *)
IssuesIfMissing(h) == {n \in Name : h[n] # None /\ disk[n] = None}

(* _artifact_issues: the documents that are not what they were hashed as.  *)
Issues(h) == {n \in Name : h[n] # None /\ disk[n] # h[n]}

Has(row) == row.metrics # None
Available(row) == Has(row) /\ row.metrics.total > 0

(* The slip of admitting samples that measured nothing.                    *)
ValidIfEvaluated(rows, issues) ==
  issues = {} /\ \A i \in 1 .. Len(Schedule) : rows[i].persisted /\ rows[i].status = "evaluated"

ValidForInference(rows, issues) ==
  /\ issues = {}
  /\ \A i \in 1 .. Len(Schedule) :
       rows[i].persisted /\ rows[i].status = "evaluated" /\ Available(rows[i])

Status(rows, issues) ==
  IF issues # {} THEN "INTEGRITY_ERROR"
  ELSE IF \A i \in 1 .. Len(Schedule) : rows[i].persisted /\ rows[i].status = "evaluated"
       THEN "COMPLETE" ELSE "INCOMPLETE_OR_ERROR"

(* One pass over the outcomes: passes, and requirements of the samples     *)
(* that had any.                                                           *)
Nothing == [completion |-> 0, satisfied |-> 0, total |-> 0, available |-> 0]
Added(sum, row) ==
  IF ~ Has(row) THEN sum
  ELSE [completion |-> sum.completion + IF row.metrics.passed THEN 1 ELSE 0,
        satisfied |-> sum.satisfied + row.metrics.satisfied,
        total |-> sum.total + row.metrics.total,
        available |-> sum.available + IF Available(row) THEN 1 ELSE 0]
Counts(rows) ==
  LET sum[i \in 0 .. Len(Schedule)] == IF i = 0 THEN Nothing ELSE Added(sum[i - 1], rows[i])
  IN  sum[Len(Schedule)]

Summary(rows, h, issues) ==
  [outcomes |-> rows, hashes |-> h, issues |-> issues, status |-> Status(rows, issues),
   valid |-> ValidForInference(rows, issues), counts |-> Counts(rows)]

WriteSummary ==
  /\ pc = "summary"
  /\ LET s == Summary(outcomes, hashes, Issues(hashes))
     IN  Written("summary", s) /\ returned' = s
  /\ pc' = "done"
  /\ UNCHANGED <<outcomes, hashes, measured, changes>>

SummaryFails ==
  /\ pc = "summary"
  /\ NotWritten("summary", Summary(outcomes, hashes, Issues(hashes)))
  /\ Abort

(* KeyboardInterrupt, MemoryError, or the end of the process.              *)
Interrupted == pc \notin {"done", "aborted"} /\ UNCHANGED disk /\ Abort
-----------------------------------------------------------------------------
(* What may happen to a document: it is lost, damaged, or replaced by      *)
(* another one of its kind; and a whole ledger may be made up.             *)
HashesOf(m, rows) ==
  [n \in Name |->
     IF n = "manifest" THEN m
     ELSE IF \E i \in 1 .. Len(Schedule) : n = Schedule[i] /\ rows[i].persisted
          THEN rows[CHOOSE i \in 1 .. Len(Schedule) : n = Schedule[i]] ELSE None]

Edited(s) ==
  {[s EXCEPT !.outcomes = rows] : rows \in Ledgers}
  \cup {[s EXCEPT !.valid = ~ @], [s EXCEPT !.status = "COMPLETE"],
        [s EXCEPT !.counts.completion = @ + 1], [s EXCEPT !.issues = {}]}

Replacement(n) ==
  CASE n = "manifest" -> {Manifest, OtherManifest}
    [] n = "summary" -> IF returned = None THEN {} ELSE Edited(returned)
    [] OTHER -> {row \in Row : row.id = n /\ row.persisted}

Change ==
  /\ changes < MaxChanges
  /\ \E n \in Name :
       \E document \in {None, Garbage} \cup Replacement(n) :
         document # disk[n] /\ disk' = [disk EXCEPT ![n] = document]
  /\ changes' = changes + 1
  /\ UNCHANGED <<pc, outcomes, hashes, returned, measured>>

Forge ==
  /\ changes < MaxChanges
  /\ \E m \in {Manifest, OtherManifest}, rows \in Ledgers :
       LET h == HashesOf(m, rows)
       IN  disk' = [h EXCEPT !["summary"] = Summary(rows, h, {})]
  /\ changes' = changes + 1
  /\ UNCHANGED <<pc, outcomes, hashes, returned, measured>>

Next == \/ WriteManifest \/ ManifestFails \/ Evaluate \/ Persist \/ PersistFails
        \/ WriteSummary \/ SummaryFails \/ Interrupted \/ Change \/ Forge
Spec == Init /\ [][Next]_vars
-----------------------------------------------------------------------------
(* audit_scheduled_evaluation, without and with the externally kept hashes *)
(* of the manifest and the summary.                                        *)
Readable == /\ disk["manifest"] \in {Manifest, OtherManifest}
            /\ disk["summary"] \notin {None, Garbage}

Verified ==
  /\ Readable
  /\ LET s == disk["summary"]
         h == HashesOf(disk["manifest"], s.outcomes)
     IN  /\ s.outcomes \in Ledgers
         /\ Issues(h) = {}
         /\ s.hashes = h
         /\ s = Summary(s.outcomes, h, Issues(h))

Anchored == Verified /\ disk["manifest"] = Manifest /\ disk["summary"] = returned

AuditValid == disk["summary"].valid

(* No summary is a document that cannot be read.                           *)
ASSUME DocumentAssumption ==
  /\ None \notin Row \cup {Manifest, OtherManifest}
  /\ \A m \in {Manifest, OtherManifest}, rows \in Ledgers :
       Summary(rows, HashesOf(m, rows), {}) \notin {None, Garbage}

(* The audit accepts exactly the directories that an undisturbed run could *)
(* have left: those that hold the summary of some outcomes and the         *)
(* documents of the ones it says were persisted.                           *)
Honest ==
  \E m \in {Manifest, OtherManifest} : disk["manifest"] = m /\ \E rows \in Ledgers :
    /\ disk["summary"] = Summary(rows, HashesOf(m, rows), {})
    /\ \A i \in 1 .. Len(Schedule) : rows[i].persisted => disk[Schedule[i]] = rows[i]

AuditIsExact == Verified <=> Honest

(* An undamaged finished ledger passes the audit, and one that passes with *)
(* the hashes kept outside tells what was measured: every outcome is the   *)
(* executor's, and valid_for_inference means that each sample was measured *)
(* against some requirement and its record is still there.                 *)
AnchoredIsTrue ==
  /\ pc = "done" /\ changes = 0 => Anchored
  /\ pc = "done" /\ Anchored =>
       \A i \in 1 .. Len(Schedule) :
         LET row == disk["summary"].outcomes[i]
         IN  /\ Has(row) => row.metrics = measured[Schedule[i]]
             /\ AuditValid => /\ disk[Schedule[i]] = row
                              /\ Has(row) /\ row.metrics.total > 0
=============================================================================
