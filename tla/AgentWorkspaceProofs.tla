------------------------ MODULE AgentWorkspaceProofs ------------------------
(***************************************************************************)
(* Proofs about AgentWorkspace, for any number of runs, components and     *)
(* revisions: a recorded checkpoint is on disk as it was hashed under any  *)
(* interleaving of runs, and runs that follow one another lose nothing.    *)
(***************************************************************************)
EXTENDS AgentWorkspace, TLAPS

Active == {"checkpoint", "record", "drafts", "complete"}

(* The types, without the bounds of the model on revisions.                *)
FrameInv ==
  \A r \in Run :
    /\ Going(r) => run[r].revision \in Revision
    /\ run[r].pc \in Active => /\ run[r].stage \in Stage /\ run[r].components \in Stage
                               /\ run[r].stage <= run[r].components
    /\ run[r].pc = "complete" => run[r].stage = run[r].components
    /\ run[r].pc \in {"record", "complete"} => run[r].file = 1

LEMMA LastOfType ==
  ASSUME NEW seq \in Seq(Entry), NEW n \in Nat
  PROVE  /\ LastOf(seq, n) \in Seq(Entry)
         /\ \A d \in Nat : d < n /\ d < Len(seq) =>
              /\ Len(LastOf(seq, n)) > d
              /\ LastOf(seq, n)[Len(LastOf(seq, n)) - d] = seq[Len(seq) - d]
PROOF
  <1> DEFINE a == IF Len(seq) > n THEN Len(seq) - n + 1 ELSE 1
             last == SubSeq(seq, a, Len(seq))
  <1>1. Len(seq) \in Nat /\ a \in Nat /\ a >= 1 /\ a <= Len(seq) + 1
        /\ (Len(seq) > n => a = Len(seq) - n + 1) /\ (Len(seq) <= n => a = 1)
    OBVIOUS
  <1>3. LastOf(seq, n) = last
    BY DEF LastOf
  <1> HIDE DEF a
  <1>2. /\ last \in Seq(Entry) /\ Len(last) = Len(seq) - a + 1
        /\ \A i \in 1 .. Len(last) : last[i] = seq[a + i - 1]
    BY <1>1
  <1>4. ASSUME NEW d \in Nat, d < n, d < Len(seq)
        PROVE  Len(last) > d /\ last[Len(last) - d] = seq[Len(seq) - d]
    <2>1. Len(last) > d
      BY <1>1, <1>2, <1>4
    <2>2. Len(last) - d \in 1 .. Len(last) /\ a + (Len(last) - d) - 1 = Len(seq) - d
      BY <1>1, <1>2, <1>4, <2>1
    <2> HIDE DEF last
    <2> QED
      BY <2>1, <2>2, <1>1, <1>2
  <1> QED
    BY <1>2, <1>3, <1>4

LEMMA OrderFacts ==
  /\ Len(Order) \in Nat /\ Len(Order) >= 1
  /\ \A i \in 1 .. Len(Order) : Order[i] \in File
  /\ \A f \in File : \E i \in 1 .. Len(Order) : f = Order[i]
  /\ MaxComponents \in Nat /\ MaxComponents >= 1
  /\ MaxRevision \in Nat /\ MaxHistory \in Nat /\ MaxHistory > 1
PROOF
  BY OrderAssumption, BoundsAssumption DEF File

(* What a run's step makes of the runs.                                    *)
LEMMA Shapes ==
  ASSUME WorkspaceTypeOK, FrameInv, NEW r \in Run, RunStep(r)
  PROVE  /\ run' \in [Run -> Frame]
         /\ \A q \in Run : q # r => run'[q] = run[q]
PROOF
  <1>0. run \in [Run -> Frame] /\ run[r] \in Frame
    BY DEF WorkspaceTypeOK
  <1> DEFINE v == run[r]
  <1>a. /\ v.file \in 1 .. Len(Order) /\ v.stage \in 0 .. MaxComponents
        /\ v.components \in 0 .. MaxComponents
    BY <1>0 DEF Frame
  <1>b. ASSUME NEW pc \in PC, NEW n \in 0 .. MaxComponents, NEW s \in 0 .. MaxComponents,
               NEW f \in 1 .. Len(Order)
        PROVE  /\ [v EXCEPT !.pc = pc, !.components = n, !.stage = s, !.file = f] \in Frame
               /\ [v EXCEPT !.pc = pc, !.file = f, !.stage = s] \in Frame
               /\ [v EXCEPT !.file = f, !.pc = pc] \in Frame
               /\ [v EXCEPT !.file = f] \in Frame
    BY <1>0 DEF Frame
  <1>1. CASE BeginRun(r)
    <2>1. NextRevision \in Revision
      <3>1. CASE project = Void
        BY <1>1, <3>1, OrderFacts DEF BeginRun, NextRevision, Revision
      <3>2. CASE project # Void
        <4>1. project.revision \in Revision
          BY <3>2 DEF WorkspaceTypeOK, State
        <4> QED
          BY <1>1, <3>2, <4>1, OrderFacts DEF BeginRun, NextRevision, Revision
      <3> QED
        BY <3>1, <3>2
    <2>2. Kept \in Seq(Entry)
      <3>1. CASE project = Void
        BY <3>1 DEF Kept
      <3>2. CASE project # Void
        <4>1. project.history \in Seq(Entry)
          BY <3>2 DEF WorkspaceTypeOK, State
        <4> QED
          BY <3>2, <4>1, LastOfType, OrderFacts DEF Kept
      <3> QED
        BY <3>1, <3>2
    <2>3. [v EXCEPT !.pc = "planning", !.revision = NextRevision, !.history = Kept] \in Frame
      BY <1>0, <2>1, <2>2 DEF Frame, PC
    <2> QED
      BY <1>0, <1>1, <2>3 DEF BeginRun
  <1>2. CASE Planned(r)
    <2>1. PICK n \in Stage :
            run' = [run EXCEPT ![r] = [@ EXCEPT !.pc = "checkpoint", !.components = n,
                                                !.stage = 1, !.file = 1]]
      BY <1>2 DEF Planned
    <2>2. [v EXCEPT !.pc = "checkpoint", !.components = n, !.stage = 1, !.file = 1] \in Frame
      <3>1. /\ n \in 0 .. MaxComponents /\ 1 \in 0 .. MaxComponents
            /\ 1 \in 1 .. Len(Order) /\ "checkpoint" \in PC
        BY OrderFacts DEF Stage, PC
      <3> HIDE DEF v
      <3> QED
        BY <3>1, <1>b
    <2> QED
      BY <1>0, <2>1, <2>2
  <1>3. ASSUME NEW then \in PC, Advance(r, then)
        PROVE  run' \in [Run -> Frame] /\ \A q \in Run : q # r => run'[q] = run[q]
    <2>1. CASE v.file < Len(Order)
      <3>1. v.file + 1 \in 1 .. Len(Order)
        BY <1>a, <2>1, OrderFacts
      <3>2. run' = [run EXCEPT ![r].file = @ + 1]
        BY <1>3, <2>1 DEF Advance
      <3>3. \A f \in 1 .. Len(Order) : [v EXCEPT !.file = f] \in Frame
        BY <1>0 DEF Frame
      <3>4. [v EXCEPT !.file = v.file + 1] \in Frame
        BY <3>1, <3>3
      <3>5. run' = [run EXCEPT ![r] = [v EXCEPT !.file = v.file + 1]]
        BY <3>2
      <3> QED
        BY <1>0, <3>4, <3>5
    <2>2. CASE ~ (v.file < Len(Order))
      <3>1. [v EXCEPT !.file = 1, !.pc = then] \in Frame
        <4>1. 1 \in 1 .. Len(Order)
          BY OrderFacts
        <4>2. \A f \in 1 .. Len(Order) : [v EXCEPT !.file = f, !.pc = then] \in Frame
          BY <1>0 DEF Frame
        <4> QED
          BY <4>1, <4>2
      <3>2. run' = [run EXCEPT ![r] = [v EXCEPT !.file = 1, !.pc = then]]
        BY <1>3, <2>2 DEF Advance
      <3> QED
        BY <1>0, <3>2, <3>1
    <2> QED
      BY <2>1, <2>2
  <1>4. CASE WriteSnapshot(r)
    BY <1>3, <1>4 DEF WriteSnapshot, PC
  <1>5. CASE WriteState(r)
    <2>1. [v EXCEPT !.pc = "drafts"] \in Frame
      BY <1>0 DEF Frame, PC
    <2> QED
      BY <1>0, <1>5, <2>1 DEF WriteState
  <1>6. CASE WriteDraft(r)
    <2>1. CASE run[r].file = Len(Order) /\ run[r].stage < run[r].components
      <3>1. [v EXCEPT !.pc = "checkpoint", !.file = 1, !.stage = v.stage + 1] \in Frame
        <4>1. v.stage + 1 \in 0 .. MaxComponents /\ 1 \in 1 .. Len(Order) /\ "checkpoint" \in PC
          BY <1>a, <2>1, OrderFacts DEF PC
        <4>2. \A s \in 0 .. MaxComponents :
                [v EXCEPT !.pc = "checkpoint", !.file = 1, !.stage = s] \in Frame
          BY <1>0, <4>1 DEF Frame
        <4> QED
          BY <4>1, <4>2
      <3>2. run' = [run EXCEPT ![r] = [v EXCEPT !.pc = "checkpoint", !.file = 1,
                                                !.stage = v.stage + 1]]
        BY <1>0, <1>6, <2>1 DEF WriteDraft
      <3> QED
        BY <1>0, <3>2, <3>1
    <2>2. CASE ~ (run[r].file = Len(Order) /\ run[r].stage < run[r].components)
      BY <1>3, <1>6, <2>2 DEF WriteDraft, PC
    <2> QED
      BY <2>1, <2>2
  <1>7. CASE Complete(r) \/ Raise(r)
    <2>1. Locals("ended") \in Frame
      BY OrderFacts DEF Locals, Frame, PC
    <2> QED
      BY <1>0, <1>7, <2>1 DEF Complete, Raise
  <1> QED
    BY <1>1, <1>2, <1>4, <1>5, <1>6, <1>7 DEF RunStep

(* What the run of a step has in its local variables afterwards.           *)
LEMMA BeginEffect ==
  ASSUME WorkspaceTypeOK, NEW r \in Run, BeginRun(r)
  PROVE  /\ run'[r].pc = "planning" /\ run'[r].revision = NextRevision
         /\ run'[r].history = Kept /\ run'[r].file = run[r].file
PROOF
  BY DEF WorkspaceTypeOK, BeginRun, Frame

LEMMA PlannedEffect ==
  ASSUME WorkspaceTypeOK, NEW r \in Run, Planned(r)
  PROVE  /\ run'[r].pc = "checkpoint" /\ run'[r].revision = run[r].revision
         /\ run'[r].history = run[r].history
         /\ run'[r].stage = 1 /\ run'[r].components \in Stage /\ run'[r].file = 1
PROOF
  <1>0. run \in [Run -> Frame] /\ run[r] \in Frame
    BY DEF WorkspaceTypeOK
  <1>1. PICK n \in Stage :
          run' = [run EXCEPT ![r] = [@ EXCEPT !.pc = "checkpoint", !.components = n,
                                              !.stage = 1, !.file = 1]]
    BY DEF Planned
  <1> QED
    BY <1>0, <1>1 DEF Frame

LEMMA AdvanceEffect ==
  ASSUME WorkspaceTypeOK, NEW r \in Run, NEW then, Advance(r, then)
  PROVE  /\ run'[r].revision = run[r].revision /\ run'[r].history = run[r].history
         /\ run'[r].stage = run[r].stage /\ run'[r].components = run[r].components
         /\ run[r].file < Len(Order) =>
              run'[r].pc = run[r].pc /\ run'[r].file = run[r].file + 1
         /\ ~ (run[r].file < Len(Order)) =>
              run'[r].pc = then /\ run'[r].file = 1 /\ run[r].file = Len(Order)
PROOF
  <1>0. run \in [Run -> Frame] /\ run[r] \in Frame /\ run[r].file \in 1 .. Len(Order)
    BY DEF WorkspaceTypeOK, Frame
  <1>1. CASE run[r].file < Len(Order)
    <2>1. run' = [run EXCEPT ![r].file = @ + 1]
      BY <1>1 DEF Advance
    <2> QED
      BY <1>0, <1>1, <2>1 DEF Frame
  <1>2. CASE ~ (run[r].file < Len(Order))
    <2>1. run' = [run EXCEPT ![r] = [@ EXCEPT !.file = 1, !.pc = then]]
      BY <1>2 DEF Advance
    <2>2. run[r].file = Len(Order)
      BY <1>0, <1>2, OrderFacts
    <2> QED
      BY <1>0, <1>2, <2>1, <2>2 DEF Frame
  <1> QED
    BY <1>1, <1>2

LEMMA WriteDraftEffect ==
  ASSUME WorkspaceTypeOK, NEW r \in Run, WriteDraft(r)
  PROVE  /\ run'[r].revision = run[r].revision /\ run'[r].history = run[r].history
         /\ run'[r].components = run[r].components
         /\ \/ /\ run[r].file < Len(Order) /\ run'[r].pc = "drafts"
               /\ run'[r].file = run[r].file + 1 /\ run'[r].stage = run[r].stage
            \/ /\ run[r].file = Len(Order) /\ run'[r].pc = "complete"
               /\ run'[r].file = 1 /\ run'[r].stage = run[r].stage
               /\ ~ (run[r].stage < run[r].components)
            \/ /\ run[r].file = Len(Order) /\ run'[r].pc = "checkpoint"
               /\ run[r].stage < run[r].components
               /\ run'[r].file = 1 /\ run'[r].stage = run[r].stage + 1
PROOF
  <1>0. run \in [Run -> Frame] /\ run[r] \in Frame /\ run[r].file \in 1 .. Len(Order)
    BY DEF WorkspaceTypeOK, Frame
  <1>1. CASE run[r].file = Len(Order) /\ run[r].stage < run[r].components
    <2>1. run' = [run EXCEPT ![r] = [@ EXCEPT !.pc = "checkpoint", !.file = 1,
                                              !.stage = run[r].stage + 1]]
      BY <1>1 DEF WriteDraft
    <2> QED
      BY <1>0, <1>1, <2>1 DEF Frame
  <1>2. CASE ~ (run[r].file = Len(Order) /\ run[r].stage < run[r].components)
    <2>1. Advance(r, "complete") /\ run[r].pc = "drafts"
      BY <1>2 DEF WriteDraft
    <2> QED
      BY <1>2, <2>1, AdvanceEffect
  <1> QED
    BY <1>1, <1>2

LEMMA OtherEffects ==
  ASSUME WorkspaceTypeOK, NEW r \in Run
  PROVE  /\ WriteState(r) =>
              /\ run'[r].revision = run[r].revision /\ run'[r].history = run[r].history
              /\ run'[r].stage = run[r].stage /\ run'[r].components = run[r].components
              /\ run'[r].file = run[r].file /\ run'[r].pc = "drafts"
         /\ Complete(r) \/ Raise(r) => run'[r].pc = "ended"
PROOF
  BY DEF WorkspaceTypeOK, WriteState, Complete, Raise, Frame, Locals

(* A run records itself, with the revision and the stage it is at.         *)
LEMMA Recording ==
  ASSUME WorkspaceTypeOK, FrameInv, NEW r \in Run, WriteState(r) \/ Complete(r)
  PROVE  /\ project' \in State /\ project' # Void
         /\ project'.run = r /\ project'.revision = run[r].revision
         /\ project'.stage = run[r].stage
         /\ WriteState(r) => project'.status = "building" /\ project'.history = run[r].history
         /\ Complete(r) =>
              LET entry == [run |-> r, revision |-> run[r].revision,
                            components |-> run[r].components]
              IN  /\ entry \in Entry /\ project'.status = "draft_complete"
                  /\ project'.history = Append(run[r].history, entry)
                  /\ completed' = Append(completed, entry)
PROOF
  <1> DEFINE entry == [run |-> r, revision |-> run[r].revision,
                       components |-> run[r].components]
  <1>1. /\ run[r].revision \in Revision /\ run[r].stage \in Stage
        /\ run[r].components \in Stage /\ run[r].history \in Seq(Entry)
    BY DEF WriteState, Complete, FrameInv, WorkspaceTypeOK, Frame, Going, Active
  <1>2. entry \in Entry
    BY <1>1 DEF Entry
  <1>3. Complete(r) =>
          /\ project' = Recorded(r, "draft_complete", Append(run[r].history, entry))
          /\ completed' = Append(completed, entry)
    BY DEF Complete
  <1> HIDE DEF entry
  <1>4. Append(run[r].history, entry) \in Seq(Entry)
    BY <1>1, <1>2
  <1>5. ASSUME NEW status \in {"building", "draft_complete"}, NEW history \in Seq(Entry)
        PROVE  /\ Recorded(r, status, history) \in State
               /\ Recorded(r, status, history).run = r
               /\ Recorded(r, status, history).revision = run[r].revision
               /\ Recorded(r, status, history).stage = run[r].stage
               /\ Recorded(r, status, history).status = status
               /\ Recorded(r, status, history).history = history
    BY <1>1 DEF Recorded, State
  <1>6. CASE WriteState(r)
    <2>1. project' = Recorded(r, "building", run[r].history) /\ ~Complete(r)
      BY <1>6 DEF WriteState, Complete
    <2> QED
      BY <1>1, <1>5, <1>6, <2>1, VoidAssumption
  <1>7. CASE Complete(r)
    <2>1. ~WriteState(r)
      BY <1>7 DEF WriteState, Complete
    <2>2. /\ project' \in State /\ project'.run = r /\ project'.revision = run[r].revision
          /\ project'.stage = run[r].stage /\ project'.status = "draft_complete"
          /\ project'.history = Append(run[r].history, entry)
      <3> DEFINE h == Append(run[r].history, entry)
      <3>1. project' = Recorded(r, "draft_complete", h) /\ h \in Seq(Entry)
        BY <1>3, <1>4, <1>7
      <3> HIDE DEF h
      <3>2. /\ Recorded(r, "draft_complete", h) \in State
            /\ Recorded(r, "draft_complete", h).run = r
            /\ Recorded(r, "draft_complete", h).revision = run[r].revision
            /\ Recorded(r, "draft_complete", h).stage = run[r].stage
            /\ Recorded(r, "draft_complete", h).status = "draft_complete"
            /\ Recorded(r, "draft_complete", h).history = h
        BY <3>1, <1>5
      <3> QED
        BY <3>1, <3>2 DEF h
    <2> QED
      BY <1>2, <1>3, <1>7, <2>1, <2>2, VoidAssumption DEF entry
  <1> QED
    BY <1>6, <1>7

(* Types are preserved, by the steps of a run and by the page.             *)
LEMMA TypeStep ==
  ASSUME WorkspaceTypeOK, FrameInv, [WorkspaceNext]_workspaceVars
  PROVE  WorkspaceTypeOK'
PROOF
  <1>1. CASE UNCHANGED workspaceVars
    BY <1>1 DEF workspaceVars, WorkspaceTypeOK
  <1>2. CASE Refresh
    <2>1. project \in State
      BY <1>2 DEF Refresh, WorkspaceTypeOK
    <2>2. SeenOf(project) \in View
      BY <2>1 DEF SeenOf, State, View
    <2>3. page' \in [fetched : View \cup {Void}, drawn : View \cup {Void}]
      <3>1. page.drawn \in View \cup {Void}
        BY DEF WorkspaceTypeOK
      <3>2. (IF page.drawn # Void /\ Key(page.fetched) = Key(project)
             THEN page.drawn ELSE SeenOf(project)) \in View \cup {Void}
        BY <2>2, <3>1
      <3> QED
        BY <1>2, <2>2, <3>2 DEF Refresh
    <2> QED
      BY <1>2, <2>3 DEF Refresh, WorkspaceTypeOK
  <1>3. ASSUME NEW r \in Run, RunStep(r)
        PROVE  WorkspaceTypeOK'
    <2>1. run' \in [Run -> Frame]
      BY <1>3, Shapes
    <2>2. CASE BeginRun(r)
      <3>1. clashed' \in SUBSET Revision
        <4>1. \A q \in Run : Going(q) => run[q].revision \in Revision
          BY DEF FrameInv
        <4> QED
          BY <2>2, <4>1 DEF BeginRun, WorkspaceTypeOK
      <3>2. overlapped' \in BOOLEAN
        BY <2>2 DEF BeginRun, WorkspaceTypeOK
      <3> QED
        BY <2>1, <2>2, <3>1, <3>2 DEF BeginRun, WorkspaceTypeOK
    <2>3. CASE Planned(r)
      BY <2>1, <2>3 DEF Planned, WorkspaceTypeOK
    <2>4. CASE WriteSnapshot(r)
      <3>1. snapshot' \in [Name -> Run \cup {Void}]
        BY <2>4 DEF WriteSnapshot, WorkspaceTypeOK
      <3> QED
        BY <2>1, <2>4, <3>1 DEF WriteSnapshot, WorkspaceTypeOK
    <2>5. CASE WriteState(r)
      <3>1. project' \in State
        BY <2>5, Recording
      <3> QED
        BY <2>1, <2>5, <3>1 DEF WriteState, WorkspaceTypeOK
    <2>6. CASE WriteDraft(r)
      <3>1. run[r].stage \in Stage
        BY <2>6 DEF WriteDraft, FrameInv, Active
      <3>2. draft' \in [File -> (Run \X Stage) \cup {Void}]
        BY <2>6, <3>1 DEF WriteDraft, WorkspaceTypeOK
      <3> QED
        BY <2>1, <2>6, <3>2 DEF WriteDraft, WorkspaceTypeOK
    <2>7. CASE Complete(r)
      <3> DEFINE entry == [run |-> r, revision |-> run[r].revision,
                           components |-> run[r].components]
      <3>1. project' \in State /\ entry \in Entry /\ completed' = Append(completed, entry)
        BY <2>7, Recording
      <3> HIDE DEF entry
      <3>2. completed' \in Seq(Entry)
        BY <3>1 DEF WorkspaceTypeOK
      <3> QED
        BY <2>1, <2>7, <3>1, <3>2 DEF Complete, WorkspaceTypeOK
    <2>8. CASE Raise(r)
      BY <2>1, <2>8 DEF Raise, WorkspaceTypeOK
    <2> QED
      BY <1>3, <2>2, <2>3, <2>4, <2>5, <2>6, <2>7, <2>8 DEF RunStep
  <1> QED
    BY <1>1, <1>2, <1>3 DEF WorkspaceNext

LEMMA FrameStep ==
  ASSUME WorkspaceTypeOK, FrameInv, [WorkspaceNext]_workspaceVars
  PROVE  FrameInv'
PROOF
  <1>1. CASE UNCHANGED workspaceVars \/ Refresh
    BY <1>1 DEF workspaceVars, Refresh, FrameInv, Going
  <1>2. ASSUME NEW r \in Run, RunStep(r)
        PROVE  FrameInv'
    <2>0. run[r] \in Frame /\ run'[r] \in Frame /\ run[r].file \in 1 .. Len(Order)
      BY <1>2, Shapes DEF WorkspaceTypeOK, Frame
    <2>1. SUFFICES /\ Going(r)' => run'[r].revision \in Revision
                   /\ run'[r].pc \in Active => /\ run'[r].stage \in Stage
                                               /\ run'[r].components \in Stage
                                               /\ run'[r].stage <= run'[r].components
                   /\ run'[r].pc = "complete" => run'[r].stage = run'[r].components
                   /\ run'[r].pc \in {"record", "complete"} => run'[r].file = 1
      BY <1>2, Shapes DEF FrameInv, Going
    <2>2. CASE BeginRun(r)
      <3>1. NextRevision \in Revision
        <4>1. CASE project = Void
          BY <2>2, <4>1, OrderFacts DEF BeginRun, NextRevision, Revision
        <4>2. CASE project # Void
          <5>1. project.revision \in Revision
            BY <4>2 DEF WorkspaceTypeOK, State
          <5> QED
            BY <2>2, <4>2, <5>1, OrderFacts DEF BeginRun, NextRevision, Revision
        <4> QED
          BY <4>1, <4>2
      <3> QED
        BY <2>2, <3>1, BeginEffect DEF Active
    <2>3. CASE Planned(r)
      <3>1. Going(r)
        BY <2>3 DEF Planned, Going
      <3>2. 1 \in Stage
        BY OrderFacts DEF Stage
      <3> QED
        BY <2>3, <3>1, <3>2, PlannedEffect, OrderFacts DEF FrameInv, Stage
    <2>4. CASE WriteSnapshot(r)
      <3>1. Going(r) /\ run[r].pc = "checkpoint" /\ run[r].pc \in Active /\ Advance(r, "record")
        BY <2>4 DEF WriteSnapshot, Going, Active
      <3> QED
        BY <3>1, AdvanceEffect DEF FrameInv
    <2>5. CASE WriteState(r)
      <3>1. Going(r) /\ run[r].pc \in Active
        BY <2>5 DEF WriteState, Going, Active
      <3> QED
        BY <2>5, <3>1, OtherEffects DEF FrameInv
    <2>6. CASE WriteDraft(r)
      <3>1. Going(r) /\ run[r].pc \in Active
        BY <2>6 DEF WriteDraft, Going, Active
      <3>2. run[r].stage \in Stage /\ run[r].components \in Stage /\ run[r].revision \in Revision
        BY <3>1 DEF FrameInv
      <3>3. run[r].stage < run[r].components => run[r].stage + 1 \in Stage
        BY <3>2, OrderFacts DEF Stage
      <3>4. /\ run[r].stage < run[r].components => run[r].stage + 1 <= run[r].components
            /\ ~ (run[r].stage < run[r].components) => run[r].stage = run[r].components
        BY <3>1, <3>2 DEF Stage, FrameInv
      <3> QED
        BY <2>6, <3>1, <3>2, <3>3, <3>4, WriteDraftEffect DEF FrameInv
    <2>7. CASE Complete(r) \/ Raise(r)
      BY <2>7, OtherEffects DEF Going, Active
    <2> QED
      BY <1>2, <2>2, <2>3, <2>4, <2>5, <2>6, <2>7 DEF RunStep
  <1> QED
    BY <1>1, <1>2 DEF WorkspaceNext
-----------------------------------------------------------------------------
(* Two runs that are making one revision at once are known as clashing.    *)
Clash ==
  \A p, q \in Run :
    p # q /\ Going(p) /\ Going(q) /\ run[p].revision = run[q].revision
      => run[p].revision \in clashed

(* What a run has checkpointed so far is there, unless another run is      *)
(* making the same revision.                                               *)
Staged ==
  \A r \in Run : run[r].pc \in Active /\ run[r].revision \notin clashed =>
    /\ \A s \in Stage, i \in 1 .. Len(Order) :
         s < run[r].stage => snapshot[<<run[r].revision, s, Order[i]>>] = r
    /\ \A i \in 1 .. Len(Order) :
         run[r].pc # "checkpoint" \/ i < run[r].file
           => snapshot[<<run[r].revision, run[r].stage, Order[i]>>] = r

(* Only the run that recorded the state may still be making its revision.  *)
Owner ==
  project # Void /\ project.revision \notin clashed =>
    \A q \in Run : Going(q) /\ run[q].revision = project.revision => q = project.run

IInv == WorkspaceTypeOK /\ FrameInv /\ Clash /\ Staged /\ Owner /\ CheckpointMatches

LEMMA Moves ==
  ASSUME WorkspaceTypeOK, NEW r \in Run, RunStep(r)
  PROVE  \/ BeginRun(r) /\ ~Going(r) /\ clashed \subseteq clashed'
         \/ /\ Going(r) /\ clashed' = clashed
            /\ Going(r)' => run'[r].revision = run[r].revision
PROOF
  <1>1. CASE BeginRun(r)
    BY <1>1 DEF BeginRun, Going
  <1>2. CASE Planned(r)
    BY <1>2, PlannedEffect DEF Planned, Going
  <1>3. CASE WriteSnapshot(r)
    BY <1>3, AdvanceEffect DEF WriteSnapshot, Going
  <1>4. CASE WriteState(r)
    BY <1>4, OtherEffects DEF WriteState, Going
  <1>5. CASE WriteDraft(r)
    BY <1>5, WriteDraftEffect DEF WriteDraft, Going
  <1>6. CASE Complete(r) \/ Raise(r)
    BY <1>6, OtherEffects DEF Complete, Raise, Going
  <1> QED
    BY <1>1, <1>2, <1>3, <1>4, <1>5, <1>6 DEF RunStep

LEMMA ClashStep ==
  ASSUME WorkspaceTypeOK, FrameInv, Clash, NEW r \in Run, RunStep(r)
  PROVE  Clash'
PROOF
  <1>0. \A q \in Run : q # r => run'[q] = run[q]
    BY Shapes
  <1>1. CASE BeginRun(r)
    <2>1. run'[r].revision = NextRevision /\ ~Going(r)
      BY <1>1, BeginEffect DEF BeginRun, Going
    <2>2. \A q \in Run : Going(q) /\ run[q].revision = NextRevision => NextRevision \in clashed'
      BY <1>1 DEF BeginRun
    <2>3. clashed \subseteq clashed'
      BY <1>1 DEF BeginRun
    <2>4. ASSUME NEW p \in Run, NEW q \in Run, p # q, Going(p)', Going(q)',
                 run'[p].revision = run'[q].revision
          PROVE  run'[p].revision \in clashed'
      <3>1. CASE p = r
        <4>1. Going(q) /\ run[q].revision = NextRevision
          BY <1>0, <2>1, <2>4, <3>1 DEF Going
        <4> QED
          BY <2>1, <2>2, <3>1, <4>1
      <3>2. CASE q = r
        <4>1. Going(p) /\ run[p].revision = NextRevision
          BY <1>0, <2>1, <2>4, <3>2 DEF Going
        <4> QED
          BY <2>1, <2>2, <2>4, <3>2, <4>1
      <3>3. CASE p # r /\ q # r
        BY <1>0, <2>3, <2>4, <3>3 DEF Going, Clash
      <3> QED
        BY <3>1, <3>2, <3>3
    <2> QED
      BY <2>4 DEF Clash
  <1>2. CASE ~BeginRun(r)
    <2>1. \A q \in Run : Going(q)' => Going(q) /\ run'[q].revision = run[q].revision
      BY <1>0, <1>2, Moves DEF Going
    <2>2. clashed' = clashed
      BY <1>2, Moves
    <2> QED
      BY <2>1, <2>2 DEF Clash
  <1> QED
    BY <1>1, <1>2

(* What is written under snapshots/ for another revision stays.            *)
LEMMA SnapshotEffect ==
  ASSUME WorkspaceTypeOK, FrameInv, NEW r \in Run, WriteSnapshot(r)
  PROVE  /\ run[r].revision \in Revision /\ run[r].stage \in Stage
         /\ run[r].file \in 1 .. Len(Order) /\ Going(r) /\ run[r].pc \in Active
         /\ snapshot'[<<run[r].revision, run[r].stage, Order[run[r].file]>>] = r
         /\ \A n \in Name : \/ snapshot'[n] = snapshot[n]
                            \/ /\ snapshot'[n] = r
                               /\ n = <<run[r].revision, run[r].stage, Order[run[r].file]>>
PROOF
  <1>1. Going(r) /\ run[r].pc \in Active
    BY DEF WriteSnapshot, Going, Active
  <1>2. /\ run[r].revision \in Revision /\ run[r].stage \in Stage
        /\ run[r].file \in 1 .. Len(Order)
    BY <1>1 DEF FrameInv, WorkspaceTypeOK, Frame
  <1>3. <<run[r].revision, run[r].stage, Order[run[r].file]>> \in Name
    BY <1>2, OrderFacts DEF Name
  <1> DEFINE m == <<run[r].revision, run[r].stage, Order[run[r].file]>>
  <1>4. snapshot' = [snapshot EXCEPT ![m] = r] /\ snapshot \in [Name -> Run \cup {Void}]
    BY DEF WriteSnapshot, WorkspaceTypeOK
  <1> HIDE DEF m
  <1>5. m \in Name
    BY <1>3 DEF m
  <1>6. snapshot'[m] = r /\ \A n \in Name : snapshot'[n] = snapshot[n] \/ (snapshot'[n] = r /\ n = m)
    BY <1>4, <1>5
  <1> QED
    BY <1>1, <1>2, <1>6 DEF m

LEMMA StagedStep ==
  ASSUME WorkspaceTypeOK, FrameInv, Clash, Staged, NEW r \in Run, RunStep(r)
  PROVE  Staged'
PROOF
  <1> DEFINE P(q) ==
        run[q].pc \in Active /\ run[q].revision \notin clashed =>
          /\ \A s \in Stage, i \in 1 .. Len(Order) :
               s < run[q].stage => snapshot[<<run[q].revision, s, Order[i]>>] = q
          /\ \A i \in 1 .. Len(Order) :
               run[q].pc # "checkpoint" \/ i < run[q].file
                 => snapshot[<<run[q].revision, run[q].stage, Order[i]>>] = q
  <1>0. \A q \in Run : P(q)
    BY DEF Staged
  <1>1. clashed \subseteq clashed'
    BY Moves
  <1>a. \A q \in Run : run[q].pc \in Active =>
          Going(q) /\ run[q].revision \in Revision /\ run[q].stage \in Stage
    BY DEF FrameInv, Active, Going
  <1>2. ASSUME NEW q \in Run, q # r
        PROVE  P(q)'
    <2>1. run'[q] = run[q]
      BY <1>2, Shapes
    <2>2. CASE ~WriteSnapshot(r)
      <3>1. snapshot' = snapshot
        BY <2>2 DEF RunStep, BeginRun, Planned, WriteState, WriteDraft, Complete, Raise
      <3> QED
        BY <1>0, <1>1, <2>1, <3>1
    <2>3. CASE WriteSnapshot(r)
      <3>0. /\ Going(r)
            /\ \A n \in Name : \/ snapshot'[n] = snapshot[n]
                              \/ n = <<run[r].revision, run[r].stage, Order[run[r].file]>>
        BY <2>3, SnapshotEffect
      <3>1. CASE run[q].pc \in Active /\ run[q].revision \notin clashed'
        <4>1. run[q].revision # run[r].revision
          BY <1>1, <1>2, <1>a, <3>0, <3>1 DEF Clash
        <4>2. ASSUME NEW s \in Stage, NEW i \in 1 .. Len(Order)
              PROVE  snapshot'[<<run[q].revision, s, Order[i]>>]
                       = snapshot[<<run[q].revision, s, Order[i]>>]
          <5>1. <<run[q].revision, s, Order[i]>> \in Name
            BY <1>a, <3>1, OrderFacts DEF Name
          <5> QED
            BY <3>0, <4>1, <5>1
        <4>3. run[q].stage \in Stage /\ run[q].revision \notin clashed
          BY <1>1, <1>a, <3>1
        <4>4. \A s \in Stage, i \in 1 .. Len(Order) :
                s < run[q].stage => snapshot'[<<run[q].revision, s, Order[i]>>] = q
          BY <1>0, <3>1, <4>2, <4>3
        <4>5. \A i \in 1 .. Len(Order) :
                run[q].pc # "checkpoint" \/ i < run[q].file
                  => snapshot'[<<run[q].revision, run[q].stage, Order[i]>>] = q
          BY <1>0, <3>1, <4>2, <4>3
        <4> QED
          BY <2>1, <4>4, <4>5
      <3>2. CASE ~ (run[q].pc \in Active /\ run[q].revision \notin clashed')
        BY <2>1, <3>2
      <3> QED
        BY <3>1, <3>2
    <2> QED
      BY <2>2, <2>3
  <1>3. P(r)'
    <2>1. CASE BeginRun(r)
      BY <2>1, BeginEffect DEF Active
    <2>2. CASE Planned(r)
      <3>1. run'[r].stage = 1 /\ run'[r].file = 1 /\ run'[r].pc = "checkpoint"
        BY <2>2, PlannedEffect
      <3>2. \A s \in Stage : ~ (s < 1)
        BY DEF Stage
      <3>3. \A i \in 1 .. Len(Order) : ~ (i < 1)
        OBVIOUS
      <3> QED
        BY <3>1, <3>2, <3>3
    <2>3. CASE WriteSnapshot(r)
      <3>1. /\ run[r].pc = "checkpoint" /\ Advance(r, "record") /\ clashed' = clashed
        BY <2>3 DEF WriteSnapshot
      <3>2. run'[r].revision = run[r].revision /\ run'[r].stage = run[r].stage
        BY <3>1, AdvanceEffect
      <3>0. /\ run[r].revision \in Revision /\ run[r].stage \in Stage
            /\ run[r].file \in 1 .. Len(Order) /\ Len(Order) \in Nat
            /\ run[r].pc \in Active
            /\ snapshot'[<<run[r].revision, run[r].stage, Order[run[r].file]>>] = r
            /\ \A n \in Name : snapshot'[n] = snapshot[n] \/ snapshot'[n] = r
        BY <2>3, SnapshotEffect, OrderFacts
      <3>3. ASSUME run[r].revision \notin clashed, NEW s \in Stage, NEW i \in 1 .. Len(Order),
                   s < run[r].stage \/ (s = run[r].stage /\ i <= run[r].file)
            PROVE  snapshot'[<<run[r].revision, s, Order[i]>>] = r
        <4>1. <<run[r].revision, s, Order[i]>> \in Name
          BY <3>0, OrderFacts DEF Name
        <4>2. s < run[r].stage \/ (s = run[r].stage /\ i < run[r].file)
                => snapshot[<<run[r].revision, s, Order[i]>>] = r
          BY <1>0, <3>0, <3>3
        <4>3. (s = run[r].stage /\ i = run[r].file) \/ i < run[r].file \/ s < run[r].stage
          BY <3>0, <3>3
        <4> QED
          BY <3>0, <3>3, <4>1, <4>2, <4>3
      <3>4. CASE run[r].file < Len(Order)
        <4>1. run'[r].pc = "checkpoint" /\ run'[r].file = run[r].file + 1
          BY <3>1, <3>4, AdvanceEffect
        <4>2. \A i \in 1 .. Len(Order) : i < run'[r].file => i <= run[r].file
          BY <3>0, <4>1
        <4> QED
          BY <3>0, <3>1, <3>2, <3>3, <4>1, <4>2
      <3>5. CASE ~ (run[r].file < Len(Order))
        <4>1. \A i \in 1 .. Len(Order) : i <= run[r].file
          BY <3>0, <3>5
        <4> QED
          BY <3>0, <3>1, <3>2, <3>3, <4>1
      <3> QED
        BY <3>4, <3>5
    <2>4. CASE WriteState(r)
      <3>1. snapshot' = snapshot /\ clashed' = clashed /\ run[r].pc = "record" /\ run[r].pc \in Active
        BY <2>4 DEF WriteState, Active
      <3> QED
        BY <1>0, <2>4, <3>1, OtherEffects
    <2>5. CASE WriteDraft(r)
      <3>1. snapshot' = snapshot /\ clashed' = clashed /\ run[r].pc = "drafts" /\ run[r].pc \in Active
        BY <2>5 DEF WriteDraft, Active
      <3>2. run'[r].stage = run[r].stage
            \/ (run'[r].stage = run[r].stage + 1 /\ run'[r].pc = "checkpoint" /\ run'[r].file = 1)
        BY <2>5, WriteDraftEffect
      <3>3. \A s \in Stage : s < run[r].stage + 1 => s < run[r].stage \/ s = run[r].stage
        BY <1>a, <3>1 DEF Stage
      <3>4. \A i \in 1 .. Len(Order) : ~ (i < 1)
        OBVIOUS
      <3>5. run'[r].revision = run[r].revision
        BY <2>5, WriteDraftEffect
      <3>6. run[r].stage \in Stage
        BY <1>a, <3>1
      <3>7. run[r].revision \notin clashed =>
              /\ \A s \in Stage, i \in 1 .. Len(Order) :
                   s < run[r].stage => snapshot[<<run[r].revision, s, Order[i]>>] = r
              /\ \A i \in 1 .. Len(Order) :
                   snapshot[<<run[r].revision, run[r].stage, Order[i]>>] = r
        BY <1>0, <3>1
      <3>8. CASE run'[r].stage = run[r].stage
        BY <3>1, <3>5, <3>7, <3>8
      <3>9. CASE run'[r].stage = run[r].stage + 1 /\ run'[r].pc = "checkpoint" /\ run'[r].file = 1
        BY <3>1, <3>3, <3>4, <3>5, <3>7, <3>9
      <3> QED
        BY <3>2, <3>8, <3>9
    <2>6. CASE Complete(r) \/ Raise(r)
      BY <2>6, OtherEffects DEF Active
    <2> QED
      BY <2>1, <2>2, <2>3, <2>4, <2>5, <2>6 DEF RunStep
  <1> HIDE DEF P
  <1>4. \A q \in Run : P(q)'
    BY <1>2, <1>3
  <1> QED
    BY <1>4 DEF P, Staged

(* The rest of the state during the steps of a run.                        *)
LEMMA ProjectEffect ==
  ASSUME WorkspaceTypeOK, FrameInv, NEW r \in Run, RunStep(r)
  PROVE  \/ project' = project
         \/ /\ WriteState(r) \/ Complete(r)
            /\ project' # Void /\ project'.run = r
            /\ project'.revision = run[r].revision /\ project'.stage = run[r].stage
            /\ Going(r) /\ run[r].pc \in Active \ {"checkpoint"}
            /\ snapshot' = snapshot /\ clashed' = clashed
PROOF
  <1>1. CASE BeginRun(r) \/ Planned(r) \/ WriteSnapshot(r) \/ WriteDraft(r) \/ Raise(r)
    BY <1>1 DEF BeginRun, Planned, WriteSnapshot, WriteDraft, Raise
  <1>2. CASE WriteState(r) \/ Complete(r)
    BY <1>2, Recording DEF WriteState, Complete, Going, Active
  <1> QED
    BY <1>1, <1>2 DEF RunStep

LEMMA OwnerStep ==
  ASSUME WorkspaceTypeOK, FrameInv, Clash, Owner, NEW r \in Run, RunStep(r)
  PROVE  Owner'
PROOF
  <1>0. \A q \in Run : q # r => run'[q] = run[q]
    BY Shapes
  <1>1. clashed \subseteq clashed'
    BY Moves
  <1>2. ASSUME project' # Void, project'.revision \notin clashed', NEW q \in Run,
               Going(q)', run'[q].revision = project'.revision
        PROVE  q = project'.run
    <2>1. CASE project' = project
      <3>1. Going(q) => run[q].revision = run'[q].revision
        BY <1>0, <1>2, Moves DEF Going
      <3>2. CASE BeginRun(r) /\ q = r
        <4>1. run'[q].revision = NextRevision /\ NextRevision = project.revision + 1
          BY <1>2, <2>1, <3>2, BeginEffect DEF NextRevision
        <4>2. project.revision \in Nat
          BY <1>2, <2>1, OrderFacts DEF WorkspaceTypeOK, State, Revision
        <4> QED
          BY <1>2, <2>1, <4>1, <4>2
      <3>3. CASE ~ (BeginRun(r) /\ q = r)
        <4>1. Going(q)
          BY <1>0, <1>2, <3>3, Moves DEF Going
        <4> QED
          BY <1>1, <1>2, <2>1, <3>1, <4>1 DEF Owner
      <3> QED
        BY <3>2, <3>3
    <2>2. CASE project' # project
      <3>1. /\ project'.run = r /\ project'.revision = run[r].revision /\ Going(r)
            /\ clashed' = clashed
        BY <2>2, ProjectEffect
      <3> QED
        BY <1>0, <1>2, <3>1 DEF Clash, Going
    <2> QED
      BY <2>1, <2>2
  <1> QED
    BY <1>2 DEF Owner

LEMMA CheckpointStep ==
  ASSUME WorkspaceTypeOK, FrameInv, Clash, Staged, Owner, CheckpointMatches, NEW r \in Run, RunStep(r)
  PROVE  CheckpointMatches'
PROOF
  <1>0. ASSUME project' # Void, project'.revision \notin clashed', NEW f \in File
        PROVE  snapshot'[<<project'.revision, project'.stage, f>>] = project'.run
    <2>1. CASE project' = project
      <3>0. project.revision \notin clashed /\ project # Void
        BY <1>0, <2>1, Moves
      <3>1. snapshot[<<project.revision, project.stage, f>>] = project.run
        BY <3>0 DEF CheckpointMatches
      <3>2. <<project.revision, project.stage, f>> \in Name
        BY <3>0 DEF WorkspaceTypeOK, State, Name
      <3>3. CASE WriteSnapshot(r)
        <4>1. Going(r) /\ \A n \in Name : \/ snapshot'[n] = snapshot[n]
                                          \/ /\ snapshot'[n] = r
                                             /\ n = <<run[r].revision, run[r].stage, Order[run[r].file]>>
          BY <3>3, SnapshotEffect
        <4>2. CASE project.revision = run[r].revision
          <5>1. project.run = r
            BY <3>0, <4>1, <4>2 DEF Owner
          <5> QED
            BY <2>1, <3>1, <3>2, <4>1, <5>1
        <4>3. CASE project.revision # run[r].revision
          BY <2>1, <3>1, <3>2, <4>1, <4>3
        <4> QED
          BY <4>2, <4>3
      <3>4. CASE ~WriteSnapshot(r)
        <4>1. snapshot' = snapshot
          BY <3>4 DEF RunStep, BeginRun, Planned, WriteState, WriteDraft, Complete, Raise
        <4> QED
          BY <2>1, <3>1, <4>1
      <3> QED
        BY <3>3, <3>4
    <2>2. CASE project' # project
      <3>1. /\ project'.run = r /\ project'.revision = run[r].revision
            /\ project'.stage = run[r].stage /\ snapshot' = snapshot /\ clashed' = clashed
            /\ run[r].pc \in Active \ {"checkpoint"}
        BY <2>2, ProjectEffect
      <3>2. PICK i \in 1 .. Len(Order) : f = Order[i]
        BY OrderFacts
      <3> QED
        BY <1>0, <3>1, <3>2 DEF Staged
    <2> QED
      BY <2>1, <2>2
  <1> QED
    BY <1>0 DEF CheckpointMatches

(* The strengthening of CheckpointMatches is inductive.                    *)
THEOREM Inductive == WorkspaceSpec => []IInv
PROOF
  <1>1. WorkspaceInit => IInv
    <2> SUFFICES ASSUME WorkspaceInit
                 PROVE  IInv
      OBVIOUS
    <2>1. WorkspaceTypeOK
      <3>1. Locals("idle") \in Frame
        BY OrderFacts DEF Locals, Frame, PC
      <3>2. run \in [Run -> Frame]
        BY <3>1 DEF WorkspaceInit
      <3>3. snapshot \in [Name -> Run \cup {Void}] /\ draft \in [File -> (Run \X Stage) \cup {Void}]
        BY DEF WorkspaceInit
      <3>4. page \in [fetched : View \cup {Void}, drawn : View \cup {Void}]
        <4>1. page = [fetched |-> Void, drawn |-> Void] /\ Void \in View \cup {Void}
          BY DEF WorkspaceInit
        <4> QED
          BY <4>1
      <3>5. completed \in Seq(Entry) /\ overlapped \in BOOLEAN /\ clashed \in SUBSET Revision
        <4>1. << >> \in Seq(Entry)
          OBVIOUS
        <4>2. completed = << >> /\ overlapped = FALSE /\ clashed = {}
          BY DEF WorkspaceInit
        <4> QED
          BY <4>1, <4>2
      <3>6. project \in State \cup {Void}
        BY DEF WorkspaceInit
      <3> QED
        BY <3>2, <3>3, <3>4, <3>5, <3>6 DEF WorkspaceTypeOK
    <2>2. \A r \in Run : run[r].pc = "idle"
      BY DEF WorkspaceInit, Locals
    <2> QED
      BY <2>1, <2>2 DEF IInv, FrameInv, Clash, Staged, Owner, CheckpointMatches, WorkspaceInit,
                       Going, Active
  <1>2. IInv /\ [WorkspaceNext]_workspaceVars => IInv'
    <2> SUFFICES ASSUME IInv, [WorkspaceNext]_workspaceVars
                 PROVE  IInv'
      OBVIOUS
    <2>0. WorkspaceTypeOK /\ FrameInv /\ Clash /\ Staged /\ Owner /\ CheckpointMatches
      BY DEF IInv
    <2>1. WorkspaceTypeOK' /\ FrameInv'
      BY <2>0, TypeStep, FrameStep
    <2>2. CASE UNCHANGED workspaceVars \/ Refresh
      BY <2>0, <2>1, <2>2 DEF IInv, workspaceVars, Refresh, Clash, Staged, Owner, CheckpointMatches, Going
    <2>3. ASSUME NEW r \in Run, RunStep(r)
          PROVE  IInv'
      BY <2>0, <2>1, <2>3, ClashStep, StagedStep, OwnerStep, CheckpointStep DEF IInv
    <2> QED
      BY <2>2, <2>3 DEF WorkspaceNext
  <1> QED
    BY <1>1, <1>2, PTL DEF WorkspaceSpec

(* Every variable keeps its type: the revisions and stages a run uses are  *)
(* ones its files can be named with.                                       *)
THEOREM TypeCorrect == WorkspaceSpec => []WorkspaceTypeOK
PROOF
  BY Inductive, PTL DEF IInv

(* The checkpoint that project.json names is on disk as it was hashed,     *)
(* under every interleaving of runs that are not making one revision.      *)
THEOREM CheckpointAlwaysMatches == WorkspaceSpec => []CheckpointMatches
PROOF
  BY Inductive, PTL DEF IInv
-----------------------------------------------------------------------------
(* Runs that follow one another: what holds as long as none has begun      *)
(* while another was going.                                                *)
Alone == clashed = {} /\ \A p, q \in Run : Going(p) /\ Going(q) => p = q

(* A run that writes the drafts has recorded its stage as building.        *)
Building ==
  \A r \in Run : run[r].pc \in {"drafts", "complete"} =>
    /\ project # Void /\ project.status = "building"
    /\ \A i \in 1 .. Len(Order) :
         i < run[r].file \/ run[r].pc = "complete" => draft[Order[i]] = <<r, run[r].stage>>

Whole ==
  project # Void /\ project.status = "draft_complete" =>
    \A f \in File : draft[f] = <<project.run, project.stage>>

(* The revisions of a later run are higher, also where it records nothing. *)
Ahead ==
  project # Void => \A r \in Run : Going(r) =>
    \/ run[r].revision > project.revision
    \/ run[r].revision = project.revision /\ project.run = r

PageFollows ==
  /\ page.drawn = page.fetched
  /\ page.fetched # Void =>
       /\ project # Void
       /\ \/ page.fetched.revision < project.revision
          \/ page.fetched.revision = project.revision /\ page.fetched.run = project.run

Earlier ==
  \A i \in 1 .. Len(completed) :
    /\ project # Void
    /\ \/ completed[i].revision < project.revision
       \/ completed[i].revision = project.revision /\ completed[i].run = project.run
    /\ run[completed[i].run].pc = "ended"
    /\ \A s \in 1 .. completed[i].components, f \in File :
         snapshot[<<completed[i].revision, s, f>>] = completed[i].run

(* The last entries of a history are those of the last completed runs.     *)
Recent(history) ==
  \A d \in Nat : d < MaxHistory - 1 /\ d < Len(completed) =>
    /\ Len(history) > d
    /\ history[Len(history) - d] = completed[Len(completed) - d]

Remembered ==
  /\ project # Void => Recent(project.history)
  /\ \A r \in Run : Going(r) => Recent(run[r].history)

Sequential ==
  ~overlapped => /\ Alone /\ Building /\ Whole /\ Ahead /\ PageFollows /\ Earlier
                 /\ Remembered

LEMMA AloneStep ==
  ASSUME WorkspaceTypeOK, FrameInv, Alone, ~overlapped', NEW r \in Run, RunStep(r)
  PROVE  /\ Alone' /\ ~overlapped
         /\ \A q \in Run : q # r => ~Going(q) /\ ~Going(q)'
PROOF
  <1>0. \A q \in Run : q # r => run'[q] = run[q]
    BY Shapes
  <1>1. CASE BeginRun(r)
    <2>1. ~overlapped /\ \A q \in Run : ~Going(q)
      BY <1>1 DEF BeginRun
    <2>2. clashed' = {}
      BY <1>1, <2>1 DEF BeginRun, Alone
    <2> QED
      BY <1>0, <2>1, <2>2 DEF Alone, Going
  <1>2. CASE ~BeginRun(r)
    <2>1. overlapped' = overlapped
      BY <1>2 DEF RunStep, Planned, WriteSnapshot, WriteState, WriteDraft, Complete, Raise
    <2>2. Going(r) /\ clashed' = clashed
      BY <1>2, Moves
    <2> QED
      BY <1>0, <2>1, <2>2 DEF Alone, Going
  <1> QED
    BY <1>1, <1>2

LEMMA DraftsStep ==
  ASSUME WorkspaceTypeOK, FrameInv, Building, Whole, NEW r \in Run, RunStep(r),
         \A q \in Run : q # r => ~Going(q) /\ ~Going(q)'
  PROVE  Building' /\ Whole'
PROOF
  <1>0. \A q \in Run : q # r => run'[q].pc \notin {"drafts", "complete"}
    BY DEF Going
  <1> DEFINE B == run[r].pc \in {"drafts", "complete"} =>
        /\ project # Void /\ project.status = "building"
        /\ \A i \in 1 .. Len(Order) :
             i < run[r].file \/ run[r].pc = "complete" => draft[Order[i]] = <<r, run[r].stage>>
  <1>b. B
    BY DEF Building
  <1>c. B' => Building'
    BY <1>0 DEF Building
  <1>1. CASE BeginRun(r)
    BY <1>1, <1>c, BeginEffect DEF BeginRun, Whole
  <1>2. CASE Planned(r)
    BY <1>2, <1>c, PlannedEffect DEF Planned, Whole
  <1>3. CASE WriteSnapshot(r)
    BY <1>3, <1>c, AdvanceEffect DEF WriteSnapshot, Whole
  <1>4. CASE WriteState(r)
    <2>1. project' # Void /\ project'.status = "building"
      BY <1>4, Recording
    <2>2. run[r].file = 1 /\ run'[r].file = 1 /\ run'[r].pc = "drafts"
      BY <1>4, OtherEffects DEF WriteState, FrameInv
    <2>3. \A i \in 1 .. Len(Order) : ~ (i < 1)
      OBVIOUS
    <2>4. B'
      BY <2>1, <2>2, <2>3
    <2> QED
      BY <1>c, <2>1, <2>4 DEF Whole
  <1>5. CASE WriteDraft(r)
    <2>0. /\ run[r].pc = "drafts" /\ project' = project /\ run[r].file \in 1 .. Len(Order)
          /\ project # Void /\ project.status = "building" /\ Len(Order) \in Nat
          /\ draft' = [draft EXCEPT ![Order[run[r].file]] = <<r, run[r].stage>>]
          /\ draft \in [File -> (Run \X Stage) \cup {Void}]
      BY <1>5, <1>b, OrderFacts DEF WriteDraft, WorkspaceTypeOK, Frame
    <2>1. ASSUME NEW i \in 1 .. Len(Order), i <= run[r].file
          PROVE  draft'[Order[i]] = <<r, run[r].stage>>
      <3>1. Order[i] \in File
        BY OrderFacts
      <3>2. i = run[r].file \/ i < run[r].file
        BY <2>0, <2>1
      <3>3. i < run[r].file => draft[Order[i]] = <<r, run[r].stage>>
        BY <1>b, <2>0
      <3> QED
        BY <2>0, <3>1, <3>2, <3>3
    <2>2. CASE run'[r].pc = "checkpoint"
      BY <1>c, <2>0, <2>2 DEF Whole
    <2>3. CASE run'[r].pc = "drafts" /\ run'[r].file = run[r].file + 1
               /\ run'[r].stage = run[r].stage
      <3>1. \A i \in 1 .. Len(Order) : i < run'[r].file => i <= run[r].file
        BY <2>0, <2>3
      <3>2. B'
        BY <2>0, <2>1, <2>3, <3>1
      <3> QED
        BY <1>c, <2>0, <3>2 DEF Whole
    <2>4. CASE run'[r].pc = "complete" /\ run'[r].stage = run[r].stage /\ run[r].file = Len(Order)
      <3>1. \A i \in 1 .. Len(Order) : i <= run[r].file
        BY <2>0, <2>4
      <3>2. B'
        BY <2>0, <2>1, <2>4, <3>1
      <3> QED
        BY <1>c, <2>0, <3>2 DEF Whole
    <2> QED
      BY <1>5, <2>2, <2>3, <2>4, WriteDraftEffect
  <1>6. CASE Complete(r)
    <2>1. /\ project'.run = r /\ project'.stage = run[r].stage /\ draft' = draft
          /\ run[r].pc = "complete" /\ run'[r].pc = "ended"
      BY <1>6, Recording, OtherEffects DEF Complete
    <2>2. \A f \in File : draft[f] = <<r, run[r].stage>>
      BY <1>b, <2>1, OrderFacts
    <2> QED
      BY <1>c, <2>1, <2>2 DEF Whole
  <1>7. CASE Raise(r)
    BY <1>7, <1>c, OtherEffects DEF Raise, Whole
  <1> QED
    BY <1>1, <1>2, <1>3, <1>4, <1>5, <1>6, <1>7 DEF RunStep

LEMMA AheadStep ==
  ASSUME WorkspaceTypeOK, FrameInv, Ahead, NEW r \in Run, RunStep(r),
         \A q \in Run : q # r => ~Going(q) /\ ~Going(q)'
  PROVE  /\ Ahead'
         /\ project # Void =>
              /\ project' # Void
              /\ \/ project.revision < project'.revision
                 \/ project.revision = project'.revision /\ project.run = project'.run
PROOF
  <1>0. project # Void => project.revision \in Nat
    BY OrderFacts DEF WorkspaceTypeOK, State, Revision
  <1>1. CASE BeginRun(r)
    <2>1. run'[r].revision = NextRevision /\ project' = project
      BY <1>1, BeginEffect DEF BeginRun
    <2>2. project # Void => NextRevision > project.revision
      BY <1>0 DEF NextRevision
    <2> QED
      BY <2>1, <2>2 DEF Ahead
  <1>2. CASE ~BeginRun(r) /\ project' = project
    <2>1. Going(r) /\ (Going(r)' => run'[r].revision = run[r].revision)
      BY <1>2, Moves
    <2> QED
      BY <1>2, <2>1 DEF Ahead
  <1>3. CASE ~BeginRun(r) /\ project' # project
    <2>1. Going(r) /\ (Going(r)' => run'[r].revision = run[r].revision)
      BY <1>3, Moves
    <2>2. project' # Void /\ project'.run = r /\ project'.revision = run[r].revision
      BY <1>3, ProjectEffect
    <2>3. run[r].revision \in Nat
      BY <2>1, OrderFacts DEF FrameInv, Revision
    <2>4. Ahead'
      BY <2>1, <2>2 DEF Ahead
    <2>5. project # Void => \/ run[r].revision > project.revision
                            \/ run[r].revision = project.revision /\ project.run = r
      BY <2>1 DEF Ahead
    <2> QED
      BY <1>0, <2>2, <2>3, <2>4, <2>5
  <1> QED
    BY <1>1, <1>2, <1>3

LEMMA PageStep ==
  ASSUME WorkspaceTypeOK, FrameInv, PageFollows, NEW r \in Run, RunStep(r),
         project # Void =>
           /\ project' # Void
           /\ \/ project.revision < project'.revision
              \/ project.revision = project'.revision /\ project.run = project'.run
  PROVE  PageFollows'
PROOF
  <1>1. page' = page
    BY DEF RunStep, BeginRun, Planned, WriteSnapshot, WriteState, WriteDraft, Complete, Raise
  <1>2. WorkspaceTypeOK'
    BY TypeStep DEF WorkspaceNext
  <1>3. /\ page.fetched # Void => page.fetched.revision \in Nat
        /\ project # Void => project.revision \in Nat
        /\ project' # Void => project'.revision \in Nat
    BY <1>2, OrderFacts DEF WorkspaceTypeOK, View, State, Revision
  <1>4. CASE page.fetched = Void
    BY <1>1, <1>4 DEF PageFollows
  <1>5. CASE page.fetched # Void
    BY <1>1, <1>3, <1>5 DEF PageFollows
  <1> QED
    BY <1>4, <1>5

LEMMA EarlierStep ==
  ASSUME WorkspaceTypeOK, FrameInv, Staged, Alone, Ahead, Earlier, NEW r \in Run, RunStep(r),
         project # Void =>
           /\ project' # Void
           /\ \/ project.revision < project'.revision
              \/ project.revision = project'.revision /\ project.run = project'.run
  PROVE  Earlier'
PROOF
  <1>0. completed \in Seq(Entry) /\ run[r] \in Frame /\ WorkspaceTypeOK'
    BY TypeStep DEF WorkspaceTypeOK, WorkspaceNext
  <1> DEFINE E(e) ==
        /\ project # Void
        /\ \/ e.revision < project.revision
           \/ e.revision = project.revision /\ e.run = project.run
        /\ run[e.run].pc = "ended"
        /\ \A s \in 1 .. e.components, f \in File :
             snapshot[<<e.revision, s, f>>] = e.run
  <1>1. ASSUME NEW e \in Entry, E(e)
        PROVE  E(e)'
    <2>1. e.run \in Run /\ e.revision \in Nat /\ e.revision \in Revision /\ e.components \in Stage
      BY OrderFacts DEF Entry, Revision
    <2>2. /\ project' # Void /\ project.revision \in Nat /\ project'.revision \in Nat
          /\ \/ project.revision < project'.revision
             \/ project.revision = project'.revision /\ project.run = project'.run
      BY <1>0, <1>1, OrderFacts DEF WorkspaceTypeOK, State, Revision
    <2>3. \/ e.revision < project'.revision
          \/ e.revision = project'.revision /\ e.run = project'.run
      BY <1>1, <2>1, <2>2
    <2>4. e.run # r
      BY <1>1 DEF RunStep, BeginRun, Planned, WriteSnapshot, WriteState, WriteDraft, Complete,
                  Raise, Going
    <2>5. run'[e.run].pc = "ended"
      BY <1>1, <2>1, <2>4, Shapes
    <2>6. ASSUME NEW s \in 1 .. e.components, NEW f \in File
          PROVE  snapshot'[<<e.revision, s, f>>] = e.run
      <3>1. CASE WriteSnapshot(r)
        <4>1. /\ Going(r) /\ run[r].revision \in Revision
              /\ \A n \in Name : \/ snapshot'[n] = snapshot[n]
                                 \/ /\ snapshot'[n] = r
                                    /\ n = <<run[r].revision, run[r].stage, Order[run[r].file]>>
          BY <3>1, SnapshotEffect
        <4>2. \/ run[r].revision > project.revision
              \/ run[r].revision = project.revision /\ project.run = r
          BY <1>1, <4>1 DEF Ahead
        <4>3. run[r].revision # e.revision
          BY <1>1, <2>1, <2>2, <2>4, <4>1, <4>2, OrderFacts DEF Revision
        <4>4. <<e.revision, s, f>> \in Name
          BY <2>1, OrderFacts DEF Name, Stage
        <4> QED
          BY <1>1, <4>1, <4>3, <4>4
      <3>2. CASE ~WriteSnapshot(r)
        <4>1. snapshot' = snapshot
          BY <3>2 DEF RunStep, BeginRun, Planned, WriteState, WriteDraft, Complete, Raise
        <4> QED
          BY <1>1, <4>1
      <3> QED
        BY <3>1, <3>2
    <2> QED
      BY <2>2, <2>3, <2>5, <2>6
  <1>2. \A i \in 1 .. Len(completed) : completed[i] \in Entry /\ E(completed[i])
    BY <1>0 DEF Earlier
  <1>3. CASE ~Complete(r)
    <2>1. completed' = completed
      BY <1>3 DEF RunStep, BeginRun, Planned, WriteSnapshot, WriteState, WriteDraft, Raise
    <2> HIDE DEF E
    <2>2. \A i \in 1 .. Len(completed) : E(completed[i])'
      BY <1>1, <1>2, <2>1
    <2> QED
      BY <2>1, <2>2 DEF E, Earlier
  <1>4. CASE Complete(r)
    <2> DEFINE entry == [run |-> r, revision |-> run[r].revision,
                         components |-> run[r].components]
    <2>1. /\ entry \in Entry /\ completed' = Append(completed, entry)
          /\ project' # Void /\ project'.run = r /\ project'.revision = run[r].revision
          /\ snapshot' = snapshot /\ run'[r].pc = "ended"
      BY <1>4, Recording, OtherEffects DEF Complete
    <2>2. /\ run[r].pc = "complete" /\ run[r].pc \in Active /\ run[r].revision \notin clashed
          /\ run[r].stage = run[r].components /\ run[r].components \in Stage
      BY <1>4 DEF Complete, Active, Alone, FrameInv
    <2>3. \A s \in 1 .. run[r].components, f \in File :
            snapshot[<<run[r].revision, s, f>>] = r
      <3> TAKE s \in 1 .. run[r].components, f \in File
      <3>1. PICK i \in 1 .. Len(Order) : f = Order[i]
        BY OrderFacts
      <3>2. s \in Stage /\ (s < run[r].stage \/ s = run[r].stage)
        BY <2>2, OrderFacts DEF Stage
      <3> QED
        BY <2>2, <3>1, <3>2 DEF Staged
    <2>4. /\ entry.run = r /\ entry.revision = run[r].revision
          /\ entry.components = run[r].components
      OBVIOUS
    <2> HIDE DEF entry
    <2>5. /\ run'[entry.run].pc = "ended"
          /\ entry.revision = project'.revision /\ entry.run = project'.run
          /\ \A s \in 1 .. entry.components, f \in File :
               snapshot'[<<entry.revision, s, f>>] = entry.run
      BY <2>1, <2>3, <2>4
    <2>6. ASSUME NEW i \in 1 .. Len(completed')
          PROVE  completed'[i] = entry \/ (i \in 1 .. Len(completed) /\ completed'[i] = completed[i])
      BY <1>0, <2>1
    <2>7. \A e \in Entry : E(e) => E(e)'
      BY <1>1
    <2>8. ASSUME NEW i \in 1 .. Len(completed')
          PROVE  /\ project' # Void
                 /\ \/ completed'[i].revision < project'.revision
                    \/ completed'[i].revision = project'.revision /\ completed'[i].run = project'.run
                 /\ run'[completed'[i].run].pc = "ended"
                 /\ \A s \in 1 .. completed'[i].components, f \in File :
                      snapshot'[<<completed'[i].revision, s, f>>] = completed'[i].run
      <3>1. CASE completed'[i] = entry
        BY <2>1, <2>5, <3>1
      <3>2. CASE i \in 1 .. Len(completed) /\ completed'[i] = completed[i]
        BY <1>2, <2>7, <3>2
      <3> QED
        BY <2>6, <3>1, <3>2
    <2> QED
      BY <2>8 DEF Earlier
  <1> QED
    BY <1>3, <1>4

LEMMA RememberedStep ==
  ASSUME WorkspaceTypeOK, FrameInv, Earlier, Remembered, NEW r \in Run, RunStep(r),
         \A q \in Run : q # r => ~Going(q) /\ ~Going(q)'
  PROVE  Remembered'
PROOF
  <1>0. completed \in Seq(Entry) /\ run[r].history \in Seq(Entry) /\ MaxHistory \in Nat /\ MaxHistory > 1
    BY OrderFacts DEF WorkspaceTypeOK, Frame
  <1>1. CASE BeginRun(r)
    <2>1. run'[r].history = Kept /\ project' = project /\ completed' = completed
      BY <1>1, BeginEffect DEF BeginRun
    <2>2. CASE project = Void
      <3>1. completed = << >>
        BY <1>0, <2>2 DEF Earlier
      <3> QED
        BY <2>1, <2>2, <3>1 DEF Remembered, Recent
    <2>3. CASE project # Void
      <3>1. project.history \in Seq(Entry) /\ Recent(project.history)
        BY <2>3 DEF WorkspaceTypeOK, State, Remembered
      <3>2. Kept = LastOf(project.history, MaxHistory - 1) /\ MaxHistory - 1 \in Nat
        BY <1>0, <2>3 DEF Kept
      <3>3. Recent(Kept)
        <4> SUFFICES ASSUME NEW d \in Nat, d < MaxHistory - 1, d < Len(completed)
                     PROVE  /\ Len(Kept) > d
                            /\ Kept[Len(Kept) - d] = completed[Len(completed) - d]
          BY DEF Recent
        <4>1. /\ Len(project.history) > d
              /\ project.history[Len(project.history) - d] = completed[Len(completed) - d]
          BY <3>1 DEF Recent
        <4>2. d < Len(project.history)
          BY <3>1, <4>1
        <4> QED
          BY <3>1, <3>2, <4>1, <4>2, LastOfType
      <3> QED
        BY <2>1, <3>1, <3>3 DEF Remembered, Recent
    <2> QED
      BY <2>2, <2>3
  <1>2. CASE WriteState(r)
    <2>1. /\ project'.history = run[r].history /\ completed' = completed /\ Going(r)
          /\ run'[r].history = run[r].history
      BY <1>2, Recording, OtherEffects DEF WriteState, Going
    <2> QED
      BY <2>1 DEF Remembered, Recent
  <1>3. CASE Complete(r)
    <2> DEFINE entry == [run |-> r, revision |-> run[r].revision,
                         components |-> run[r].components]
    <2>1. /\ entry \in Entry /\ completed' = Append(completed, entry)
          /\ project'.history = Append(run[r].history, entry)
          /\ ~Going(r)' /\ Recent(run[r].history)
      BY <1>3, Recording, OtherEffects DEF Complete, Going, Remembered
    <2> HIDE DEF entry
    <2>2. ASSUME NEW d \in Nat, d < MaxHistory - 1, d < Len(completed')
          PROVE  /\ Len(project'.history) > d
                 /\ project'.history[Len(project'.history) - d] = completed'[Len(completed') - d]
      <3>1. CASE d = 0
        BY <1>0, <2>1, <3>1
      <3>2. CASE d # 0
        <4>1. d - 1 \in Nat /\ d - 1 < MaxHistory - 1 /\ d - 1 < Len(completed)
          BY <1>0, <2>1, <2>2, <3>2
        <4>2. /\ Len(run[r].history) > d - 1
              /\ run[r].history[Len(run[r].history) - (d - 1)]
                   = completed[Len(completed) - (d - 1)]
          BY <2>1, <4>1 DEF Recent
        <4>3. /\ Len(completed') - d = Len(completed) - (d - 1)
              /\ Len(project'.history) - d = Len(run[r].history) - (d - 1)
              /\ Len(completed) - (d - 1) \in 1 .. Len(completed)
              /\ Len(run[r].history) - (d - 1) \in 1 .. Len(run[r].history)
              /\ Len(project'.history) > d
          BY <1>0, <2>1, <3>2, <4>1, <4>2
        <4>4. /\ \A j \in 1 .. Len(completed) : completed'[j] = completed[j]
              /\ \A j \in 1 .. Len(run[r].history) : project'.history[j] = run[r].history[j]
          BY <1>0, <2>1
        <4> QED
          BY <4>2, <4>3, <4>4
      <3> QED
        BY <3>1, <3>2
    <2> QED
      BY <2>1, <2>2 DEF Remembered, Recent
  <1>4. CASE Planned(r) \/ WriteSnapshot(r) \/ WriteDraft(r)
    <2>1. Going(r) /\ run'[r].history = run[r].history
      BY <1>4, PlannedEffect, AdvanceEffect, WriteDraftEffect
         DEF Planned, WriteSnapshot, WriteDraft, Going
    <2>2. project' = project /\ completed' = completed
      BY <1>4 DEF Planned, WriteSnapshot, WriteDraft
    <2> QED
      BY <2>1, <2>2 DEF Remembered, Recent
  <1>5. CASE Raise(r)
    <2>1. ~Going(r)' /\ project' = project /\ completed' = completed
      BY <1>5, OtherEffects DEF Raise, Going
    <2> QED
      BY <2>1 DEF Remembered, Recent
  <1> QED
    BY <1>1, <1>2, <1>3, <1>4, <1>5 DEF RunStep

(* The page fetches the state as it is.                                    *)
LEMMA RefreshStep ==
  ASSUME WorkspaceTypeOK, PageFollows, Refresh
  PROVE  PageFollows'
PROOF
  <1>1. project \in State /\ project # Void /\ project' = project
    BY DEF Refresh, WorkspaceTypeOK
  <1>2. /\ SeenOf(project).revision = project.revision /\ SeenOf(project).run = project.run
        /\ SeenOf(project).stage = project.stage /\ SeenOf(project) \in View /\ SeenOf(project) # Void
    BY <1>1, VoidAssumption DEF SeenOf, State, View
  <1>3. /\ page'.fetched = SeenOf(project)
        /\ page'.drawn = IF page.drawn # Void /\ Key(page.fetched) = Key(project)
                         THEN page.drawn ELSE SeenOf(project)
    BY DEF Refresh
  <1>4. page'.drawn = SeenOf(project)
    <2>1. CASE page.drawn # Void /\ Key(page.fetched) = Key(project)
      <3>1. page.fetched = page.drawn /\ page.fetched \in View
        BY <2>1 DEF PageFollows, WorkspaceTypeOK
      <3>2. page.fetched.revision = project.revision /\ page.fetched.stage = project.stage
        BY <2>1 DEF Key
      <3>3. project.revision \in Nat
        BY <1>1, OrderFacts DEF State, Revision
      <3>4. page.fetched.run = project.run
        BY <2>1, <3>1, <3>2, <3>3 DEF PageFollows
      <3>5. page.fetched = SeenOf(project)
        BY <3>1, <3>2, <3>4 DEF SeenOf, View
      <3> QED
        BY <1>3, <2>1, <3>1, <3>5
    <2>2. CASE ~ (page.drawn # Void /\ Key(page.fetched) = Key(project))
      BY <1>3, <2>2
    <2> QED
      BY <2>1, <2>2
  <1> QED
    BY <1>1, <1>2, <1>3, <1>4 DEF PageFollows

THEOREM SequentialInductive == WorkspaceSpec => []Sequential
PROOF
  <1>1. WorkspaceInit => Sequential
    <2> SUFFICES ASSUME WorkspaceInit
                 PROVE  Sequential
      OBVIOUS
    <2>1. \A r \in Run : run[r].pc = "idle"
      BY DEF WorkspaceInit, Locals
    <2>2. completed = << >> /\ Len(completed) = 0
      BY DEF WorkspaceInit
    <2> QED
      BY <2>1, <2>2 DEF WorkspaceInit, Sequential, Alone, Building, Whole, Ahead, PageFollows, Earlier,
                        Remembered, Recent, Going
  <1>2. IInv /\ Sequential /\ [WorkspaceNext]_workspaceVars => Sequential'
    <2> SUFFICES ASSUME IInv, Sequential, [WorkspaceNext]_workspaceVars, ~overlapped'
                 PROVE  (Alone /\ Building /\ Whole /\ Ahead /\ PageFollows /\ Earlier
                         /\ Remembered)'
      BY DEF Sequential
    <2>0. WorkspaceTypeOK /\ FrameInv /\ Staged
      BY DEF IInv
    <2>1. CASE UNCHANGED workspaceVars
      BY <2>1 DEF workspaceVars, Sequential, Alone, Building, Whole, Ahead, PageFollows, Earlier,
                  Remembered, Recent, Going
    <2>2. CASE Refresh
      <3>1. PageFollows'
        BY <2>0, <2>2, RefreshStep DEF Refresh, Sequential
      <3> QED
        BY <2>2, <3>1 DEF Refresh, Sequential, Alone, Building, Whole, Ahead, Earlier,
                          Remembered, Recent, Going
    <2>3. ASSUME NEW r \in Run, RunStep(r)
          PROVE  (Alone /\ Building /\ Whole /\ Ahead /\ PageFollows /\ Earlier /\ Remembered)'
      <3>1. ~overlapped
        BY <2>3 DEF RunStep, BeginRun, Planned, WriteSnapshot, WriteState, WriteDraft, Complete, Raise
      <3>2. Alone /\ Building /\ Whole /\ Ahead /\ PageFollows /\ Earlier /\ Remembered
        BY <3>1 DEF Sequential
      <3>3. Alone' /\ \A q \in Run : q # r => ~Going(q) /\ ~Going(q)'
        BY <2>0, <2>3, <3>2, AloneStep
      <3>4. /\ Ahead'
            /\ project # Void =>
                 /\ project' # Void
                 /\ \/ project.revision < project'.revision
                    \/ project.revision = project'.revision /\ project.run = project'.run
        BY <2>0, <2>3, <3>2, <3>3, AheadStep
      <3>5. Building' /\ Whole'
        BY <2>0, <2>3, <3>2, <3>3, DraftsStep
      <3>6. PageFollows' /\ Earlier'
        BY <2>0, <2>3, <3>2, <3>4, PageStep, EarlierStep
      <3>7. Remembered'
        BY <2>0, <2>3, <3>2, <3>3, RememberedStep
      <3> QED
        BY <3>3, <3>4, <3>5, <3>6, <3>7
    <2> QED
      BY <2>1, <2>2, <2>3 DEF WorkspaceNext
  <1> QED
    BY <1>1, <1>2, Inductive, PTL DEF WorkspaceSpec

(* As long as runs do not overlap, however many of them fail, the latest   *)
(* completed revisions stay listed and keep their checkpoints.             *)
THEOREM CompletedAlwaysKept == WorkspaceSpec => []CompletedIsKept
PROOF
  <1>1. IInv /\ Sequential => CompletedIsKept
    <2> SUFFICES ASSUME IInv, Sequential, ~overlapped, NEW i \in 1 .. Len(completed)
                 PROVE  /\ i > Len(completed) - (MaxHistory - 1) =>
                             \E j \in 1 .. Len(project.history) :
                               project.history[j] = completed[i]
                        /\ \A s \in 1 .. completed[i].components, f \in File :
                             snapshot[<<completed[i].revision, s, f>>] = completed[i].run
      BY DEF CompletedIsKept
    <2>1. Earlier /\ Remembered /\ WorkspaceTypeOK
      BY DEF Sequential, IInv
    <2>2. project # Void /\ Recent(project.history)
      BY <2>1 DEF Earlier, Remembered
    <2>3. project.history \in Seq(Entry) /\ Len(completed) \in Nat /\ MaxHistory \in Nat
      BY <2>1, <2>2, OrderFacts DEF WorkspaceTypeOK, State
    <2>4. ASSUME i > Len(completed) - (MaxHistory - 1)
          PROVE  \E j \in 1 .. Len(project.history) : project.history[j] = completed[i]
      <3> DEFINE d == Len(completed) - i
      <3>1. d \in Nat /\ d < MaxHistory - 1 /\ d < Len(completed) /\ Len(completed) - d = i
        BY <2>3, <2>4
      <3> HIDE DEF d
      <3>2. /\ Len(project.history) > d
            /\ project.history[Len(project.history) - d] = completed[i]
        BY <2>2, <3>1 DEF Recent
      <3>3. Len(project.history) - d \in 1 .. Len(project.history)
        BY <2>3, <3>1, <3>2
      <3> QED
        BY <3>2, <3>3
    <2> QED
      BY <2>1, <2>4 DEF Earlier
  <1> QED
    BY <1>1, Inductive, SequentialInductive, PTL

(* As long as runs do not overlap, a state that says draft_complete stands *)
(* beside the three draft files of the run it names.                       *)
THEOREM DraftAlwaysWhole == WorkspaceSpec => []DraftIsWhole
PROOF
  <1>1. Sequential => DraftIsWhole
    BY DEF Sequential, Whole, DraftIsWhole
  <1> QED
    BY <1>1, SequentialInductive, PTL

(* As long as runs do not overlap, the page never keeps an older drawing   *)
(* for the state it shows.                                                 *)
THEOREM PageAlwaysCurrent == WorkspaceSpec => []PageIsCurrent
PROOF
  <1>1. Sequential => PageIsCurrent
    BY DEF Sequential, PageFollows, PageIsCurrent
  <1> QED
    BY <1>1, SequentialInductive, PTL
=============================================================================
