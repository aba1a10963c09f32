--------------------------- MODULE AgentWorkspace ---------------------------
(***************************************************************************)
(* The agent workspace of src/core/agentic.py: a directory in which every  *)
(* request to the agent makes a revision, one checkpoint per component,    *)
(* and the live page of src/core/agent_workbench.py that polls it.         *)
(*                                                                         *)
(* A run reads project.json once, at its start, and numbers its revision   *)
(* after the one it finds there.  Everything it writes afterwards it       *)
(* writes without looking again: nothing keeps two runs apart.  Each file  *)
(* is replaced atomically, so a file is modelled by the run that wrote it  *)
(* (and the stage, for the drafts, whose names do not tell it): the runs'  *)
(* plans differ, and a recorded SHA-256 identifies the run that took it.   *)
(* The log events.jsonl, which is only displayed, is left out.             *)
(***************************************************************************)
EXTENDS Naturals, Sequences, FiniteSets

CONSTANTS
  Run,           \* calls of AgentWorkspace.run on one directory, over time
  Void,
  Order,         \* the files of a stage as they are written: ir, scad, preview
  MaxComponents, \* bound of the model on the components of a plan
  MaxRevision,   \* bound of the model on the revisions the runs can reach
  MaxHistory,    \* MAX_HISTORY
  MaxAtOnce      \* bound of the model on the runs that go at the same time

ASSUME BoundsAssumption ==
  /\ MaxComponents \in Nat \ {0} /\ MaxRevision \in Nat \ {0}
  /\ MaxHistory \in Nat \ {0, 1} /\ MaxAtOnce \in Nat \ {0}
ASSUME OrderAssumption == /\ Order \in Seq(STRING) /\ Order # << >>
                          /\ \A i, j \in 1 .. Len(Order) : Order[i] = Order[j] => i = j

File == {Order[i] : i \in 1 .. Len(Order)}
Stage == 1 .. MaxComponents
Revision == 1 .. MaxRevision

VARIABLES
  project,     \* what project.json says, or Void
  snapshot,    \* the run whose file lies under snapshots/, by name, or Void
  draft,       \* design.ncad.json, design.scad, preview.svg: who wrote each, when
  run,         \* the local variables of each run
  page,        \* the live page: the state it fetched last, and what it draws
  completed,   \* (history) the runs that have recorded draft_complete, in order
  overlapped,  \* (history) a run has begun while another was going
  clashed      \* (history) revisions two runs were making at the same time
workspaceVars == <<project, snapshot, draft, run, page, completed, overlapped, clashed>>

Name == Revision \X Stage \X File
Entry == [run : Run, revision : Revision, components : Stage]
State == [run : Run, revision : Revision, stage : Stage,
          status : {"building", "draft_complete"}, history : Seq(Entry)]
PC == {"idle", "planning", "checkpoint", "record", "drafts", "complete", "ended"}
Frame == [pc : PC, revision : Revision \cup {0}, components : 0 .. MaxComponents,
          stage : 0 .. MaxComponents, file : 1 .. Len(Order), history : Seq(Entry)]
Locals(pc) == [pc |-> pc, revision |-> 0, components |-> 0, stage |-> 0,
               file |-> 1, history |-> << >>]
View == [run : Run, revision : Revision, stage : Stage]
ASSUME VoidAssumption == Void \notin Run \cup View /\ Void \notin State

WorkspaceInit ==
  /\ project = Void
  /\ snapshot = [n \in Name |-> Void]
  /\ draft = [f \in File |-> Void]
  /\ run = [r \in Run |-> Locals("idle")]
  /\ page = [fetched |-> Void, drawn |-> Void]
  /\ completed = << >>
  /\ overlapped = FALSE
  /\ clashed = {}

Going(r) == run[r].pc \notin {"idle", "ended"}

(* The slip of counting the completed revisions instead.                   *)
NextByHistory == IF project = Void THEN 1 ELSE Len(project.history) + 1

(* The revision after the recorded one, whether or not that was completed. *)
NextRevision == IF project = Void THEN 1 ELSE project.revision + 1

LastOf(seq, n) == SubSeq(seq, IF Len(seq) > n THEN Len(seq) - n + 1 ELSE 1, Len(seq))

(* The slip of taking the history from a completed state only.             *)
KeptIfComplete == IF project = Void \/ project.status = "building" THEN << >>
                  ELSE LastOf(project.history, MaxHistory - 1)

(* The earlier entries that a run will write back: room for its own.       *)
Kept == IF project = Void THEN << >> ELSE LastOf(project.history, MaxHistory - 1)

BeginRun(r) ==
  /\ run[r].pc = "idle"
  /\ NextRevision <= MaxRevision
  /\ Cardinality({q \in Run : Going(q)}) < MaxAtOnce
  /\ run' = [run EXCEPT ![r] = [@ EXCEPT !.pc = "planning", !.revision = NextRevision,
                                         !.history = Kept]]
  /\ overlapped' = (overlapped \/ \E q \in Run : Going(q))
  /\ clashed' = clashed \cup
       {n \in {NextRevision} : \E q \in Run : Going(q) /\ run[q].revision = n}
  /\ UNCHANGED <<project, snapshot, draft, page, completed>>

(* The provider's plan has passed plan_to_program: it has a component.     *)
Planned(r) ==
  /\ run[r].pc = "planning"
  /\ \E n \in Stage :
       run' = [run EXCEPT ![r] = [@ EXCEPT !.pc = "checkpoint", !.components = n,
                                           !.stage = 1, !.file = 1]]
  /\ UNCHANGED <<project, snapshot, draft, page, completed, overlapped, clashed>>

(* The next file of the stage, and where the run goes after the last.      *)
Advance(r, then) ==
  IF run[r].file < Len(Order)
  THEN run' = [run EXCEPT ![r].file = @ + 1]
  ELSE run' = [run EXCEPT ![r] = [@ EXCEPT !.file = 1, !.pc = then]]

WriteSnapshot(r) ==
  /\ run[r].pc = "checkpoint"
  /\ snapshot' = [snapshot EXCEPT ![<<run[r].revision, run[r].stage, Order[run[r].file]>>] = r]
  /\ Advance(r, "record")
  /\ UNCHANGED <<project, draft, page, completed, overlapped, clashed>>

Recorded(r, status, history) ==
  [run |-> r, revision |-> run[r].revision, stage |-> run[r].stage,
   status |-> status, history |-> history]

WriteState(r) ==
  /\ run[r].pc = "record"
  /\ project' = Recorded(r, "building", run[r].history)
  /\ run' = [run EXCEPT ![r].pc = "drafts"]
  /\ UNCHANGED <<snapshot, draft, page, completed, overlapped, clashed>>

(* The slip of going on to the next component after the first draft file.  *)
WriteDraftOnce(r) ==
  /\ run[r].pc = "drafts"
  /\ draft' = [draft EXCEPT ![Order[run[r].file]] = <<r, run[r].stage>>]
  /\ run' = [run EXCEPT ![r] = IF @.stage < @.components
                               THEN [@ EXCEPT !.pc = "checkpoint", !.stage = @ + 1]
                               ELSE [@ EXCEPT !.pc = "complete"]]
  /\ UNCHANGED <<project, snapshot, page, completed, overlapped, clashed>>

WriteDraft(r) ==
  /\ run[r].pc = "drafts"
  /\ draft' = [draft EXCEPT ![Order[run[r].file]] = <<r, run[r].stage>>]
  /\ IF run[r].file = Len(Order) /\ run[r].stage < run[r].components
     THEN run' = [run EXCEPT ![r] = [@ EXCEPT !.pc = "checkpoint", !.file = 1,
                                              !.stage = run[r].stage + 1]]
     ELSE Advance(r, "complete")
  /\ UNCHANGED <<project, snapshot, page, completed, overlapped, clashed>>

Complete(r) ==
  LET entry == [run |-> r, revision |-> run[r].revision,
                components |-> run[r].components]
  IN  /\ run[r].pc = "complete"
      /\ project' = Recorded(r, "draft_complete", Append(run[r].history, entry))
      /\ run' = [run EXCEPT ![r] = Locals("ended")]
      /\ completed' = Append(completed, entry)
      /\ UNCHANGED <<snapshot, draft, page, overlapped, clashed>>

(* A provider, a callback or a write raises, the user presses Ctrl-C, or   *)
(* the process dies: what has been written stays.                          *)
Raise(r) ==
  /\ Going(r)
  /\ run' = [run EXCEPT ![r] = Locals("ended")]
  /\ UNCHANGED <<project, snapshot, draft, page, completed, overlapped, clashed>>

(* The slip of leaving the revision out of the page's key.                 *)
KeyByStage(state) == state.stage

(* The page draws again only when the revision or the stage has changed.   *)
Key(state) == <<state.revision, state.stage>>
SeenOf(state) == [run |-> state.run, revision |-> state.revision, stage |-> state.stage]

Refresh ==
  /\ project # Void
  /\ page' = [fetched |-> SeenOf(project),
              drawn |-> IF page.drawn # Void /\ Key(page.fetched) = Key(project)
                        THEN page.drawn ELSE SeenOf(project)]
  /\ UNCHANGED <<project, snapshot, draft, run, completed, overlapped, clashed>>

RunStep(r) ==
  \/ BeginRun(r) \/ Planned(r) \/ WriteSnapshot(r) \/ WriteState(r) \/ WriteDraft(r)
  \/ Complete(r) \/ Raise(r)

WorkspaceNext == Refresh \/ \E r \in Run : RunStep(r)
WorkspaceSpec == WorkspaceInit /\ [][WorkspaceNext]_workspaceVars
-----------------------------------------------------------------------------
WorkspaceTypeOK ==
  /\ project \in State \cup {Void}
  /\ snapshot \in [Name -> Run \cup {Void}]
  /\ draft \in [File -> (Run \X Stage) \cup {Void}]
  /\ run \in [Run -> Frame]
  /\ page \in [fetched : View \cup {Void}, drawn : View \cup {Void}]
  /\ completed \in Seq(Entry)
  /\ overlapped \in BOOLEAN
  /\ clashed \in SUBSET Revision

(* The checkpoint that project.json names is on disk as it was hashed: all *)
(* three files are those of the run that recorded it, whatever other runs  *)
(* are doing, as long as no two of them were making that revision at once. *)
CheckpointMatches ==
  project # Void /\ project.revision \notin clashed =>
    \A f \in File : snapshot[<<project.revision, project.stage, f>>] = project.run

(* Runs that follow one another, however many of them fail, lose nothing:  *)
(* project.json lists the latest completed revisions, all but at most the  *)
(* ones beyond MAX_HISTORY, and each of them still has its checkpoints.    *)
CompletedIsKept ==
  ~overlapped =>
    \A i \in 1 .. Len(completed) :
      LET e == completed[i]
      IN  /\ i > Len(completed) - (MaxHistory - 1) => \E j \in 1 .. Len(project.history) : project.history[j] = e
          /\ \A s \in 1 .. e.components, f \in File :
               snapshot[<<e.revision, s, f>>] = e.run

(* When project.json says draft_complete, the three files a user opens are *)
(* all those of the last component of that run.                            *)
DraftIsWhole ==
  project # Void /\ project.status = "draft_complete" /\ ~overlapped =>
    \A f \in File : draft[f] = <<project.run, project.stage>>

(* The page draws what it fetched: a revision number and a stage identify  *)
(* the geometry, although runs that failed have used some of the numbers.  *)
PageIsCurrent == ~overlapped => page.drawn = page.fetched
=============================================================================
