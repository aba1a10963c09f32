--------------------------- MODULE ProjectHistory ---------------------------
(***************************************************************************)
(* Project files: their revisions and history (src/core/project.py), the   *)
(* edit instructions (src/core/edit_language.py) and the saved proposals   *)
(* that a user reviews and applies (src/core/conversational_parser.py).    *)
(* The commands of src/neurocad_cli.py run one at a time; between two of   *)
(* them the user may have changed a file by hand.                          *)
(*                                                                         *)
(* A specification is a wall, a lid and cutouts, with the rules of         *)
(* validate_enclosure_spec that tie them together.  A face is told by the  *)
(* cutout's id, a dimension is a small number.  Source text, reasons,      *)
(* evidence and the size limit of the file are left out.                   *)
(***************************************************************************)
EXTENDS Integers, SequencesExt

CONSTANTS
  Ids, TopIds,   \* cutouts, and those on the top face
  Value,         \* dimensions and positions
  Room,          \* half of what walls and clearances have to stay below
  Starts,        \* the specifications a project may start with
  CutoutLists,   \* values given for the field cutouts on the command line
  Instructions,  \* set a dimension; add, move or remove a cutout
  MaxRevision,   \* bound of the model on the revisions of a project
  MaxActions,    \* and on the actions of a proposal
  NoFile

ASSUME ValueAssumption == Value \subseteq Nat /\ Room \in Nat
ASSUME IdsAssumption == TopIds \subseteq Ids /\ IsFiniteSet(Ids)
ASSUME BoundsAssumption == MaxRevision \in Nat /\ MaxActions \in Nat

VARIABLES
  project,       \* the newest project file
  proposal,      \* the saved proposal
  applied,       \* the last one applied: by whom, to what, with what result
  edited         \* a file has been changed by hand
historyVars == <<project, proposal, applied, edited>>

Kinds == {"none", "friction"}
Lids == [kind : Kinds, clearance : Value]
Cutouts == [id : Ids, at : Value]
CutoutSeqs == {s \in SeqOf(Cutouts, Cardinality(Ids)) : IsInjective([i \in DOMAIN s |-> s[i].id])}
Fields == {"wall", "lid", "lid.kind", "lid.clearance", "cutouts"}
Specs == [wall : Value, lid : Lids, cutouts : Seq(Cutouts)]
ASSUME StartsAssumption == Starts \subseteq Specs /\ CutoutLists \subseteq Seq(Cutouts)

(* Values for a field, those of cutouts being given.                       *)
Values(field, lists) ==
  IF field = "lid" THEN Lids ELSE IF field = "lid.kind" THEN Kinds
  ELSE IF field = "cutouts" THEN lists ELSE Value

IdsOf(cutouts) == {cutouts[i].id : i \in DOMAIN cutouts}

(* validate_enclosure_spec.                                                *)
Valid(s) ==
  /\ 0 < s.wall /\ s.wall < Room
  /\ IF s.lid.kind = "none" THEN s.lid.clearance = 0 /\ IdsOf(s.cutouts) \cap TopIds = {}
     ELSE 0 < s.lid.clearance /\ s.wall + s.lid.clearance < Room
  /\ Cardinality(IdsOf(s.cutouts)) = Len(s.cutouts)

Get(s, field) ==
  IF field = "lid.kind" THEN s.lid.kind
  ELSE IF field = "lid.clearance" THEN s.lid.clearance
  ELSE s[field]

Put(s, field, value) ==
  IF field = "lid.kind" THEN [s EXCEPT !.lid.kind = value]
  ELSE IF field = "lid.clearance" THEN [s EXCEPT !.lid.clearance = value]
  ELSE [s EXCEPT ![field] = value]
-----------------------------------------------------------------------------
(* parse_project: the history is undone, from the newest change back.      *)
Undone(s, change) == Put(s, change.field, change.before)

(* The slip of comparing the values of whole fields only.                  *)
MatchesWhole(s, change) ==
  change.field \in {"lid.kind", "lid.clearance"} \/ Get(s, change.field) = change.after

Matches(s, change) == Get(s, change.field) = change.after

Before(s, change) ==
  IF s.ok /\ change.field \in Fields /\ Matches(s.spec, change)
  THEN [ok |-> Valid(Undone(s.spec, change)), spec |-> Undone(s.spec, change)]
  ELSE [s EXCEPT !.ok = FALSE]

Parses(p) ==
  LET n == Len(p.changes)
      back[k \in 0 .. n] == IF k = 0 THEN [ok |-> Valid(p.spec), spec |-> p.spec]
                            ELSE Before(back[k - 1], p.changes[n + 1 - k])
  IN  /\ p.revision = n + 1
      /\ \A i \in DOMAIN p.changes : p.changes[i].revision = i + 1
      /\ back[n].ok

(* update_project, of a value that leaves the specification valid.         *)
Updated(p, field, value) ==
  [spec |-> Put(p.spec, field, value), revision |-> p.revision + 1,
   changes |-> Append(p.changes, [revision |-> p.revision + 1, field |-> field,
                                  before |-> Get(p.spec, field), after |-> value])]

(* edit_project_from_text: what an instruction asks for, and when it is    *)
(* refused.                                                                *)
ASSUME InstructionsAssumption ==
  Instructions \subseteq [op : {"wall", "lid.clearance"}, value : Value] \cup
    [op : {"add", "move"}, id : Ids, value : Value] \cup [op : {"remove"}, id : Ids]

FieldOf(a) == IF a.op \in Fields THEN a.op ELSE "cutouts"

Understood(s, a) ==
  \/ a.op \in Fields
  \/ a.op = "add" /\ a.id \notin IdsOf(s.cutouts)
  \/ a.op \in {"move", "remove"} /\ a.id \in IdsOf(s.cutouts)

Without(cutouts, id) ==
  LET among[n \in 0 .. Len(cutouts)] ==
        IF n = 0 THEN << >>
        ELSE IF cutouts[n].id # id THEN Append(among[n - 1], cutouts[n]) ELSE among[n - 1]
  IN  among[Len(cutouts)]

ValueOf(s, a) ==
  IF a.op = "add" THEN Append(s.cutouts, [id |-> a.id, at |-> a.value])
  ELSE IF a.op = "move" THEN [i \in DOMAIN s.cutouts |->
                                IF s.cutouts[i].id = a.id THEN [id |-> a.id, at |-> a.value]
                                ELSE s.cutouts[i]]
  ELSE IF a.op = "remove" THEN Without(s.cutouts, a.id)
  ELSE a.value

Allows(s, a) == Understood(s, a) /\ Valid(Put(s, FieldOf(a), ValueOf(s, a)))
Instructed(p, a) == Updated(p, FieldOf(a), ValueOf(p.spec, a))

(* The slip of looking at the differences only, for every field.           *)
TouchedIfChanged(field, before, after) == before # after

(* Whether an action counts for its field: on cutouts, only if it changes  *)
(* anything.                                                               *)
Touches(field, before, after) == field # "cutouts" \/ before # after

(* validate_edit_payload: the actions one after the other, none of them    *)
(* against the value that an earlier one gave its field (touched).         *)
Tried(trial, a) ==
  LET field == FieldOf(a)
      after == ValueOf(trial.project.spec, a)
      touches == Touches(field, Get(trial.project.spec, field), after)
      clash == touches /\ field \in DOMAIN trial.touched /\ trial.touched[field] # after
  IN  IF ~ trial.ok \/ clash \/ ~ Allows(trial.project.spec, a) THEN [trial EXCEPT !.ok = FALSE]
      ELSE [ok |-> TRUE, project |-> Instructed(trial.project, a),
            touched |-> IF touches
                        THEN [f \in {field} \cup DOMAIN trial.touched |->
                                IF f = field THEN after ELSE trial.touched[f]]
                        ELSE trial.touched]

(* Fields, and the cutouts of the baseline, that a request keeps.          *)
Keepable(s) == Fields \cup IdsOf(s.cutouts)
Kept(before, after, f) ==
  IF f \in Fields THEN Get(before, f) = Get(after, f)
  ELSE \E i \in DOMAIN before.cutouts, j \in DOMAIN after.cutouts :
         before.cutouts[i].id = f /\ before.cutouts[i] = after.cutouts[j]

Candidate(p, actions, preserve) ==
  LET trial[k \in 0 .. Len(actions)] ==
        IF k = 0 THEN [ok |-> TRUE, project |-> p, touched |-> << >>]
        ELSE Tried(trial[k - 1], actions[k])
      last == trial[Len(actions)]
  IN  IF actions # << >> /\ last.ok /\ \A f \in preserve : Kept(p.spec, last.project.spec, f)
      THEN last.project ELSE NoFile
-----------------------------------------------------------------------------
HistoryInit == project = NoFile /\ proposal = NoFile /\ applied = NoFile /\ edited = FALSE

(* project_from_interpretation.                                            *)
Create ==
  /\ project = NoFile
  /\ \E s \in Starts : Valid(s) /\ project' = [spec |-> s, revision |-> 1, changes |-> << >>]
  /\ UNCHANGED <<proposal, applied, edited>>

CanGrow == project # NoFile /\ Parses(project) /\ Len(project.changes) + 1 < MaxRevision

(* Bound of the model: once a proposal is saved, the project gets one more *)
(* edit at most, and one file at most is changed by hand.                  *)
Alone == proposal = NoFile

(* enclosure edit, with a field and a value, and with an instruction.      *)
EditField ==
  /\ CanGrow /\ Alone
  /\ \E field \in Fields :
       \E value \in Values(field, CutoutLists) :
         Valid(Put(project.spec, field, value)) /\ project' = Updated(project, field, value)
  /\ UNCHANGED <<proposal, applied, edited>>

EditText ==
  /\ CanGrow /\ (Alone \/ (project.changes = << >> /\ ~ edited))
  /\ \E a \in Instructions : Allows(project.spec, a) /\ project' = Instructed(project, a)
  /\ UNCHANGED <<proposal, applied, edited>>

(* enclosure understand: a proposal for the project as it is (here, new).  *)
Understand ==
  /\ CanGrow /\ Alone /\ project.changes = << >> /\ ~ edited
  /\ \E actions \in SeqOf(Instructions, MaxActions) :
       \E preserve \in {{}} \cup {{f} : f \in Keepable(project.spec)} :
         /\ Candidate(project, actions, preserve) # NoFile
         /\ proposal' = [baseline |-> project, actions |-> actions, preserve |-> preserve,
                         candidate |-> Candidate(project, actions, preserve)]
  /\ UNCHANGED <<project, applied, edited>>

(* review_saved_proposal and apply_proposal.                               *)
Reviewed(p, saved) ==
  /\ saved.baseline = p
  /\ saved.candidate # NoFile
  /\ saved.candidate = Candidate(p, saved.actions, saved.preserve)

Apply ==
  /\ project # NoFile /\ Parses(project) /\ proposal # NoFile
  /\ Reviewed(project, proposal)
  /\ project' = proposal.candidate
  /\ applied' = [by |-> proposal, to |-> project, result |-> proposal.candidate]
  /\ UNCHANGED <<proposal, edited>>

(* Someone edits the project file, in one place.                           *)
AlterProject ==
  /\ project # NoFile /\ Alone /\ ~ edited /\ edited' = TRUE
  /\ \/ \E f \in {"wall", "lid", "cutouts"} :
          \E v \in Values(f, CutoutLists) :
            project' = [project EXCEPT !.spec[f] = v]
     \/ project' = [project EXCEPT !.revision = @ + 1]
     \/ project' = [project EXCEPT !.changes = Front(@)] /\ project.changes # << >>
     \/ \E i \in DOMAIN project.changes :
          \/ project' = [project EXCEPT !.changes[i].revision = @ + 1]
          \/ /\ project.changes[i].field \in {"wall", "lid.clearance"}
             /\ \E f \in {"wall", "lid.clearance", "title"} :
                  project' = [project EXCEPT !.changes[i].field = f]
          \/ \E v \in Values(project.changes[i].field, CutoutLists) :
               \/ project' = [project EXCEPT !.changes[i].before = v]
               \/ project' = [project EXCEPT !.changes[i].after = v]
  /\ UNCHANGED <<proposal, applied>>

(* Or the saved proposal: its actions, what it keeps, or its candidate.    *)
AlterProposal ==
  /\ proposal # NoFile /\ ~ edited /\ edited' = TRUE
  /\ \/ \E a \in Instructions, i \in DOMAIN proposal.actions :
          proposal' = [proposal EXCEPT !.actions[i] = a]
     \/ proposal' = [proposal EXCEPT !.preserve = {}]
     \/ \E a \in Instructions : Allows(proposal.candidate.spec, a)
          /\ proposal' = [proposal EXCEPT !.candidate = Instructed(@, a)]
  /\ UNCHANGED <<project, applied>>

HistoryNext ==
  \/ Create \/ EditField \/ EditText \/ Understand \/ Apply \/ AlterProject \/ AlterProposal

HistorySpec == HistoryInit /\ [][HistoryNext]_historyVars
-----------------------------------------------------------------------------
ValidSpecs ==
  UNION {{s \in [wall : Value, lid : {lid}, cutouts : CutoutSeqs] : Valid(s)} : lid \in Lids}

(* What the changes make of a first specification, oldest first.           *)
Outcomes(changes) ==
  LET after[k \in 0 .. Len(changes)] ==
        IF k = 0 THEN ValidSpecs
        ELSE {s \in {Put(t, changes[k].field, changes[k].after) :
                       t \in {u \in after[k - 1] :
                                Get(u, changes[k].field) = changes[k].before}} : Valid(s)}
  IN  after[Len(changes)]

(* A file is read exactly if some valid specification became the recorded  *)
(* one by the recorded changes, one a revision (project.py:370-465 goes    *)
(* the other way, and never looks for the first specification).            *)
HistoryIsExact ==
  project # NoFile =>
    (Parses(project) <=>
       /\ project.revision = Len(project.changes) + 1
       /\ \A i \in DOMAIN project.changes :
            project.changes[i].revision = i + 1 /\ project.changes[i].field \in Fields
       /\ project.spec \in Outcomes(project.changes))

(* What an action asks for, seen in a specification.                       *)
Holds(s, a) ==
  /\ a.op = "remove" => a.id \notin IdsOf(s.cutouts)
  /\ a.op \in {"add", "move"} => [id |-> a.id, at |-> a.value] \in ToSet(s.cutouts)
  /\ a.op \in Fields => Get(s, a.op) = a.value

(* What has been applied is what was shown for review, to the project it   *)
(* was shown for: every action can be seen in it, what was to be kept is   *)
(* as it was, and so is everything that no action names                    *)
(* (conversational_parser.py:279-300, 491-520).  Not seen may be an action *)
(* on a cutout that held in the project before: line 288 exempts it, so    *)
(* that "move a" to where it is and "remove a" pass as one proposal.       *)
AppliedIsReviewed ==
  applied # NoFile =>
    LET by == applied.by
        before == applied.to.spec
        after == applied.result.spec
        named == {FieldOf(a) : a \in ToSet(by.actions)}
        ids == {a.id : a \in {b \in ToSet(by.actions) : FieldOf(b) = "cutouts"}}
    IN  /\ by.baseline = applied.to
        /\ IsPrefix(applied.to.changes, applied.result.changes)
        /\ applied.result.revision = applied.to.revision + Len(by.actions)
        /\ \A a \in ToSet(by.actions) : Holds(after, a) \/ (FieldOf(a) = "cutouts" /\ Holds(before, a))
        /\ \A f \in by.preserve : Kept(before, after, f)
        /\ after.lid.kind = before.lid.kind
        /\ \A f \in {"wall", "lid.clearance"} \ named : Get(after, f) = Get(before, f)
        /\ {c \in ToSet(after.cutouts) : c.id \notin ids} = {c \in ToSet(before.cutouts) : c.id \notin ids}
=============================================================================
