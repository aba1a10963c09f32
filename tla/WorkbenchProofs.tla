-------------------------- MODULE WorkbenchProofs --------------------------
(***************************************************************************)
(* The safety properties of Workbench, for every set of texts and modes    *)
(* and any number of requests.  All of them rest on one invariant: what    *)
(* is known of the one request in flight that is current.                  *)
(***************************************************************************)
EXTENDS Workbench, TLAPS

(* No request has a number yet to come, and only one can be current.       *)
Numbered ==
  /\ \A r \in flying : r.id <= generation
  /\ \A r, s \in flying : IsCurrent(r) /\ IsCurrent(s) => r = s

(* Nothing that the current request was made from has changed.             *)
RunFits(r) == r.mode = mode /\ r.text = source /\ (r.retain \/ output = {})
OpenFits == ProjectIsUnsaved => drafts["project"] \in agreed
EditFits(r) == \A p \in r.base : \A o \in output : p \in o.project => r.text = o.text

CurrentFits ==
  \A r \in flying : IsCurrent(r) =>
    /\ r.kind \in {"run", "compile"} => RunFits(r)
    /\ r.kind \in {"reading", "open"} => OpenFits
    /\ r.kind = "edit" => EditFits(r)

IInv ==
  /\ PageTypeOK
  /\ SourceIsDraft
  /\ OutputIsCurrent
  /\ ProposalIsFresh
  /\ ControlsMatch
  /\ Numbered
  /\ CurrentFits

-----------------------------------------------------------------------------
(* Type correctness *)

LEMMA NoneOrOne ==
  ASSUME NEW S PROVE {} \in Optional(S) /\ \A x \in S : {x} \in Optional(S)
  BY DEF Optional

(* What Begin adds to the requests in flight, and the number it takes.     *)
LEMMA BeginTyped ==
  ASSUME PageTypeOK, NEW kind \in {"run", "compile", "reading", "edit"}, NEW m \in Mode,
         NEW text \in Text, NEW base \in Optional(Number), NEW retain \in BOOLEAN,
         Begin(kind, m, text, base, retain)
  PROVE  /\ generation' \in Number
         /\ pending' \in Optional(Number)
         /\ proposal' = {}
         /\ locked' \in SUBSET Button
         /\ flying' \in SUBSET PageRequest
<1>1. Fresh \in Number
  BY MaxGenerationAssumption DEF Begin, MayCount, Fresh, Number, PageTypeOK
<1>2. Ask(Fresh, kind, m, text, base, retain) \in PageRequest
  BY <1>1 DEF Ask, PageRequest, Optional
<1> QED  BY <1>1, <1>2 DEF Begin, PageTypeOK, Optional

(* What Invalidate does to the number and the controls. *)
LEMMA InvalidateTyped ==
  ASSUME PageTypeOK, Invalidate
  PROVE  /\ generation' \in Number
         /\ pending' = {} /\ proposal' = {}
         /\ locked' \in SUBSET Button
  BY MaxGenerationAssumption
     DEF Invalidate, MayCount, Fresh, Number, Locks, PageTypeOK

(* A rendered result is one result. *)
LEMMA RenderTyped ==
  ASSUME NEW m \in Mode, NEW text \in Text, NEW n \in Number, RenderResult(m, text, n)
  PROVE  output' \in Optional(Result)
  BY DEF RenderResult, Result, Optional

(* Finishing a request leaves none pending. *)
LEMMA FinishTyped ==
  ASSUME PageTypeOK, NEW r \in flying, Finish(r)
  PROVE  /\ flying' \in SUBSET PageRequest
         /\ pending' = {}
         /\ locked' \in SUBSET Button
  BY DEF Finish, Locks, PageTypeOK

(* A page that has just been loaded, now or by the next step.              *)
LEMMA LoadedTyped ==
  ASSUME NEW d \in FirstDrafts
  PROVE  /\ "enclosure" \in Mode /\ d \in [Mode -> Text] /\ d["enclosure"] \in Text
         /\ First \in Number
         /\ {Ask(First, "run", "enclosure", d["enclosure"], {}, FALSE)} \in SUBSET PageRequest
<1>1. "enclosure" \in Mode /\ d \in [Mode -> Text] /\ d["enclosure"] \in Text
  BY ModeAssumption DEF FirstDrafts
<1>2. First \in Number
  BY MaxGenerationAssumption DEF First, Number
<1> QED  BY <1>1, <1>2 DEF Ask, PageRequest, Optional

LEMMA InitTyped == PageInit => PageTypeOK
<1> SUFFICES ASSUME PageInit PROVE PageTypeOK
  OBVIOUS
<1> USE LoadedTyped
<1>1. mode \in Mode /\ source \in Text /\ drafts \in [Mode -> Text] /\ unsaved \in SUBSET Mode
  BY DEF PageInit
<1>2. generation \in Number /\ pending \in Optional(Number)
  BY DEF PageInit, Optional
<1>3. locked \in SUBSET Button /\ flying \in SUBSET PageRequest
  BY DEF PageInit
<1>4. /\ output \in Optional(Result) /\ proposal \in Optional(Edit) /\ chosen \in Optional(Text)
      /\ agreed \in SUBSET Text
  BY DEF PageInit, Optional
<1> QED  BY <1>1, <1>2, <1>3, <1>4 DEF PageTypeOK

LEMMA UserTyped == PageTypeOK /\ User => PageTypeOK'
<1> SUFFICES ASSUME PageTypeOK, User PROVE PageTypeOK'
  OBVIOUS
<1>1. ASSUME NEW t \in Text, Type(t) PROVE PageTypeOK'
  BY <1>1, InvalidateTyped DEF Type, PageTypeOK, Optional
<1>2. ASSUME NEW t \in Text, DeclineOpen(t) PROVE PageTypeOK'
  BY <1>2 DEF DeclineOpen, input, PageTypeOK, Optional
<1>3. ASSUME NEW t \in Text, Open(t) PROVE PageTypeOK'
  <2>1. "project" \in Mode
    BY ModeAssumption
  <2>2. /\ generation' \in Number
        /\ pending' \in Optional(Number)
        /\ proposal' = {}
        /\ locked' \in SUBSET Button
        /\ flying' \in SUBSET PageRequest
    BY <1>3, <2>1, BeginTyped, NoneOrOne DEF Open
  <2> QED  BY <1>3, <2>1, <2>2 DEF Open, input, PageTypeOK, Optional
<1>4. ASSUME NEW m \in Mode, ChangeMode(m) PROVE PageTypeOK'
  BY <1>4, InvalidateTyped DEF ChangeMode, PageTypeOK, Optional
<1>5. CASE Reload
  <2>1. /\ mode' \in Mode /\ source' \in Text /\ drafts' \in [Mode -> Text]
        /\ generation' \in Number /\ flying' \in SUBSET PageRequest
        /\ pending' \in Optional(Number)
    BY <1>5, LoadedTyped, NoneOrOne DEF Reload
  <2>2. agreed' \in SUBSET Text
    BY <1>5 DEF Reload, PageTypeOK
  <2> QED  BY <1>5, <2>1, <2>2 DEF Reload, PageTypeOK, Optional
<1>6. CASE Reconsider
  BY <1>6, InvalidateTyped DEF Reconsider, input, PageTypeOK, Optional
<1>7. CASE Generate
  <2>1. /\ generation' \in Number
        /\ pending' \in Optional(Number)
        /\ proposal' = {}
        /\ locked' \in SUBSET Button
        /\ flying' \in SUBSET PageRequest
    BY <1>7, BeginTyped, NoneOrOne DEF Generate, PageTypeOK
  <2> QED  BY <1>7, <2>1 DEF Generate, input, PageTypeOK, Optional
<1>8. CASE CompileProject
  <2>1. /\ generation' \in Number
        /\ pending' \in Optional(Number)
        /\ proposal' = {}
        /\ locked' \in SUBSET Button
        /\ flying' \in SUBSET PageRequest
    BY <1>8, BeginTyped, NoneOrOne DEF CompileProject, PageTypeOK
  <2> QED  BY <1>8, <2>1 DEF CompileProject, input, PageTypeOK, Optional
<1>9. CASE PreviewEdit
  <2>1. PICK o \in output : \E p \in o.project : Begin("edit", o.mode, o.text, {p}, FALSE)
    BY <1>9 DEF PreviewEdit
  <2>2. PICK p \in o.project : Begin("edit", o.mode, o.text, {p}, FALSE)
    BY <2>1
  <2>3. o.mode \in Mode /\ o.text \in Text /\ {p} \in Optional(Number)
    BY DEF PageTypeOK, Result, Optional
  <2>4. /\ generation' \in Number
        /\ pending' \in Optional(Number)
        /\ proposal' = {}
        /\ locked' \in SUBSET Button
        /\ flying' \in SUBSET PageRequest
    BY <2>2, <2>3, BeginTyped
  <2> QED  BY <1>9, <2>4 DEF PreviewEdit, input, PageTypeOK, Optional
<1>10. CASE Discard
  BY <1>10 DEF Discard, input, PageTypeOK, Optional
<1>11. CASE Apply
  <2>1. PICK e \in proposal : /\ drafts' = [drafts EXCEPT ![mode] = source, !["project"] = e.to]
                              /\ source' = e.to
                              /\ RenderResult("project", e.to, Fresh)
    BY <1>11 DEF Apply
  <2>2. e.to \in Text /\ "project" \in Mode /\ Fresh \in Number
    BY <1>11, ModeAssumption, MaxGenerationAssumption
       DEF Apply, MayCount, Fresh, Number, PageTypeOK, Edit, Optional
  <2>3. output' \in Optional(Result)
    BY <2>1, <2>2, RenderTyped
  <2>4. /\ source' \in Text /\ drafts' \in [Mode -> Text] /\ mode' \in Mode
        /\ unsaved' \in SUBSET Mode /\ agreed' \in SUBSET Text
    BY <1>11, <2>1, <2>2 DEF Apply, PageTypeOK
  <2>5. locked' \in SUBSET Button
    BY <1>11 DEF Apply, Locks
  <2> QED  BY <1>11, <2>2, <2>3, <2>4, <2>5 DEF Apply, PageTypeOK, Optional
<1> QED  BY <1>1, <1>2, <1>3, <1>4, <1>5, <1>6, <1>7, <1>8, <1>9, <1>10, <1>11 DEF User

LEMMA SettleTyped == \A r \in flying : PageTypeOK /\ Settle(r) => PageTypeOK'
<1> SUFFICES ASSUME PageTypeOK, NEW r \in flying, Settle(r) PROVE PageTypeOK'
  OBVIOUS
<1>0. r \in PageRequest /\ r.mode \in Mode /\ r.text \in Text
  BY DEF PageTypeOK, PageRequest
<1>1. CASE Late(r)
  BY <1>1 DEF Late, input, PageTypeOK, Optional
<1>2. CASE Validated(r)
  <2>1. output' \in Optional(Result)
    BY <1>0, <1>2, RenderTyped DEF Validated, PageTypeOK
  <2>2. flying' \in SUBSET PageRequest /\ pending' = {} /\ locked' \in SUBSET Button
    BY <1>2, FinishTyped DEF Validated
  <2> QED  BY <1>2, <2>1, <2>2 DEF Validated, input, PageTypeOK, Optional
<1>3. CASE Rejected(r)
  <2>1. flying' \in SUBSET PageRequest /\ pending' = {} /\ locked' \in SUBSET Button
    BY <1>3, FinishTyped DEF Rejected
  <2> QED  BY <1>3, <2>1 DEF Rejected, input, PageTypeOK, Optional
<1>4. CASE FileRead(r)
  <2>1. [r EXCEPT !.kind = "open"] \in PageRequest
    BY <1>0 DEF PageRequest
  <2> QED  BY <1>4, <2>1 DEF FileRead, input, PageTypeOK, Optional
<1>5. CASE Opened(r)
  <2>1. "project" \in Mode
    BY ModeAssumption
  <2>2. output' \in Optional(Result)
    BY <1>0, <1>5, <2>1, RenderTyped DEF Opened, PageTypeOK
  <2>3. flying' \in SUBSET PageRequest /\ pending' = {} /\ locked' \in SUBSET Button
    BY <1>5, FinishTyped DEF Opened
  <2> QED  BY <1>0, <1>5, <2>1, <2>2, <2>3 DEF Opened, PageTypeOK, Optional
<1>6. CASE NotOpened(r)
  <2>1. flying' \in SUBSET PageRequest /\ pending' = {} /\ locked' \in SUBSET Button
    BY <1>6, FinishTyped DEF NotOpened
  <2> QED  BY <1>6, <2>1 DEF NotOpened, input, PageTypeOK, Optional
<1>7. ASSUME NEW t \in Text, Proposed(r, t) PROVE PageTypeOK'
  <2>1. flying' \in SUBSET PageRequest /\ pending' = {} /\ locked' \in SUBSET Button
    BY <1>7, FinishTyped DEF Proposed
  <2>2. \A p, q \in r.base : p \in Number /\ p = q
    BY DEF PageTypeOK, PageRequest, Optional
  <2>3. proposal' \in Optional(Edit)
    BY <1>0, <1>7, <2>2 DEF Proposed, Edit, PageRequest, Optional
  <2> QED  BY <1>7, <2>1, <2>3 DEF Proposed, input, PageTypeOK, Optional
<1>8. CASE NotProposed(r)
  <2>1. flying' \in SUBSET PageRequest /\ pending' = {} /\ locked' \in SUBSET Button
    BY <1>8, FinishTyped DEF NotProposed
  <2> QED  BY <1>8, <2>1 DEF NotProposed, input, PageTypeOK, Optional
<1> QED  BY <1>1, <1>2, <1>3, <1>4, <1>5, <1>6, <1>7, <1>8 DEF Settle

-----------------------------------------------------------------------------
(* What handlers are made of *)

(* What is known of requests, controls and the proposal.                   *)
Requests ==
  /\ ProposalIsFresh
  /\ ControlsMatch
  /\ Numbered
  /\ CurrentFits

(* An invalidation makes whatever is in flight obsolete.  The controls may *)
(* be set from an output that is on its way out.                           *)
LEMMA InvalidateKeeps ==
  ASSUME PageTypeOK, Requests, NEW shown, Projects(output') \subseteq Projects(shown),
         generation' = Fresh, pending' = {}, proposal' = {}, flying' = flying,
         locked' = Locks(FALSE, shown, {})
  PROVE  Requests'
<1>1. \A r \in flying : r.id \in Nat /\ r.id < generation'
  BY MaxGenerationAssumption DEF Requests, Numbered, Fresh, Number, PageTypeOK, PageRequest
<1>2. \A r \in flying' : ~IsCurrent(r)'
  BY <1>1 DEF IsCurrent
<1>3. Numbered'
  BY <1>1, <1>2, MaxGenerationAssumption DEF Numbered, Fresh, Number, PageTypeOK
<1>4. CurrentFits'
  BY <1>2 DEF CurrentFits
<1>5. ControlsMatch'
  BY DEF ControlsMatch, Locks
<1>6. ProposalIsFresh'
  BY DEF ProposalIsFresh
<1> QED  BY <1>3, <1>4, <1>5, <1>6 DEF Requests

(* A new request is the only current one, and fits what it is made from.   *)
LEMMA BeginKeeps ==
  ASSUME PageTypeOK, Requests,
         NEW kind, NEW m, NEW text, NEW base, NEW retain,
         Begin(kind, m, text, base, retain),
         kind \in {"run", "compile"} =>
           m = mode' /\ text = source' /\ (retain \/ output' = {}),
         kind \in {"reading", "open"} => OpenFits',
         kind = "edit" =>
           \A p \in base : \A o \in output' : p \in o.project => text = o.text
  PROVE  Requests'
<1> DEFINE new == Ask(Fresh, kind, m, text, base, retain)
<1>1. /\ generation' = Fresh /\ pending' = {Fresh} /\ proposal' = {}
      /\ locked' = Button /\ flying' = flying \cup {new}
  BY DEF Begin
<1>2. /\ new.id = Fresh /\ new.kind = kind /\ new.mode = m
      /\ new.text = text /\ new.base = base /\ new.retain = retain
  BY DEF Ask
<1> HIDE DEF new
<1>3. \A r \in flying : r.id \in Nat /\ r.id < generation'
  BY <1>1, MaxGenerationAssumption DEF Requests, Numbered, Fresh, Number, PageTypeOK, PageRequest
<1>4. \A r \in flying' : IsCurrent(r)' <=> r = new
  BY <1>1, <1>2, <1>3 DEF IsCurrent
<1>5. Numbered'
  BY <1>1, <1>2, <1>3, <1>4, MaxGenerationAssumption DEF Numbered, Fresh, Number, PageTypeOK
<1>6. CurrentFits'
  BY <1>2, <1>4 DEF CurrentFits, RunFits, EditFits
<1>7. ControlsMatch'
  BY <1>1, <1>2, <1>4 DEF ControlsMatch
<1>8. ProposalIsFresh'
  BY <1>1 DEF ProposalIsFresh
<1> QED  BY <1>5, <1>6, <1>7, <1>8 DEF Requests

(* After the current request has come to its end, none is current.         *)
LEMMA FinishKeeps ==
  ASSUME Requests, NEW r \in flying, IsCurrent(r), Finish(r), generation' = generation,
         \A e \in proposal' : \E o \in output' : e.base \in o.project /\ e.from = o.text
  PROVE  Requests'
<1>1. flying' = flying \ {r} /\ pending' = {} /\ locked' = Locks(FALSE, output', proposal')
  BY DEF Finish
<1>2. \A s \in flying' : ~IsCurrent(s)'
  BY <1>1 DEF Requests, Numbered, IsCurrent
<1>3. Numbered'
  BY <1>1, <1>2 DEF Requests, Numbered
<1>4. CurrentFits'
  BY <1>2 DEF CurrentFits
<1>5. ControlsMatch'
  BY <1>1 DEF ControlsMatch, Locks
<1>6. ProposalIsFresh'
  BY <1>1 DEF ProposalIsFresh
<1> QED  BY <1>3, <1>4, <1>5, <1>6 DEF Requests

-----------------------------------------------------------------------------
(* The inductive invariant *)

Shown == SourceIsDraft /\ OutputIsCurrent

LEMMA Parts == IInv <=> PageTypeOK /\ Shown /\ Requests
  BY DEF IInv, Shown, Requests

LEMMA InitParts == PageInit => Shown /\ Requests
<1> SUFFICES ASSUME PageInit PROVE Shown /\ Requests
  OBVIOUS
<1> DEFINE first == Ask(First, "run", mode, source, {}, FALSE)
<1>1. /\ first.id = 1 /\ first.kind = "run" /\ first.mode = mode
      /\ first.text = source /\ flying = {first} /\ pending = {1} /\ generation = 1
  BY DEF PageInit, Ask, First
<1> HIDE DEF first
<1>2. Shown
  BY DEF PageInit, Shown, SourceIsDraft, OutputIsCurrent
<1>3. Numbered
  BY <1>1 DEF Numbered
<1>5. ControlsMatch
  BY <1>1 DEF PageInit, ControlsMatch, IsCurrent
<1>4. CurrentFits /\ ProposalIsFresh
  BY <1>1 DEF PageInit, CurrentFits, RunFits, ProposalIsFresh
<1> QED  BY <1>2, <1>3, <1>4, <1>5 DEF Requests

LEMMA UserKeeps == PageTypeOK /\ Shown /\ Requests /\ User => Shown' /\ Requests'
<1> SUFFICES ASSUME PageTypeOK, Shown, Requests, User PROVE Shown' /\ Requests'
  OBVIOUS
<1>1. ASSUME NEW t \in Text, Type(t) PROVE Shown' /\ Requests'
  <2>1. Shown'
    BY <1>1 DEF Type, Shown, SourceIsDraft, OutputIsCurrent, PageTypeOK
  <2>2. Projects(output') \subseteq Projects(output)
    BY <1>1 DEF Type, Projects
  <2>3. Requests'
    BY <1>1, <2>2, InvalidateKeeps DEF Type, Invalidate
  <2> QED  BY <2>1, <2>3
<1>2. ASSUME NEW t \in Text, DeclineOpen(t) PROVE Shown' /\ Requests'
  <2>1. Shown'
    BY <1>2 DEF DeclineOpen, input, Shown, SourceIsDraft, OutputIsCurrent
  <2>2. ProposalIsFresh' /\ ControlsMatch' /\ Numbered'
    BY <1>2 DEF DeclineOpen, Requests, ProposalIsFresh, ControlsMatch, Numbered, IsCurrent
  <2>3. CurrentFits'
    BY <1>2 DEF DeclineOpen, input, Requests, CurrentFits, RunFits, OpenFits, EditFits,
                IsCurrent, ProjectIsUnsaved
  <2> QED  BY <2>1, <2>2, <2>3 DEF Requests
<1>3. ASSUME NEW t \in Text, Open(t) PROVE Shown' /\ Requests'
  <2>1. Shown'
    BY <1>3 DEF Open, input, Shown, SourceIsDraft, OutputIsCurrent
  <2>2. OpenFits'
    BY <1>3 DEF Open, input, OpenFits, ProjectIsUnsaved
  <2>3. Requests'
    BY <1>3, <2>2, BeginKeeps DEF Open
  <2> QED  BY <2>1, <2>3
<1>4. ASSUME NEW m \in Mode, ChangeMode(m) PROVE Shown' /\ Requests'
  <2>1. Shown'
    BY <1>4 DEF ChangeMode, Shown, SourceIsDraft, OutputIsCurrent, PageTypeOK
  <2>2. Projects(output') \subseteq Projects(output)
    BY <1>4 DEF ChangeMode, Projects
  <2>3. Requests'
    BY <1>4, <2>2, InvalidateKeeps DEF ChangeMode, Invalidate
  <2> QED  BY <2>1, <2>3
<1>5. CASE Reload
  <2> DEFINE first == Ask(First, "run", mode', source', {}, FALSE)
  <2>1. /\ first.id = 1 /\ first.kind = "run" /\ first.mode = mode'
        /\ first.text = source' /\ flying' = {first} /\ pending' = {1} /\ generation' = 1
    BY <1>5 DEF Reload, Ask, First
  <2> HIDE DEF first
  <2>2. Shown'
    BY <1>5 DEF Reload, Shown, SourceIsDraft, OutputIsCurrent
  <2>3. Numbered'
    BY <2>1 DEF Numbered
  <2>5. ControlsMatch'
    BY <1>5, <2>1 DEF Reload, ControlsMatch, IsCurrent
  <2>4. CurrentFits' /\ ProposalIsFresh'
    BY <1>5, <2>1 DEF Reload, CurrentFits, RunFits, ProposalIsFresh
  <2> QED  BY <2>2, <2>3, <2>4, <2>5 DEF Requests
<1>6. CASE Reconsider
  <2>1. Shown'
    BY <1>6 DEF Reconsider, input, Shown, SourceIsDraft, OutputIsCurrent
  <2>2. Requests'
    BY <1>6, InvalidateKeeps DEF Reconsider, Invalidate
  <2> QED  BY <2>1, <2>2
<1>7. CASE Generate
  <2>1. Shown'
    BY <1>7 DEF Generate, input, Shown, SourceIsDraft, OutputIsCurrent
  <2>2. Requests'
    BY <1>7, BeginKeeps DEF Generate, input
  <2> QED  BY <2>1, <2>2
<1>8. CASE CompileProject
  <2>1. Shown'
    BY <1>8 DEF CompileProject, input, Shown, SourceIsDraft, OutputIsCurrent
  <2>2. Requests'
    BY <1>8, BeginKeeps DEF CompileProject, input
  <2> QED  BY <2>1, <2>2
<1>9. CASE PreviewEdit
  <2>1. Shown'
    BY <1>9 DEF PreviewEdit, input, Shown, SourceIsDraft, OutputIsCurrent
  <2>2. PICK o \in output : \E p \in o.project : Begin("edit", o.mode, o.text, {p}, FALSE)
    BY <1>9 DEF PreviewEdit
  <2>3. PICK p \in o.project : Begin("edit", o.mode, o.text, {p}, FALSE)
    BY <2>2
  <2>4. output' = output /\ \A q \in output : q = o
    BY <1>9 DEF PreviewEdit, PageTypeOK, Optional
  <2>5. \A x \in {p} : \A q \in output' : x \in q.project => o.text = q.text
    BY <2>4
  <2>6. /\ "edit" \in {"run", "compile"} =>
             o.mode = mode' /\ o.text = source' /\ (FALSE \/ output' = {})
        /\ "edit" \in {"reading", "open"} => OpenFits'
    OBVIOUS
  <2>7. Requests'
    BY <2>3, <2>5, <2>6, BeginKeeps, Zenon
  <2> QED  BY <2>1, <2>7
<1>10. CASE Discard
  <2>1. Shown'
    BY <1>10 DEF Discard, input, Shown, SourceIsDraft, OutputIsCurrent
  <2>2. ProposalIsFresh' /\ ControlsMatch' /\ Numbered'
    BY <1>10 DEF Discard, Requests, ProposalIsFresh, ControlsMatch, Numbered, IsCurrent
  <2>3. CurrentFits'
    BY <1>10 DEF Discard, input, Requests, CurrentFits, RunFits, OpenFits, EditFits,
                 IsCurrent, ProjectIsUnsaved
  <2> QED  BY <2>1, <2>2, <2>3 DEF Requests
<1>11. CASE Apply
  <2>1. PICK e \in proposal : /\ drafts' = [drafts EXCEPT ![mode] = source, !["project"] = e.to]
                              /\ source' = e.to
                              /\ RenderResult("project", e.to, Fresh)
    BY <1>11 DEF Apply
  <2>2. Shown'
    BY <1>11, <2>1, ModeAssumption
       DEF Apply, RenderResult, Shown, SourceIsDraft, OutputIsCurrent, PageTypeOK
  <2>3. Requests'
    BY <1>11, InvalidateKeeps DEF Apply, Requests
  <2> QED  BY <2>2, <2>3
<1> QED  BY <1>1, <1>2, <1>3, <1>4, <1>5, <1>6, <1>7, <1>8, <1>9, <1>10, <1>11 DEF User

LEMMA SettleKeeps ==
  \A r \in flying : PageTypeOK /\ Shown /\ Requests /\ Settle(r) => Shown' /\ Requests'
<1> SUFFICES ASSUME PageTypeOK, Shown, Requests, NEW r \in flying, Settle(r)
             PROVE  Shown' /\ Requests'
  OBVIOUS
<1>1. CASE Late(r)
  <2>1. Shown'
    BY <1>1 DEF Late, input, Shown, SourceIsDraft, OutputIsCurrent
  <2>2. ProposalIsFresh' /\ ControlsMatch' /\ Numbered'
    BY <1>1 DEF Late, Requests, ProposalIsFresh, ControlsMatch, Numbered, IsCurrent
  <2>3. CurrentFits'
    BY <1>1 DEF Late, input, Requests, CurrentFits, RunFits, OpenFits, EditFits,
                IsCurrent, ProjectIsUnsaved
  <2> QED  BY <2>1, <2>2, <2>3 DEF Requests
<1>2. CASE Validated(r)
  <2>1. r.mode = mode /\ r.text = source
    BY <1>2 DEF Validated, Requests, CurrentFits, RunFits
  <2>2. Shown'
    BY <1>2, <2>1 DEF Validated, RenderResult, input, Shown, SourceIsDraft, OutputIsCurrent
  <2>3. Requests'
    BY <1>2, FinishKeeps DEF Validated
  <2> QED  BY <2>2, <2>3
<1>3. CASE Rejected(r)
  <2>1. Shown'
    BY <1>3 DEF Rejected, input, Shown, SourceIsDraft, OutputIsCurrent
  <2>2. \A e \in proposal' : \E o \in output' : e.base \in o.project /\ e.from = o.text
    BY <1>3 DEF Rejected, Requests, ProposalIsFresh
  <2>3. Requests'
    BY <1>3, <2>2, FinishKeeps DEF Rejected
  <2> QED  BY <2>1, <2>3
<1>4. CASE FileRead(r)
  <2> DEFINE read == [r EXCEPT !.kind = "open"]
  <2>1. read.id = r.id /\ read.kind = "open" /\ flying' = (flying \ {r}) \cup {read}
    BY <1>4 DEF FileRead, PageTypeOK, PageRequest
  <2> HIDE DEF read
  <2>2. Shown'
    BY <1>4 DEF FileRead, input, Shown, SourceIsDraft, OutputIsCurrent
  <2>3. ProposalIsFresh'
    BY <1>4 DEF FileRead, Requests, ProposalIsFresh
  <2>4. IsCurrent(r) /\ \A s \in flying' : IsCurrent(s)' <=> s = read
    BY <1>4, <2>1 DEF FileRead, Requests, Numbered, IsCurrent
  <2>5. Numbered'
    BY <1>4, <2>1, <2>4 DEF FileRead, Requests, Numbered
  <2>6. OpenFits'
    BY <1>4, <2>4 DEF FileRead, input, Requests, CurrentFits, OpenFits, ProjectIsUnsaved
  <2>7. CurrentFits'
    BY <2>1, <2>4, <2>6 DEF CurrentFits
  <2>8. ControlsMatch'
    BY <1>4, <2>1, <2>4 DEF FileRead, Requests, ControlsMatch, IsCurrent
  <2> QED  BY <2>2, <2>3, <2>5, <2>7, <2>8 DEF Requests
<1>5. CASE Opened(r)
  <2>1. Shown'
    BY <1>5, ModeAssumption
      DEF Opened, RenderResult, Shown, SourceIsDraft, OutputIsCurrent, PageTypeOK
  <2>2. Requests'
    BY <1>5, FinishKeeps DEF Opened
  <2> QED  BY <2>1, <2>2
<1>6. CASE NotOpened(r)
  <2>1. Shown'
    BY <1>6 DEF NotOpened, input, Shown, SourceIsDraft, OutputIsCurrent
  <2>2. Requests'
    BY <1>6, FinishKeeps DEF NotOpened, Requests, ProposalIsFresh
  <2> QED  BY <2>1, <2>2
<1>7. ASSUME NEW t \in Text, Proposed(r, t) PROVE Shown' /\ Requests'
  <2>1. Shown'
    BY <1>7 DEF Proposed, input, Shown, SourceIsDraft, OutputIsCurrent
  <2>2. EditFits(r)
    BY <1>7 DEF Proposed, Requests, CurrentFits
  <2>3. \A e \in proposal' : \E o \in output' : e.base \in o.project /\ e.from = o.text
    BY <1>7, <2>2 DEF Proposed, EditFits, Projects
  <2>4. Requests'
    BY <1>7, <2>3, FinishKeeps DEF Proposed
  <2> QED  BY <2>1, <2>4
<1>8. CASE NotProposed(r)
  <2>1. Shown'
    BY <1>8 DEF NotProposed, input, Shown, SourceIsDraft, OutputIsCurrent
  <2>2. Requests'
    BY <1>8, FinishKeeps DEF NotProposed, Requests, ProposalIsFresh
  <2> QED  BY <2>1, <2>2
<1> QED  BY <1>1, <1>2, <1>3, <1>4, <1>5, <1>6, <1>7, <1>8 DEF Settle

LEMMA StutterKeeps == IInv /\ UNCHANGED pageVars => IInv'
<1> SUFFICES ASSUME IInv, UNCHANGED pageVars PROVE IInv'
  OBVIOUS
<1> USE DEF pageVars
<1>1. PageTypeOK'
  BY DEF IInv, PageTypeOK
<1>2. SourceIsDraft' /\ OutputIsCurrent' /\ ProposalIsFresh'
  BY DEF IInv, SourceIsDraft, OutputIsCurrent, ProposalIsFresh
<1>3. ControlsMatch' /\ Numbered'
  BY DEF IInv, ControlsMatch, Numbered, IsCurrent
<1>4. CurrentFits'
  BY DEF IInv, CurrentFits, RunFits, OpenFits, EditFits, IsCurrent, ProjectIsUnsaved
<1> QED  BY <1>1, <1>2, <1>3, <1>4 DEF IInv

LEMMA NextKeeps == IInv /\ [PageNext]_pageVars => IInv'
<1> SUFFICES ASSUME IInv, [PageNext]_pageVars PROVE IInv'
  OBVIOUS
<1>1. CASE User
  BY <1>1, Parts, UserTyped, UserKeeps DEF IInv, Shown, Requests
<1>2. ASSUME NEW r \in flying, Settle(r) PROVE IInv'
  BY <1>2, Parts, SettleTyped, SettleKeeps DEF IInv, Shown, Requests
<1>3. CASE UNCHANGED pageVars
  BY <1>3, StutterKeeps
<1> QED  BY <1>1, <1>2, <1>3 DEF PageNext

(* Everything below follows from one invariant, which holds however the    *)
(* user's input, answers, failures and reloads of the page interleave.     *)
THEOREM PageInvariant == PageSpec => []IInv
<1>1. PageInit => IInv
  BY InitTyped, InitParts, Parts
<1> QED  BY <1>1, NextKeeps, PTL DEF PageSpec

-----------------------------------------------------------------------------
(* The properties *)

(* render shows an answer only to the input it was made from.              *)
THEOREM ResultsAreCurrent == PageSpec => []OutputIsCurrent
<1>1. IInv => OutputIsCurrent
  BY DEF IInv
<1> QED  BY <1>1, PageInvariant, PTL

(* applyEdit never applies an edit of a project that is not on show.       *)
THEOREM ProposalsAreFresh == PageSpec => []ProposalIsFresh
<1>1. IInv => ProposalIsFresh
  BY DEF IInv
<1> QED  BY <1>1, PageInvariant, PTL

(* setBusy and the request in flight agree.                                *)
THEOREM ControlsMatchRequests == PageSpec => []ControlsMatch
<1>1. IInv => ControlsMatch
  BY DEF IInv
<1> QED  BY <1>1, PageInvariant, PTL

(* A draft is what the user sees of it.                                    *)
THEOREM DraftsAreShown == PageSpec => []SourceIsDraft
<1>1. IInv => SourceIsDraft
  BY DEF IInv
<1> QED  BY <1>1, PageInvariant, PTL

(* No failure of compile, open or edit clears validated output.            *)
LEMMA FailureStep ==
  ASSUME IInv, PageNext, output # {}, output' = {}
  PROVE  source' # source \/ mode' # mode \/ Generate \/ Reload
<1>1. ASSUME NEW t \in Text, Type(t) \/ DeclineOpen(t) \/ Open(t)
      PROVE  source' # source
  BY <1>1 DEF Type, DeclineOpen, Open
<1>2. ASSUME NEW m \in Mode, ChangeMode(m) PROVE mode' # mode
  BY <1>2 DEF ChangeMode
<1>3. ASSUME Reconsider \/ CompileProject \/ PreviewEdit \/ Discard \/ Apply PROVE FALSE
  BY <1>3 DEF Reconsider, CompileProject, PreviewEdit, Discard, Apply, RenderResult
<1>4. ASSUME NEW r \in flying, Settle(r) PROVE FALSE
  <2>1. ~Rejected(r)
    BY DEF Rejected, IInv, CurrentFits, RunFits
  <2> QED
    BY <1>4, <2>1 DEF Settle, Late, Validated, FileRead, Opened, NotOpened, Proposed,
                      NotProposed, RenderResult
<1> QED  BY <1>1, <1>2, <1>3, <1>4 DEF PageNext, User

THEOREM FailureKeepsOutput == PageSpec => OutputSurvivesFailure
<1>1. IInv /\ [PageNext]_pageVars =>
        [output # {} /\ output' = {} =>
           source' # source \/ mode' # mode \/ Generate \/ Reload]_pageVars
  BY FailureStep
<1> QED  BY <1>1, PageInvariant, PTL DEF PageSpec, OutputSurvivesFailure

(* An unsaved draft that a step replaces. *)
Accounted(m) ==
  \/ m = mode /\ \E t \in Text : Type(t)
  \/ drafts[m] \in agreed'
  \/ m = "project" /\ m = mode /\ \E e \in proposal : e.from = drafts[m]

LEMMA LossStep ==
  ASSUME IInv, PageNext, NEW m \in unsaved, drafts'[m] # drafts[m]
  PROVE  Accounted(m)
<1>0. m \in Mode /\ mode \in Mode /\ drafts \in [Mode -> Text] /\ source = drafts[mode]
  BY DEF IInv, PageTypeOK, SourceIsDraft
<1>1. ASSUME NEW t \in Text, Type(t) PROVE Accounted(m)
  BY <1>0, <1>1 DEF Type, Accounted
<1>2. ASSUME NEW t \in Text, DeclineOpen(t) \/ Open(t) PROVE FALSE
  BY <1>2 DEF DeclineOpen, Open, input
<1>3. ASSUME NEW n \in Mode, ChangeMode(n) PROVE FALSE
  BY <1>0, <1>3 DEF ChangeMode
<1>4. ASSUME Reload PROVE Accounted(m)
  BY <1>4 DEF Reload, Accounted
<1>5. ASSUME Reconsider \/ Generate \/ CompileProject \/ PreviewEdit \/ Discard PROVE FALSE
  BY <1>5 DEF Reconsider, Generate, CompileProject, PreviewEdit, Discard, input
<1>6. ASSUME Apply PROVE Accounted(m)
  <2>1. PICK e \in proposal : /\ drafts' = [drafts EXCEPT ![mode] = source, !["project"] = e.to]
                              /\ e.base \in Projects(output)
    BY <1>6 DEF Apply
  <2>2. m = "project"
    BY <1>0, <2>1
  <2>3. CASE mode # "project"
    BY <1>6, <2>2, <2>3 DEF Apply, ProjectIsUnsaved, Accounted
  <2>4. CASE mode = "project"
    <3>1. \E o \in output : e.from = o.text
      BY DEF IInv, ProposalIsFresh
    <3>2. e.from = drafts[m]
      BY <1>0, <2>2, <2>4, <3>1 DEF IInv, OutputIsCurrent
    <3> QED  BY <2>2, <2>4, <3>2 DEF Accounted
  <2> QED  BY <2>3, <2>4
<1>7. ASSUME NEW r \in flying, Settle(r) PROVE Accounted(m)
  <2>1. CASE Opened(r)
    <3>1. m = "project"
      BY <1>0, <2>1 DEF Opened
    <3>2. drafts["project"] \in agreed
      BY <2>1, <3>1 DEF Opened, IInv, CurrentFits, OpenFits, ProjectIsUnsaved
    <3> QED  BY <2>1, <3>1, <3>2 DEF Opened, Accounted
  <2>2. ~Opened(r) => drafts' = drafts
    BY <1>7 DEF Settle, Late, Validated, Rejected, FileRead, NotOpened, Proposed,
                NotProposed, input
  <2> QED  BY <2>1, <2>2
<1> QED  BY <1>1, <1>2, <1>3, <1>4, <1>5, <1>6, <1>7 DEF PageNext, User

(* openProject and applyEdit ask before they replace an unsaved draft, and *)
(* the draft they asked about is the one they replace, although an answer  *)
(* of the server lies between question and replacement.                    *)
THEOREM OnlyAgreedLoss == PageSpec => UnsavedSurvives
<1>1. IInv /\ [PageNext]_pageVars =>
        [\A m \in unsaved : drafts'[m] # drafts[m] =>
           \/ m = mode /\ \E t \in Text : Type(t)
           \/ drafts[m] \in agreed'
           \/ m = "project" /\ m = mode /\ \E e \in proposal : e.from = drafts[m]]_pageVars
  BY LossStep DEF Accounted
<1> QED  BY <1>1, PageInvariant, PTL DEF PageSpec, UnsavedSurvives
=============================================================================
