----------------------------- MODULE Workbench -----------------------------
(***************************************************************************)
(* The browser page of core/workbench.py: drafts of the input in several   *)
(* modes, one validated result on show, one proposed edit, and requests to *)
(* the local server whose answers may come after the input they were made  *)
(* from has changed.  Aborting a request is a courtesy: its answer may     *)
(* still arrive, and only the generation number keeps it off the page.     *)
(*                                                                         *)
(* A step is one event handler, or one continuation of an async function,  *)
(* which the browser runs to its next await without interruption.          *)
(*                                                                         *)
(* MaxGeneration bounds the requests and invalidations between two loads   *)
(* of the page.                                                            *)
(***************************************************************************)
EXTENDS Naturals

CONSTANTS
  Text,           \* contents of drafts, project files and projects
  Empty,          \* the empty draft
  Mode,           \* input contracts offered by #sourceType
  ProjectMode,    \* those whose valid result is an editable project
  MaxGeneration   \* bound on generation

ASSUME EmptyAssumption == Empty \in Text
ASSUME ModeAssumption ==
  /\ {"enclosure", "project"} \subseteq Mode
  /\ {"project"} \subseteq ProjectMode
ASSUME TextAssumption == Text # {Empty}
ASSUME MaxGenerationAssumption == MaxGeneration \in Nat \ {0}

Number == 1..MaxGeneration

VARIABLES
  mode,         \* activeMode, and type.value between events
  source,       \* source.value
  drafts,       \* drafts by mode
  unsaved,      \* unsavedModes
  generation,   \* the number of the latest request or invalidation
  pending,      \* {} or the number of the request in pending
  locked,       \* which buttons are disabled
  flying,       \* requests whose handler has not come to its end
  output,       \* {} or the result on show, with its downloads
  proposal,     \* {} or the edit under review
  chosen,       \* {} or the file named in the file input
  agreed        \* history: the unsaved drafts the user last agreed to lose

input == <<mode, source, drafts, unsaved>>
pageVars == <<mode, source, drafts, unsaved, generation, pending, locked, flying,
          output, proposal, chosen, agreed>>

(* What may be there or not.                                               *)
Optional(S) == {T \in SUBSET S : \A x, y \in T : x = y}

(* A request remembers what it was made from; "reading" is openProject     *)
(* before its file is read, base holds the project that an edit starts     *)
(* from.                                                                   *)
PageRequest == [id : Number, kind : {"run", "compile", "reading", "open", "edit"},
            mode : Mode, text : Text, base : Optional(Number), retain : BOOLEAN]

(* A result: its input, and the number by which its project is known, if   *)
(* it has one (the identity of the object currentProject).                 *)
Result == [mode : Mode, text : Text, project : Optional(Number)]

Edit == [base : Number, from : Text, to : Text]

Button == {"generate", "compile", "previewEdit", "applyEdit"}

PageTypeOK ==
  /\ mode \in Mode
  /\ source \in Text
  /\ drafts \in [Mode -> Text]
  /\ unsaved \in SUBSET Mode
  /\ generation \in Number
  /\ pending \in Optional(Number)
  /\ locked \in SUBSET Button
  /\ flying \in SUBSET PageRequest
  /\ output \in Optional(Result)
  /\ proposal \in Optional(Edit)
  /\ chosen \in Optional(Text)
  /\ agreed \in SUBSET Text

(* currentProject                                                          *)
Projects(shown) == UNION {o.project : o \in shown}

(* setBusy, from what currentProject and editProposal are at that moment.  *)
Locks(busy, shown, edits) ==
  IF busy THEN Button
  ELSE {b \in Button : \/ b = "previewEdit" /\ Projects(shown) = {}
                       \/ b = "applyEdit" /\ edits = {}}

Ask(n, kind, m, text, base, retain) ==
  [id |-> n, kind |-> kind, mode |-> m, text |-> text, base |-> base, retain |-> retain]

(* The page after it has loaded and called run(): two modes come with an   *)
(* example, the first of which is being validated.                         *)
First == 1
FirstDrafts == {d \in [Mode -> Text] : \A m \in Mode : d[m] = Empty <=> m \in {"ir", "project"}}

PageInit ==
  /\ mode = "enclosure"
  /\ drafts \in FirstDrafts
  /\ source = drafts["enclosure"]
  /\ unsaved = {}
  /\ generation = First
  /\ pending = {First}
  /\ locked = Button
  /\ flying = {Ask(First, "run", mode, source, {}, FALSE)}
  /\ output = {}
  /\ proposal = {}
  /\ chosen = {}
  /\ agreed = {}

-----------------------------------------------------------------------------
(* What handlers are made of *)

(* generation++ *)
Fresh == generation + 1
MayCount == generation < MaxGeneration

(* invalidateRequest: whatever is in flight is obsolete from here on.      *)
Invalidate ==
  /\ MayCount
  /\ generation' = Fresh
  /\ pending' = {}
  /\ proposal' = {}
  /\ locked' = Locks(FALSE, output, {})

(* Mutant: a new request leaves the proposal under review. *)
BeginKeepsProposal(kind, m, text, base, retain) ==
  /\ MayCount
  /\ generation' = Fresh
  /\ pending' = {Fresh}
  /\ proposal' = proposal
  /\ locked' = Button
  /\ flying' = flying \cup {Ask(Fresh, kind, m, text, base, retain)}

(* beginRequest *)
Begin(kind, m, text, base, retain) ==
  /\ MayCount
  /\ generation' = Fresh
  /\ pending' = {Fresh}
  /\ proposal' = {}
  /\ locked' = Button
  /\ flying' = flying \cup {Ask(Fresh, kind, m, text, base, retain)}

(* render, at generation n *)
RenderResult(m, text, n) ==
  output' = {[mode |-> m, text |-> text,
              project |-> IF m \in ProjectMode THEN {n} ELSE {}]}

(* Mutant: every answer is taken for current while a request is pending. *)
IsCurrentIfPending(r) == pending # {}

(* isCurrent *)
IsCurrent(r) == r.id = generation

(* finishRequest of a current request: output' and proposal' are known.    *)
Finish(r) ==
  /\ flying' = flying \ {r}
  /\ pending' = {}
  /\ locked' = Locks(FALSE, output', proposal')

-----------------------------------------------------------------------------
(* The user's input *)

(* source "input": markDirty *)
Type(t) ==
  /\ t # source
  /\ Invalidate
  /\ source' = t
  /\ drafts' = [drafts EXCEPT ![mode] = t]
  /\ unsaved' = IF t = Empty THEN unsaved \ {mode} ELSE unsaved \cup {mode}
  /\ output' = {}
  /\ UNCHANGED <<mode, flying, chosen, agreed>>

(* type "change", then markDirty(false) *)
ChangeMode(m) ==
  /\ m # mode
  /\ Invalidate
  /\ mode' = m
  /\ source' = drafts[m]
  /\ drafts' = [drafts EXCEPT ![mode] = source]
  /\ output' = {}
  /\ UNCHANGED <<unsaved, flying, chosen, agreed>>

(* The page is closed and opened again.  beforeunload makes the browser    *)
(* ask when there is unsaved work; what was in flight is gone.             *)
Reload ==
  /\ agreed' = {drafts[m] : m \in unsaved}
  /\ mode' = "enclosure"
  /\ drafts' \in FirstDrafts
  /\ source' = drafts'["enclosure"]
  /\ unsaved' = {}
  /\ generation' = First
  /\ pending' = {First}
  /\ locked' = Button
  /\ flying' = {Ask(First, "run", mode', source', {}, FALSE)}
  /\ output' = {}
  /\ proposal' = {}
  /\ chosen' = {}

(* An edit of the instruction or its reason, a change of compileBudget     *)
Reconsider ==
  /\ Invalidate
  /\ UNCHANGED <<input, flying, output, chosen, agreed>>

-----------------------------------------------------------------------------
(* run: validate the input, or compile its mesh *)

(* The keyboard shortcut works also while the buttons are disabled.        *)
Generate ==
  /\ Begin("run", mode, source, {}, FALSE)
  /\ output' = {}
  /\ UNCHANGED <<input, chosen, agreed>>

(* Downloads on show are those of the unchanged input and are retained.    *)
CompileProject ==
  /\ "compile" \notin locked
  /\ Begin("compile", mode, source, {}, output # {})
  /\ UNCHANGED <<input, output, chosen, agreed>>

(* Mutant: an obsolete request gives the buttons back. *)
LateUnlocks(r) ==
  /\ ~IsCurrent(r)
  /\ flying' = flying \ {r}
  /\ locked' = Locks(FALSE, output, proposal)
  /\ UNCHANGED <<input, generation, pending, output, proposal, chosen, agreed>>

(* An answer whose request is not current changes nothing on the page.     *)
Late(r) ==
  /\ ~IsCurrent(r)
  /\ flying' = flying \ {r}
  /\ UNCHANGED <<input, generation, pending, locked, output, proposal, chosen, agreed>>

Validated(r) ==
  /\ r.kind \in {"run", "compile"} /\ IsCurrent(r)
  /\ r.text # Empty
  /\ RenderResult(r.mode, r.text, generation)
  /\ proposal' = {}
  /\ Finish(r)
  /\ UNCHANGED <<input, generation, chosen, agreed>>

(* Mutant: a failed compilation always clears the result. *)
RejectedClears(r) ==
  /\ r.kind \in {"run", "compile"} /\ IsCurrent(r)
  /\ output' = {}
  /\ proposal' = {}
  /\ Finish(r)
  /\ UNCHANGED <<input, generation, chosen, agreed>>

(* Mutant: no timer ends a request that the server leaves unanswered, as   *)
(* it would the empty ones.                                                *)
RejectedByServer(r) ==
  /\ r.kind \in {"run", "compile"} /\ IsCurrent(r)
  /\ r.text # Empty
  /\ output' = IF r.retain THEN output ELSE {}
  /\ proposal' = IF r.retain THEN proposal ELSE {}
  /\ Finish(r)
  /\ UNCHANGED <<input, generation, chosen, agreed>>

(* The server refuses, the request times out, or the server is gone.       *)
Rejected(r) ==
  /\ r.kind \in {"run", "compile"} /\ IsCurrent(r)
  /\ output' = IF r.retain THEN output ELSE {}
  /\ proposal' = IF r.retain THEN proposal ELSE {}
  /\ Finish(r)
  /\ UNCHANGED <<input, generation, chosen, agreed>>

-----------------------------------------------------------------------------
(* openProject *)

ProjectIsUnsaved == "project" \in unsaved

(* The user picks a file, and declines to give up an unsaved project.      *)
DeclineOpen(f) ==
  /\ {f} # chosen
  /\ ProjectIsUnsaved
  /\ chosen' = {}
  /\ UNCHANGED <<input, generation, pending, locked, flying, output, proposal, agreed>>

(* Mutant: a file replaces the project draft without a question. *)
OpenUnasked(f) ==
  /\ {f} # chosen
  /\ Begin("reading", "project", f, {}, FALSE)
  /\ chosen' = {f}
  /\ agreed' = {}
  /\ UNCHANGED <<input, output>>

Open(f) ==
  /\ {f} # chosen
  /\ Begin("reading", "project", f, {}, FALSE)
  /\ chosen' = {f}
  /\ agreed' = IF ProjectIsUnsaved THEN {drafts["project"]} ELSE {}
  /\ UNCHANGED <<input, output>>

(* await file.text(), then the request to the server                       *)
FileRead(r) ==
  /\ r.kind = "reading" /\ IsCurrent(r)
  /\ flying' = (flying \ {r}) \cup {[r EXCEPT !.kind = "open"]}
  /\ UNCHANGED <<input, generation, pending, locked, output, proposal, chosen, agreed>>

Opened(r) ==
  /\ r.kind = "open" /\ IsCurrent(r)
  /\ r.text # Empty
  /\ drafts' = [drafts EXCEPT ![mode] = source, !["project"] = r.text]
  /\ unsaved' = unsaved \ {"project"}
  /\ mode' = "project"
  /\ source' = r.text
  /\ RenderResult("project", r.text, generation)
  /\ proposal' = {}
  /\ chosen' = {}
  /\ Finish(r)
  /\ UNCHANGED <<generation, agreed>>

(* The file is too large, unreadable or no valid project.                  *)
NotOpened(r) ==
  /\ r.kind \in {"reading", "open"} /\ IsCurrent(r)
  /\ chosen' = {}
  /\ UNCHANGED <<input, generation, output, proposal, agreed>>
  /\ Finish(r)

-----------------------------------------------------------------------------
(* previewEdit and applyEdit *)

PreviewEdit ==
  /\ "previewEdit" \notin locked
  /\ \E o \in output : \E p \in o.project :
       Begin("edit", o.mode, o.text, {p}, FALSE)
  /\ UNCHANGED <<input, output, chosen, agreed>>

Proposed(r, t) ==
  /\ r.kind = "edit" /\ IsCurrent(r)
  /\ t # Empty
  /\ proposal' = {[base |-> p, from |-> r.text, to |-> t] : p \in r.base \cap Projects(output)}
  /\ UNCHANGED <<input, generation, output, chosen, agreed>>
  /\ Finish(r)

NotProposed(r) ==
  /\ r.kind = "edit" /\ IsCurrent(r)
  /\ UNCHANGED <<input, generation, output, proposal, chosen, agreed>>
  /\ Finish(r)

Discard ==
  /\ proposal # {}
  /\ proposal' = {}
  /\ UNCHANGED <<input, generation, pending, locked, flying, output, chosen, agreed>>

(* The reviewed revision becomes the project draft, unless the user keeps  *)
(* another unsaved project draft.                                          *)
Apply ==
  /\ "applyEdit" \notin locked
  /\ pending = {}
  /\ MayCount
  /\ \E e \in proposal :
       /\ e.base \in Projects(output)
       /\ drafts' = [drafts EXCEPT ![mode] = source, !["project"] = e.to]
       /\ source' = e.to
       /\ RenderResult("project", e.to, Fresh)
  /\ agreed' = IF mode # "project" /\ ProjectIsUnsaved THEN {drafts["project"]} ELSE {}
  /\ mode' = "project"
  /\ unsaved' = unsaved \cup {"project"}
  /\ generation' = Fresh
  /\ proposal' = {}
  /\ locked' = Locks(FALSE, output', {})
  /\ UNCHANGED <<pending, flying, chosen>>

-----------------------------------------------------------------------------
User ==
  \/ \E t \in Text : Type(t) \/ DeclineOpen(t) \/ Open(t)
  \/ \E m \in Mode : ChangeMode(m)
  \/ Reload \/ Reconsider \/ Generate \/ CompileProject \/ PreviewEdit \/ Discard \/ Apply

(* A request goes on: it is answered, it fails, or its time is up.         *)
Settle(r) ==
  \/ Late(r) \/ Validated(r) \/ Rejected(r)
  \/ FileRead(r) \/ Opened(r) \/ NotOpened(r)
  \/ \E t \in Text : Proposed(r, t)
  \/ NotProposed(r)

PageNext == User \/ \E r \in flying : Settle(r)

PageSpec == PageInit /\ [][PageNext]_pageVars

(* Every request has a timer that aborts it, a file is read to its end or  *)
(* fails, and the browser runs every continuation.                         *)
PageFairSpec == PageSpec /\ WF_pageVars(\E r \in flying : Settle(r))

-----------------------------------------------------------------------------
(* Properties *)

(* What the page shows was made from the input the page shows, whatever    *)
(* order answers, failures and edits of the input come in.                 *)
OutputIsCurrent ==
  \A o \in output : o.mode = mode /\ o.text = source

(* Buttons are disabled exactly as long as a request is pending, whose     *)
(* handler will give them back: an obsolete request does not unlock them,  *)
(* and a project or a proposal on show can be worked on.                   *)
ControlsMatch ==
  IF pending = {}
    THEN /\ locked \cap {"generate", "compile"} = {}
         /\ Projects(output) # {} => "previewEdit" \notin locked
         /\ proposal # {} => "applyEdit" \notin locked
    ELSE /\ locked = Button
         /\ \E r \in flying : pending = {r.id} /\ IsCurrent(r)

(* A proposal under review is an edit of the project on show.              *)
ProposalIsFresh ==
  \A e \in proposal :
    pending = {} /\ \E o \in output : e.base \in o.project /\ e.from = o.text

(* Drafts survive mode changes: the input on show is the draft of its mode. *)
SourceIsDraft == source = drafts[mode]

(* Unsaved work is replaced only by typing over it, by a revision edited   *)
(* from it, or after the user has agreed to lose that very draft.          *)
UnsavedSurvives ==
  [][\A m \in unsaved : drafts'[m] # drafts[m] =>
       \/ m = mode /\ \E t \in Text : Type(t)
       \/ drafts[m] \in agreed'
       \/ m = "project" /\ m = mode /\ \E e \in proposal : e.from = drafts[m]]_pageVars

(* Validated output is lost only to a change of the input, to a new        *)
(* validation that the user asks for, or to another result: no failure of  *)
(* a compilation, of opening a file or of an edit takes it away.           *)
OutputSurvivesFailure ==
  [][output # {} /\ output' = {} =>
       source' # source \/ mode' # mode \/ Generate \/ Reload]_pageVars

(* The user gets the controls back from every request.                     *)
ControlsReturn == \A n \in Number : pending = {n} ~> pending # {n}
=============================================================================
