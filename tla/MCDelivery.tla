----------------------------- MODULE MCDelivery -----------------------------
(***************************************************************************)
(* The two places where results come out: directories that calls publish,  *)
(* and the browser page.  They share no state; one of them moves while the *)
(* other is at rest, calls that nobody has made yet, or a page whose first *)
(* validation has failed.                                                  *)
(***************************************************************************)
EXTENDS MCArtifactPublication, Workbench

DeliveryVars == <<vars, pageVars>>

SomeRequests == CHOOSE a \in [Producer -> Request] : TRUE
Unasked == Init /\ asked = SomeRequests

SomeDrafts == CHOOSE d \in FirstDrafts : TRUE

(* The page when its first validation has failed.                          *)
PageAtRest ==
  /\ flying = {}
  /\ mode = "enclosure"
  /\ drafts = SomeDrafts
  /\ source = drafts["enclosure"]
  /\ generation = First
  /\ locked = Locks(FALSE, {}, {})
  /\ pending = {} /\ unsaved = {} /\ output = {}
  /\ proposal = {} /\ chosen = {} /\ agreed = {}

DeliveryInit == (Init /\ PageAtRest) \/ (Unasked /\ PageInit)

Publishes == PageAtRest /\ UNCHANGED pageVars
Shows == Unasked /\ UNCHANGED vars

DeliveryNext ==
  \/ Publishes /\ Next
  \/ Shows /\ PageNext

(* The fairness of each, where it may move.                                *)
DeliverySpec ==
  /\ DeliveryInit /\ [][DeliveryNext]_DeliveryVars
  /\ \A p \in Producer : WF_DeliveryVars(Publishes /\ Work(p))
  /\ WF_DeliveryVars(Shows /\ \E r \in flying : Settle(r))
=============================================================================
