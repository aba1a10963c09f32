--------------------- MODULE ArtifactPublicationProofs ---------------------
(***************************************************************************)
(* Proofs about ArtifactPublication for any number of calls, processes and *)
(* destinations.                                                           *)
(***************************************************************************)
EXTENDS ArtifactPublication, TLAPS

(***************************************************************************)
(* Types.                                                                  *)
(***************************************************************************)
Backend == {"unknown", "native", "wireframe"}
WorkerState == {"none", "running", "ok", "error", "killed"}

(* A staging directory with other files is one.                            *)
LEMMA FilledContent ==
  ASSUME NEW c \in Content, NEW f \in SUBSET File
  PROVE  /\ [c EXCEPT !.files = f] \in Content
         /\ [c EXCEPT !.files = f].files = f
         /\ [c EXCEPT !.files = f].declared = c.declared
         /\ [c EXCEPT !.files = f].renderer = c.renderer
BY DEF Content

LEMMA StagingContent ==
  ASSUME TypeOK, NEW p \in Producer
  PROVE  /\ pc[p] \in Trying => staging[p] \in Content
         /\ staging[p] \in Content =>
              /\ staging[p].files \in SUBSET File
              /\ staging[p].declared \in SUBSET File
              /\ staging[p].renderer \in Backend
BY DEF TypeOK, Content, Backend

(* A step that takes one call to a place whose needs its staging directory *)
(* meets.                                                                  *)
LEMMA MoveType ==
  ASSUME TypeOK, NEW p \in Producer, NEW to \in PC, NEW c \in Content \cup {None},
         pc' = [pc EXCEPT ![p] = to], staging' = [staging EXCEPT ![p] = c],
         to \in Trying => c # None,
         to \in {"idle", "make", "published", "done"} => c = None,
         asked' = asked, native' \in [Process -> Backend],
         worker' \in [Producer -> WorkerState],
         dest' \in [Directory -> Published \cup {None}]
  PROVE  TypeOK'
BY DEF TypeOK, Backend, WorkerState

LEMMA FillType ==
  ASSUME TypeOK, NEW p \in Producer, NEW to \in Trying, NEW f \in SUBSET File,
         staging[p] \in Content, pc' = [pc EXCEPT ![p] = to], Fills(p, f),
         asked' = asked, native' \in [Process -> Backend],
         worker' \in [Producer -> WorkerState], dest' = dest
  PROVE  TypeOK'
<1> DEFINE c == [staging[p] EXCEPT !.files = f]
<1>1. c \in Content BY FilledContent
<1>2. staging' = [staging EXCEPT ![p] = c] BY DEF Fills
<1>3. c # None BY <1>1, NothingAssumption
<1>4. to \in PC /\ to \notin {"idle", "make", "published", "done"} BY DEF PC, Trying
<1>5. dest' \in [Directory -> Published \cup {None}] BY DEF TypeOK
<1> HIDE DEF c
<1> QED BY <1>1, <1>2, <1>3, <1>4, <1>5, MoveType

(* A call's own step.                                                      *)
LEMMA WorkType ==
  ASSUME TypeOK, NEW p \in Producer, Work(p)
  PROVE  TypeOK'
<1>a. /\ asked' = asked /\ pc \in [Producer -> PC] /\ staging \in [Producer -> Content \cup {None}]
      /\ native \in [Process -> Backend] /\ worker \in [Producer -> WorkerState]
      /\ dest \in [Directory -> Published \cup {None}]
  BY DEF TypeOK, Work, Check, Make, WriteSource, Compile, Render, RenderNative, RenderFails, Fallback,
     Label, WriteManifest, Publish, Return, Cleanup, Spawn, Reap, Timeout, Promote, Aside, Backend,
     WorkerState
<1>b. staging = [staging EXCEPT ![p] = staging[p]] BY <1>a
<1>c. pc[p] \in {"idle", "make", "published", "done"} => staging[p] = None BY DEF TypeOK
<1>d. None \notin Content BY NothingAssumption
<1>e. /\ pc[p] \in Trying => staging[p] \in Content
      /\ staging[p] \in Content => staging[p].files \in SUBSET File
  BY StagingContent
<1> USE DEF PC, Trying, Cleaning, Ended, File, Product, Goes, Aside
<1>1. CASE Check(p) BY <1>1, <1>a, <1>b, <1>c, MoveType DEF Check
<1>2. CASE Make(p)
  <2> DEFINE c == [files |-> {}, declared |-> {}, renderer |-> "unknown"]
  <2>1. c \in Content BY DEF Content
  <2>2. \/ Goes(p, "make", "made") /\ staging' = [staging EXCEPT ![p] = c]
        \/ Goes(p, "make", "failed") /\ staging' = [staging EXCEPT ![p] = staging[p]]
    BY <1>2, <1>b DEF Make
  <2>3. staging[p] = None BY <2>2, <1>c
  <2> HIDE DEF c
  <2> QED BY <1>2, <2>1, <2>2, <2>3, <1>a, <1>d, MoveType DEF Make
<1>3. CASE WriteSource(p)
  <2>1. staging[p].files \cup {"source"} \in SUBSET File /\ staging[p] \in Content
    BY <1>3, <1>e DEF WriteSource
  <2> QED BY <1>3, <2>1, <1>a, FillType DEF WriteSource, AfterMesh
<1>4. CASE Compile(p)
  <2>1. staging[p].files \cup {"mesh"} \in SUBSET File /\ staging[p] \in Content
    BY <1>4, <1>e DEF Compile
  <2> QED BY <1>4, <2>1, <1>a, FillType DEF Compile, AfterMesh
<1>5. CASE Render(p)
  <2>1. staging[p].files \cup {"temporary"} \in SUBSET File /\ staging[p] \in Content
    BY <1>5, <1>e DEF Render
  <2>2. CASE native[Home[p]] = "wireframe"
    BY <1>5, <2>1, <2>2, <1>a, <1>b, <1>d, MoveType DEF Render
  <2>3. CASE native[Home[p]] # "wireframe" BY <1>5, <2>1, <2>3, <1>a, FillType DEF Render
  <2> QED BY <2>2, <2>3
<1>6. CASE RenderNative(p)
  <2>1. (staging[p].files \ {"temporary"}) \cup {"native"} \in SUBSET File /\ staging[p] \in Content
    BY <1>6, <1>e DEF RenderNative
  <2>2. native' \in [Process -> Backend] BY <1>6, <1>a DEF RenderNative, Backend
  <2> QED BY <1>6, <2>1, <2>2, <1>a, FillType DEF RenderNative
<1>7. CASE RenderFails(p)
  <2>1. staging[p].files \ {"temporary"} \in SUBSET File /\ staging[p] \in Content
    BY <1>7, <1>e DEF RenderFails
  <2>2. native' \in [Process -> Backend] BY <1>7, <1>a DEF RenderFails, Backend
  <2> QED BY <1>7, <2>1, <2>2, <1>a, FillType DEF RenderFails
<1>8. CASE Fallback(p)
  <2>1. staging[p].files \cup {"wireframe"} \in SUBSET File /\ staging[p] \in Content
    BY <1>8, <1>e DEF Fallback
  <2> QED BY <1>8, <2>1, <1>a, FillType DEF Fallback
<1>9. CASE Label(p)
  <2>1. staging[p] \in Content /\ native[Home[p]] \in Backend
    BY <1>9, <1>a, <1>e, HomeAssumption DEF Label
  <2>2. [staging[p] EXCEPT !.renderer = native[Home[p]]] \in Content BY <2>1 DEF Content, Backend
  <2> QED BY <1>9, <2>2, <1>a, <1>d, MoveType DEF Label
<1>10. CASE WriteManifest(p)
  <2> DEFINE s == staging[p]
             listed == IF asked[p].kind = "bundle" THEN s.files ELSE s.files \cap Product
             c == [s EXCEPT !.files = s.files \cup {"manifest"}, !.declared = listed]
  <2>1. s \in Content BY <1>10, <1>e DEF WriteManifest
  <2>2. c \in Content BY <2>1 DEF Content
  <2>3. staging' = [staging EXCEPT ![p] = c] BY <1>10 DEF WriteManifest
  <2> HIDE DEF c
  <2> QED BY <1>10, <2>2, <2>3, <1>a, <1>d, MoveType DEF WriteManifest
<1>11. CASE Publish(p)
  <2>1. [by |-> p, bundle |-> staging[p]] \in Published BY <1>11, <1>e DEF Publish, Published
  <2>2. dest' \in [Directory -> Published \cup {None}]
    BY <1>11, <2>1, <1>a, TargetAssumption DEF Publish
  <2> QED BY <1>11, <2>2, <1>a, <1>b, <1>d, MoveType DEF Publish
<1>12. CASE Return(p) BY <1>12, <1>a, <1>b, <1>c, MoveType DEF Return
<1>13. CASE Cleanup(p) BY <1>13, <1>a, MoveType DEF Cleanup
<1>14. CASE Spawn(p)
  <2>1. {"step"} \in SUBSET File /\ staging[p] \in Content BY <1>14, <1>e DEF Spawn
  <2>2. worker' \in [Producer -> WorkerState] BY <1>14, <1>a DEF Spawn, WorkerState
  <2> QED BY <1>14, <2>1, <2>2, <1>a, FillType DEF Spawn
<1>15. CASE Reap(p) BY <1>15, <1>a, <1>b, <1>d, <1>e, MoveType DEF Reap
<1>16. CASE Timeout(p)
  <2>1. worker' \in [Producer -> WorkerState] BY <1>16, <1>a DEF Timeout, WorkerState
  <2> QED BY <1>16, <2>1, <1>a, <1>b, <1>d, <1>e, MoveType DEF Timeout
<1>17. CASE Promote(p)
  <2> DEFINE c == [staging[p] EXCEPT !.files = {"mesh", "manifest"}, !.declared = {"mesh"}]
  <2>1. staging[p] \in Content BY <1>17, <1>e DEF Promote
  <2>2. c \in Content BY <2>1 DEF Content
  <2>3. \/ pc' = [pc EXCEPT ![p] = "publish"] /\ staging' = [staging EXCEPT ![p] = c]
        \/ pc' = [pc EXCEPT ![p] = "failing"] /\ staging' = [staging EXCEPT ![p] = staging[p]]
    BY <1>17, <1>b DEF Promote
  <2> HIDE DEF c
  <2> QED BY <1>17, <2>1, <2>2, <2>3, <1>a, <1>d, MoveType DEF Promote
<1> QED BY <1>1, <1>2, <1>3, <1>4, <1>5, <1>6, <1>7, <1>8, <1>9, <1>10, <1>11, <1>12,
           <1>13, <1>14, <1>15, <1>16, <1>17 DEF Work

(* What others do to a call: its worker, an exception, the user, a crash.  *)
LEMMA FaultType ==
  ASSUME TypeOK,
         \/ \E p \in Producer : WorkerWrites(p) \/ WorkerEnds(p) \/ Fail(p) \/ Interrupt(p)
         \/ \E h \in Process : Crash(h)
  PROVE  TypeOK'
<1>d. None \notin Content BY NothingAssumption
<1>1. ASSUME NEW p \in Producer, WorkerWrites(p) \/ WorkerEnds(p) PROVE TypeOK'
  <2> DEFINE Files == {staging[p].files \cup {"staged"}, staging[p].files,
                       (staging[p].files \ {"staged"}) \cup {"bundle"} \cup {"temporary"},
                       (staging[p].files \ {"staged"}) \cup {"bundle"}}
  <2>1. staging[p] \in Content BY <1>1 DEF TypeOK, WorkerWrites, WorkerEnds
  <2>2. \A f \in Files : f \in SUBSET File BY <2>1, StagingContent DEF File, Product
  <2>3. \/ staging' = staging
        \/ \E f \in Files : staging' = [staging EXCEPT ![p] = [staging[p] EXCEPT !.files = f]]
    <3>1. CASE WorkerWrites(p) BY <3>1 DEF WorkerWrites, Fills
    <3>2. CASE WorkerEnds(p)
      <4>1. SUBSET {"temporary"} = {{}, {"temporary"}} OBVIOUS
      <4> QED BY <3>2, <4>1 DEF WorkerEnds, Fills
    <3> QED BY <1>1, <3>1, <3>2
  <2> HIDE DEF Files
  <2>4. staging' = staging \/ \E c \in Content : staging' = [staging EXCEPT ![p] = c]
    BY <2>1, <2>2, <2>3, FilledContent
  <2>5. /\ pc' = pc /\ asked' = asked /\ native' = native /\ dest' = dest
        /\ worker' \in [Producer -> WorkerState]
        /\ staging[p] # None /\ pc[p] = pc[p]
    BY <1>1, <1>d, <2>1 DEF WorkerWrites, WorkerEnds, TypeOK, WorkerState
  <2>6. /\ pc' \in [Producer -> PC] /\ asked' \in [Producer -> Request]
        /\ native' \in [Process -> Backend] /\ dest' \in [Directory -> Published \cup {None}]
    BY <2>5 DEF TypeOK, Backend
  <2>7. /\ staging' \in [Producer -> Content \cup {None}]
        /\ \A q \in Producer : staging'[q] = None <=> staging[q] = None
    BY <2>4, <2>5, <1>d DEF TypeOK
  <2> QED BY <2>5, <2>6, <2>7 DEF TypeOK, Backend, WorkerState
<1>2. ASSUME NEW p \in Producer, Fail(p) PROVE TypeOK'
  BY <1>2 DEF Fail, TypeOK, Aside, PC, Trying, Cleaning, Ended
<1>3. ASSUME NEW p \in Producer, Interrupt(p) PROVE TypeOK'
  BY <1>3 DEF Interrupt, TypeOK, PC, Trying, Cleaning, Ended
<1>4. ASSUME NEW h \in Process, Crash(h) PROVE TypeOK'
  BY <1>4 DEF Crash, TypeOK, Aside, PC, Trying, Cleaning, Ended
<1> QED BY <1>1, <1>2, <1>3, <1>4

(* Every variable keeps its type; a call that is trying has its staging    *)
(* directory, and one that has not begun or has published has none.        *)
THEOREM TypeCorrect == Spec => []TypeOK
<1>1. Init => TypeOK
  BY DEF Init, TypeOK, PC, Trying, Cleaning, Ended
<1>2. TypeOK /\ [Next]_vars => TypeOK'
  <2> SUFFICES ASSUME TypeOK, [Next]_vars PROVE TypeOK' OBVIOUS
  <2>1. CASE Next BY <2>1, WorkType, FaultType DEF Next
  <2>2. CASE UNCHANGED vars BY <2>2 DEF vars, TypeOK
  <2> QED BY <2>1, <2>2
<1> QED BY <1>1, <1>2, PTL DEF Spec

(***************************************************************************)
(* The inductive invariant: what is in a staging directory at each place,  *)
(* so that what is published verifies; and that a destination belongs to   *)
(* the call that published it.                                             *)
(***************************************************************************)
Held(p) ==
  /\ staging[p] # None => pc[p] \in Trying \cup Cleaning \cup {"interrupted", "crashed"}
  /\ worker[p] = "running" => pc[p] \in {"wait", "crashed"}

Filling == {"compile", "render", "fallback", "label", "manifest"}

Staged(p) ==
  /\ pc[p] \in Filling => "source" \in staging[p].files /\ staging[p].files \subseteq Product
  /\ pc[p] = "made" => staging[p].files = {}
  /\ pc[p] = "rendering" => /\ "source" \in staging[p].files
                            /\ staging[p].files \subseteq Product \cup {"temporary"}
  /\ pc[p] = "publish" => Verifies(staging[p])

After == {"published", "done", "interrupting", "interrupted", "crashed"}

Owns(p) == pc[p] \in {"published", "done"} =>
             dest[Target[p]] # None /\ dest[Target[p]].by = p

Call(p) == Held(p) /\ Staged(p) /\ Owns(p)

Shelf(d) ==
  dest[d] # None => /\ Verifies(dest[d].bundle)
                    /\ Target[dest[d].by] = d
                    /\ pc[dest[d].by] \in After

IInv ==
  /\ TypeOK
  /\ \A p \in Producer : Call(p)
  /\ \A d \in Directory : Shelf(d)

Own(p) == Work(p) \/ WorkerWrites(p) \/ WorkerEnds(p) \/ Fail(p) \/ Interrupt(p)

(* A step of one call leaves the others alone, and what is published.      *)
LEMMA OthersKeep ==
  ASSUME TypeOK, NEW p \in Producer, Own(p)
  PROVE  /\ \A q \in Producer \ {p} : /\ pc'[q] = pc[q] /\ staging'[q] = staging[q]
                                      /\ worker'[q] = worker[q]
         /\ \A d \in Directory : dest[d] # None => dest'[d] = dest[d]
         /\ asked' = asked
<1> USE DEF TypeOK, Goes, Fills, Aside
<1>1. CASE Check(p) BY <1>1 DEF Check
<1>2. CASE Make(p) BY <1>2 DEF Make
<1>3. CASE WriteSource(p) BY <1>3 DEF WriteSource
<1>4. CASE Compile(p) BY <1>4 DEF Compile
<1>5. CASE Render(p) BY <1>5 DEF Render
<1>6. CASE RenderNative(p) BY <1>6 DEF RenderNative
<1>7. CASE RenderFails(p) BY <1>7 DEF RenderFails
<1>8. CASE Fallback(p) BY <1>8 DEF Fallback
<1>9. CASE Label(p) BY <1>9 DEF Label
<1>10. CASE WriteManifest(p) BY <1>10 DEF WriteManifest
<1>11. CASE Publish(p) BY <1>11 DEF Publish
<1>12. CASE Return(p) BY <1>12 DEF Return
<1>13. CASE Cleanup(p) BY <1>13 DEF Cleanup
<1>14. CASE Spawn(p) BY <1>14 DEF Spawn
<1>15. CASE Reap(p) BY <1>15 DEF Reap
<1>16. CASE Timeout(p) BY <1>16 DEF Timeout
<1>17. CASE Promote(p) BY <1>17 DEF Promote
<1>18. CASE WorkerWrites(p) BY <1>18 DEF WorkerWrites
<1>19. CASE WorkerEnds(p) BY <1>19 DEF WorkerEnds
<1>20. CASE Fail(p) BY <1>20 DEF Fail
<1>21. CASE Interrupt(p) BY <1>21 DEF Interrupt
<1> QED BY <1>1, <1>2, <1>3, <1>4, <1>5, <1>6, <1>7, <1>8, <1>9, <1>10, <1>11, <1>12,
           <1>13, <1>14, <1>15, <1>16, <1>17, <1>18, <1>19, <1>20, <1>21 DEF Own, Work

(* A step of a call keeps what is said about that call.                    *)
LEMMA CallKeeps ==
  ASSUME TypeOK, TypeOK', NEW p \in Producer, Own(p), Call(p)
  PROVE  Call(p)'
<1>a. /\ pc \in [Producer -> PC] /\ staging \in [Producer -> Content \cup {None}]
      /\ worker \in [Producer -> WorkerState]
      /\ dest \in [Directory -> Published \cup {None}]
      /\ pc[p] \in Trying => staging[p] # None
      /\ pc[p] \in {"idle", "make", "published", "done"} => staging[p] = None
  BY DEF TypeOK, WorkerState
<1>b. /\ pc[p] \in Trying => staging[p] \in Content
      /\ staging[p] \in Content => staging[p].files \in SUBSET File
  BY StagingContent
<1>c. None \notin Content BY NothingAssumption
<1> USE DEF Call, Held, Staged, Owns, Filling, Goes, Fills, Aside, Trying, Cleaning, Ended, PC
<1>1. CASE Check(p) BY <1>1, <1>a DEF Check
<1>2. CASE Make(p) BY <1>2, <1>a DEF Make
<1>3. CASE WriteSource(p)
  <2>1. staging'[p].files = {"source"} BY <1>3, <1>a, <1>b, FilledContent DEF WriteSource, File, Product
  <2> QED BY <1>3, <2>1, <1>a DEF WriteSource, AfterMesh, Product
<1>4. CASE Compile(p)
  <2>1. staging'[p].files = staging[p].files \cup {"mesh"}
    BY <1>4, <1>a, <1>b, FilledContent DEF Compile, File, Product
  <2> QED BY <1>4, <2>1, <1>a DEF Compile, AfterMesh, Product
<1>5. CASE Render(p)
  <2>1. CASE native[Home[p]] = "wireframe" BY <1>5, <2>1, <1>a DEF Render
  <2>2. CASE native[Home[p]] # "wireframe"
    <3>0. staging[p].files \cup {"temporary"} \in SUBSET File /\ staging[p] \in Content
      BY <1>5, <1>b DEF Render, File, Product
    <3>1. Fills(p, staging[p].files \cup {"temporary"}) BY <1>5, <2>2 DEF Render
    <3>2. staging'[p].files = staging[p].files \cup {"temporary"}
      BY <3>0, <3>1, <1>a, FilledContent
    <3> QED BY <1>5, <2>2, <3>2, <1>a DEF Render, Product
  <2> QED BY <2>1, <2>2
<1>6. CASE RenderNative(p)
  <2>1. staging'[p].files = (staging[p].files \ {"temporary"}) \cup {"native"}
    BY <1>6, <1>a, <1>b, FilledContent DEF RenderNative, File, Product
  <2> QED BY <1>6, <2>1, <1>a DEF RenderNative, Product
<1>7. CASE RenderFails(p)
  <2>1. staging'[p].files = staging[p].files \ {"temporary"}
    BY <1>7, <1>a, <1>b, FilledContent DEF RenderFails, File, Product
  <2> QED BY <1>7, <2>1, <1>a DEF RenderFails, Product
<1>8. CASE Fallback(p)
  <2>1. staging'[p].files = staging[p].files \cup {"wireframe"}
    BY <1>8, <1>a, <1>b, FilledContent DEF Fallback, File, Product
  <2> QED BY <1>8, <2>1, <1>a DEF Fallback, Product
<1>9. CASE Label(p)
  <2>1. staging'[p].files = staging[p].files BY <1>9, <1>a, <1>b DEF Label, Content
  <2> QED BY <1>9, <2>1, <1>a DEF Label
<1>10. CASE WriteManifest(p)
  <2>1. staging[p] \in Content BY <1>10, <1>b DEF WriteManifest
  <2>2. /\ staging'[p].files = staging[p].files \cup {"manifest"}
        /\ staging'[p].declared = staging[p].files
    BY <1>10, <2>1, <1>a DEF WriteManifest, Content
  <2>3. Verifies(staging[p])' BY <1>10, <2>2 DEF WriteManifest, Verifies, Product
  <2> QED BY <1>10, <2>3, <1>a DEF WriteManifest
<1>11. CASE Publish(p) BY <1>11, <1>a, TargetAssumption, NothingAssumption DEF Publish, Published
<1>12. CASE Return(p) BY <1>12, <1>a DEF Return
<1>13. CASE Cleanup(p) BY <1>13, <1>a DEF Cleanup
<1>14. CASE Spawn(p) BY <1>14, <1>a DEF Spawn
<1>15. CASE Reap(p) BY <1>15, <1>a DEF Reap
<1>16. CASE Timeout(p) BY <1>16, <1>a DEF Timeout
<1>17. CASE Promote(p)
  <2>1. CASE staging[p].files = {"step", "bundle"}
    <3>0. staging[p] \in Content BY <1>17, <1>b DEF Promote
    <3>1. /\ staging' = [staging EXCEPT ![p] =
                 [staging[p] EXCEPT !.files = {"mesh", "manifest"}, !.declared = {"mesh"}]]
          /\ pc' = [pc EXCEPT ![p] = "publish"] /\ worker' = worker
      BY <1>17, <2>1 DEF Promote
    <3>3. staging'[p].files = {"mesh", "manifest"} /\ staging'[p].declared = {"mesh"}
      BY <3>0, <3>1, <1>a DEF Content
    <3>2. Verifies(staging[p])' BY <3>3 DEF Verifies
    <3> QED BY <3>1, <3>2, <1>a, <1>17 DEF Promote
  <2>2. CASE staging[p].files # {"step", "bundle"} BY <1>17, <2>2, <1>a DEF Promote
  <2> QED BY <2>1, <2>2
<1>18. CASE WorkerWrites(p) BY <1>18, <1>a DEF WorkerWrites
<1>19. CASE WorkerEnds(p) BY <1>19, <1>a DEF WorkerEnds
<1>20. CASE Fail(p) BY <1>20, <1>a DEF Fail
<1>21. CASE Interrupt(p) BY <1>21, <1>a DEF Interrupt
<1> QED BY <1>1, <1>2, <1>3, <1>4, <1>5, <1>6, <1>7, <1>8, <1>9, <1>10, <1>11, <1>12,
           <1>13, <1>14, <1>15, <1>16, <1>17, <1>18, <1>19, <1>20, <1>21 DEF Own, Work

(* A call that has published, or may have, never takes that back.          *)
LEMMA AfterKeeps ==
  ASSUME TypeOK, NEW p \in Producer, Own(p)
  PROVE  pc[p] \in After => pc'[p] \in After
<1> USE DEF TypeOK, After, Goes, Aside, Trying, Cleaning, Ended
<1>1. CASE Work(p)
  BY <1>1 DEF Work, Check, Make, WriteSource, Compile, Render, RenderNative, RenderFails, Fallback,
     Label, WriteManifest, Publish, Return, Cleanup, Spawn, Reap, Timeout, Promote
<1>2. CASE WorkerWrites(p) \/ WorkerEnds(p) BY <1>2 DEF WorkerWrites, WorkerEnds
<1>3. CASE Fail(p) BY <1>3 DEF Fail
<1>4. CASE Interrupt(p) BY <1>4 DEF Interrupt
<1> QED BY <1>1, <1>2, <1>3, <1>4 DEF Own

(* The destinations change in one action only, and only from nothing.      *)
LEMMA DestKeeps ==
  ASSUME TypeOK, NEW p \in Producer, Own(p)
  PROVE  \/ dest' = dest
         \/ /\ pc[p] = "publish" /\ pc' = [pc EXCEPT ![p] = "published"]
            /\ dest[Target[p]] = None
            /\ dest' = [dest EXCEPT ![Target[p]] = [by |-> p, bundle |-> staging[p]]]
<1> USE DEF Goes, Aside
<1>1. CASE Publish(p) BY <1>1 DEF Publish
<1>2. CASE Work(p) /\ ~Publish(p)
  BY <1>2 DEF Work, Check, Make, WriteSource, Compile, Render, RenderNative, RenderFails, Fallback,
     Label, WriteManifest, Return, Cleanup, Spawn, Reap, Timeout, Promote
<1>3. CASE WorkerWrites(p) \/ WorkerEnds(p) \/ Fail(p) \/ Interrupt(p)
  BY <1>3 DEF WorkerWrites, WorkerEnds, Fail, Interrupt
<1> QED BY <1>1, <1>2, <1>3 DEF Own

LEMMA ShelfKeeps ==
  ASSUME IInv, NEW p \in Producer, Own(p), NEW d \in Directory
  PROVE  Shelf(d)'
<1>a. TypeOK /\ Shelf(d) /\ Call(p) BY DEF IInv
<1>b. dest \in [Directory -> Published \cup {None}] /\ pc \in [Producer -> PC] BY <1>a DEF TypeOK
<1>1. CASE dest[d] # None
  <2>1. dest'[d] = dest[d] BY <1>1, <1>a, OthersKeep
  <2>2. dest[d].by \in Producer BY <1>1, <1>b DEF Published
  <2>3. pc'[dest[d].by] \in After
    <3>1. CASE dest[d].by = p BY <3>1, <1>1, <1>a, AfterKeeps DEF Shelf
    <3>2. CASE dest[d].by # p BY <3>2, <2>2, <1>1, <1>a, OthersKeep DEF Shelf
    <3> QED BY <3>1, <3>2
  <2> QED BY <1>1, <1>a, <2>1, <2>3 DEF Shelf, Verifies
<1>2. CASE dest[d] = None /\ dest' # dest
  <2>1. /\ pc[p] = "publish" /\ pc' = [pc EXCEPT ![p] = "published"]
        /\ dest' = [dest EXCEPT ![Target[p]] = [by |-> p, bundle |-> staging[p]]]
    BY <1>2, <1>a, DestKeeps
  <2>2. Verifies(staging[p]) BY <2>1, <1>a DEF Call, Staged
  <2>3. CASE d = Target[p]
    <3>1. dest'[d].by = p /\ dest'[d].bundle = staging[p] BY <2>1, <2>3, <1>b
    <3>2. pc'[p] \in After BY <2>1, <1>b DEF After
    <3> QED BY <3>1, <3>2, <2>2, <2>3 DEF Shelf, Verifies
  <2>4. CASE d # Target[p]
    <3>1. dest'[d] = None BY <2>1, <2>4, <1>2, <1>b
    <3> QED BY <3>1 DEF Shelf
  <2> QED BY <2>3, <2>4
<1>3. CASE dest[d] = None /\ dest' = dest BY <1>3 DEF Shelf
<1> QED BY <1>1, <1>2, <1>3

LEMMA CrashKeeps ==
  ASSUME IInv, NEW h \in Process, Crash(h)
  PROVE  IInv'
<1>a. TypeOK /\ TypeOK' BY FaultType DEF IInv
<1>b. /\ \A p \in Producer : pc'[p] = pc[p] \/ pc'[p] = "crashed"
      /\ \A p \in Producer : pc[p] \in {"crashed", "done"} => pc'[p] = pc[p]
      /\ staging' = staging /\ worker' = worker /\ dest' = dest
  BY <1>a DEF Crash, Aside, TypeOK, Ended
<1>1. ASSUME NEW p \in Producer PROVE Call(p)'
  <2>1. Call(p) BY DEF IInv
  <2>2. CASE pc'[p] = pc[p] BY <1>b, <2>1, <2>2 DEF Call, Held, Staged, Owns, Verifies
  <2>3. CASE pc'[p] = "crashed"
    BY <1>b, <2>1, <2>3 DEF Call, Held, Staged, Owns, Filling, Trying, Cleaning
  <2> QED BY <1>b, <2>2, <2>3
<1>2. ASSUME NEW d \in Directory PROVE Shelf(d)'
  <2>1. Shelf(d) BY DEF IInv
  <2>2. CASE dest[d] = None BY <2>2, <1>b DEF Shelf
  <2>3. CASE dest[d] # None
    <3>1. dest[d].by \in Producer BY <2>3, <1>a DEF TypeOK, Published
    <3> QED BY <2>1, <2>3, <3>1, <1>b DEF Shelf, Verifies, After
  <2> QED BY <2>2, <2>3
<1> QED BY <1>a, <1>1, <1>2 DEF IInv

THEOREM Inductive == Spec => []IInv
<1>1. Init => IInv
  <2> SUFFICES ASSUME Init PROVE IInv OBVIOUS
  <2>1. TypeOK BY DEF Init, TypeOK, PC, Trying, Cleaning, Ended
  <2>2. ASSUME NEW p \in Producer PROVE Call(p)
    BY DEF Init, Call, Held, Staged, Owns, Filling
  <2>3. ASSUME NEW d \in Directory PROVE Shelf(d) BY DEF Init, Shelf
  <2> QED BY <2>1, <2>2, <2>3 DEF IInv
<1>2. IInv /\ [Next]_vars => IInv'
  <2> SUFFICES ASSUME IInv, [Next]_vars PROVE IInv' OBVIOUS
  <2>1. ASSUME NEW p \in Producer, Own(p) PROVE IInv'
    <3>1. TypeOK /\ TypeOK' BY <2>1, WorkType, FaultType DEF IInv, Own
    <3>2. ASSUME NEW q \in Producer PROVE Call(q)'
      <4>1. Call(q) BY DEF IInv
      <4>2. CASE q = p BY <2>1, <3>1, <4>1, <4>2, CallKeeps
      <4>3. CASE q # p
        <5>1. /\ pc'[q] = pc[q] /\ staging'[q] = staging[q] /\ worker'[q] = worker[q]
              /\ dest[Target[q]] # None => dest'[Target[q]] = dest[Target[q]]
          BY <2>1, <3>1, <4>3, OthersKeep, TargetAssumption
        <5> QED BY <4>1, <5>1 DEF Call, Held, Staged, Owns, Verifies
      <4> QED BY <4>2, <4>3
    <3> QED BY <2>1, <3>1, <3>2, ShelfKeeps DEF IInv
  <2>2. CASE UNCHANGED vars
    BY <2>2 DEF vars, IInv, TypeOK, Call, Held, Staged, Owns, Shelf, Verifies
  <2> QED BY <2>1, <2>2, CrashKeeps DEF Next, Own
<1> QED BY <1>1, <1>2, PTL DEF Spec

(* No destination ever holds a file its manifest does not list, or lacks   *)
(* one it lists.                                                           *)
THEOREM AlwaysVerifies == Spec => []PublishedVerifies
<1>1. IInv => PublishedVerifies BY DEF IInv, Shelf, PublishedVerifies
<1> QED BY <1>1, Inductive, PTL

(* Nobody writes to a directory that was cleaned up or published.          *)
THEOREM AlwaysHeld == Spec => []WorkspaceIsHeld
<1>1. IInv => WorkspaceIsHeld BY DEF IInv, Call, Held, WorkspaceIsHeld
<1> QED BY <1>1, Inductive, PTL

(***************************************************************************)
(* The refinement.                                                         *)
(***************************************************************************)
(* Ends of a call are final, and come from these places.                   *)
LEMMA OwnTold ==
  ASSUME TypeOK, NEW p \in Producer, Own(p)
  PROVE  /\ Told(p) # None => pc'[p] = pc[p]
         /\ pc'[p] = "done" => pc[p] \in {"published", "done"}
         /\ pc'[p] = "failed" => pc[p] \in {"idle", "make", "failing", "failed"}
<1> USE NoneAssumption DEF TypeOK, Told, Goes, Aside, Trying, Cleaning, Ended
<1>1. CASE Work(p)
  BY <1>1 DEF Work, Check, Make, WriteSource, AfterMesh, Compile, Render, RenderNative, RenderFails,
     Fallback, Label, WriteManifest, Publish, Return, Cleanup, Spawn, Reap, Timeout, Promote
<1>2. CASE WorkerWrites(p) \/ WorkerEnds(p) BY <1>2 DEF WorkerWrites, WorkerEnds
<1>3. CASE Fail(p) BY <1>3 DEF Fail
<1>4. CASE Interrupt(p) BY <1>4 DEF Interrupt
<1> QED BY <1>1, <1>2, <1>3, <1>4 DEF Own

(* What a call is told of its destination is so.                           *)
LEMMA ToldTruth ==
  ASSUME IInv, NEW p \in Producer
  PROVE  /\ pc[p] \in {"published", "done"} => Shown(Target[p]) = p
         /\ pc[p] \notin After => Shown(Target[p]) # p
<1>a. /\ Target[p] \in Directory /\ None # p /\ "partial" # p
  BY TargetAssumption, NoneAssumption, PartialAssumption
<1>b. Call(p) /\ Shelf(Target[p]) BY <1>a DEF IInv
<1>1. CASE pc[p] \in {"published", "done"}
  BY <1>1, <1>b DEF Call, Owns, Shelf, Shown, After
<1>2. CASE pc[p] \notin After
  <2>1. CASE dest[Target[p]] = None BY <2>1, <1>2, <1>a DEF Shown, After
  <2>2. CASE dest[Target[p]] # None
    <3>1. Verifies(dest[Target[p]].bundle) /\ dest[Target[p]].by # p BY <1>2, <1>b, <2>2 DEF Shelf
    <3> QED BY <2>2, <3>1, <1>2 DEF Shown, After
  <2> QED BY <2>1, <2>2
<1> QED BY <1>1, <1>2 DEF After

(* A step that leaves the destinations alone tells only what is so.        *)
LEMMA TellStep ==
  ASSUME IInv, dest' = dest,
         \A p \in Producer : \/ pc'[p] = pc[p]
                             \/ Told(p) = None /\ pc'[p] = "crashed"
                             \/ /\ Told(p) = None
                                /\ pc'[p] = "done" => pc[p] = "published"
                                /\ pc'[p] = "failed" => pc[p] \notin After
  PROVE  Abstract!Tell
<1>1. ASSUME NEW d \in Directory PROVE Shown(d)' = Shown(d) BY DEF Shown, Verifies
<1>2. ASSUME NEW p \in Producer
      PROVE  /\ Told(p)' \in {"published", "failed", "unknown", None}
             /\ \/ Told(p)' = Told(p)
                \/ /\ Told(p) = None
                   /\ \/ Told(p)' = "published" /\ Shown(Target[p]) = p
                      \/ Told(p)' = "failed" /\ Shown(Target[p]) # p
                      \/ Told(p)' = "unknown"
  <2>1. CASE pc'[p] = pc[p] BY <2>1 DEF Told
  <2>2. CASE pc'[p] = "crashed" /\ Told(p) = None BY <2>2 DEF Told
  <2>3. CASE /\ Told(p) = None
             /\ pc'[p] = "done" => pc[p] = "published"
             /\ pc'[p] = "failed" => pc[p] \notin After
    BY <2>3, ToldTruth DEF Told
  <2> QED BY <2>1, <2>2, <2>3
<1>3. [d \in Directory |-> Shown(d)]' = [d \in Directory |-> Shown(d)] BY <1>1
<1>4. \A p \in Producer : /\ [q \in Producer |-> Told(q)][p] = Told(p)
                          /\ [q \in Producer |-> Told(q)]'[p] = Told(p)'
                          /\ [d \in Directory |-> Shown(d)][Target[p]] = Shown(Target[p])
  BY TargetAssumption
<1>5. [q \in Producer |-> Told(q)]' \in [Producer -> {"published", "failed", "unknown"} \cup {None}]
  BY <1>2
<1> QED BY <1>2, <1>3, <1>4, <1>5 DEF Abstract!Tell, Abstract!Answer, Abstract!True

(* Publishing is the one step in which a directory appears.                *)
LEMMA PublishStep ==
  ASSUME IInv, NEW p \in Producer, pc[p] = "publish",
         pc' = [pc EXCEPT ![p] = "published"], dest[Target[p]] = None,
         dest' = [dest EXCEPT ![Target[p]] = [by |-> p, bundle |-> staging[p]]]
  PROVE  Abstract!Publish(p)
<1>a. /\ Target[p] \in Directory /\ dest \in [Directory -> Published \cup {None}]
      /\ pc \in [Producer -> PC]
  BY TargetAssumption DEF IInv, TypeOK
<1>b. Verifies(staging[p]) BY DEF IInv, Call, Staged
<1>c. [by |-> p, bundle |-> staging[p]] # None
  <2>1. staging[p] \in Content BY StagingContent DEF IInv, Trying
  <2>2. [by |-> p, bundle |-> staging[p]] \in Published BY <2>1 DEF Published
  <2> QED BY <2>2, NothingAssumption
<1>1. Shown(Target[p]) = None BY DEF Shown
<1>2. Shown(Target[p])' = p BY <1>a, <1>b, <1>c DEF Shown, Verifies
<1>3. \A d \in Directory : d # Target[p] => Shown(d)' = Shown(d) BY <1>a DEF Shown, Verifies
<1>4. \A q \in Producer : Told(q)' = Told(q) BY <1>a DEF Told
<1>5. Told(p) = None BY DEF Told
<1>6. [d \in Directory |-> Shown(d)]' = [[d \in Directory |-> Shown(d)] EXCEPT ![Target[p]] = p]
  BY <1>a, <1>2, <1>3
<1>7. [q \in Producer |-> Told(q)]' = [q \in Producer |-> Told(q)] BY <1>4
<1>8. /\ [q \in Producer |-> Told(q)][p] = None
      /\ [d \in Directory |-> Shown(d)][Target[p]] = None
  BY <1>1, <1>5, <1>a
<1> QED BY <1>6, <1>7, <1>8 DEF Abstract!Publish

(* "Generate a complete directory or publish nothing": the producers       *)
(* implement AtomicDirectory.                                              *)
THEOREM PublicationIsAtomic == Spec => ImplementsAtomicDirectory
<1>1. Init => Abstract!Init
  BY DEF Init, Abstract!Init, Shown, Told
<1>2. IInv /\ [Next]_vars => [Abstract!Next]_<<[d \in Directory |-> Shown(d)], [p \in Producer |-> Told(p)]>>
  <2> SUFFICES ASSUME IInv, [Next]_vars
               PROVE  Abstract!Next \/ UNCHANGED <<[d \in Directory |-> Shown(d)], [p \in Producer |-> Told(p)]>>
    OBVIOUS
  <2>1. ASSUME NEW p \in Producer, Own(p) PROVE Abstract!Next
    <3>a. TypeOK BY DEF IInv
    <3>1. CASE dest' = dest
      <4>1. \A q \in Producer \ {p} : pc'[q] = pc[q] BY <2>1, <3>a, OthersKeep
      <4>2. /\ Told(p) # None => pc'[p] = pc[p]
            /\ pc'[p] = "done" => pc[p] \in {"published", "done"}
            /\ pc'[p] = "failed" => pc[p] \in {"idle", "make", "failing", "failed"}
        BY <2>1, <3>a, OwnTold
      <4>3. Abstract!Tell BY <3>1, <4>1, <4>2, TellStep DEF Told, After
      <4> QED BY <4>3 DEF Abstract!Next
    <3>2. CASE dest' # dest
      <4>1. Abstract!Publish(p) BY <2>1, <3>2, <3>a, DestKeeps, PublishStep
      <4> QED BY <4>1 DEF Abstract!Next
    <3> QED BY <3>1, <3>2
  <2>2. ASSUME NEW h \in Process, Crash(h) PROVE Abstract!Next
    <3>1. dest' = dest BY <2>2 DEF Crash, Aside
    <3>2. \A q \in Producer : pc'[q] = pc[q] \/ (Told(q) = None /\ pc'[q] = "crashed")
      BY <2>2 DEF Crash, Told, Ended
    <3>3. Abstract!Tell BY <3>1, <3>2, TellStep
    <3> QED BY <3>3 DEF Abstract!Next
  <2>3. CASE UNCHANGED vars
    <3>1. [d \in Directory |-> Shown(d)]' = [d \in Directory |-> Shown(d)]
      BY <2>3 DEF vars, Shown, Verifies
    <3>2. [p \in Producer |-> Told(p)]' = [p \in Producer |-> Told(p)] BY <2>3 DEF vars, Told
    <3> QED BY <3>1, <3>2
  <2> QED BY <2>1, <2>2, <2>3 DEF Next, Own
<1> QED BY <1>1, <1>2, Inductive, PTL DEF Spec, ImplementsAtomicDirectory, Abstract!Spec

(***************************************************************************)
(* The manifest's renderer.  The process-wide flag tells the truth about a *)
(* call while no other call of its process can write it.                   *)
(***************************************************************************)
OneCallEach == \A p, q \in Producer : Home[p] = Home[q] => p = q

Drawn(files) == files \cap {"native", "wireframe"}

Labelled(p) ==
  /\ pc[p] \in {"compile", "render", "rendering", "fallback"} => Drawn(staging[p].files) = {}
  /\ pc[p] = "fallback" => native[Home[p]] = "wireframe"
  /\ pc[p] = "label" => \A r \in Drawn(staging[p].files) : native[Home[p]] = r
  /\ pc[p] \in {"manifest", "publish"} =>
       \A r \in Drawn(staging[p].files) : staging[p].renderer = r

RInv == IInv /\ RendererIsTrue /\ \A p \in Producer : Labelled(p)

LEMMA LabelKeeps ==
  ASSUME IInv, NEW p \in Producer, Own(p), Labelled(p)
  PROVE  Labelled(p)'
<1>a. /\ pc \in [Producer -> PC] /\ staging \in [Producer -> Content \cup {None}]
      /\ native \in [Process -> Backend] /\ worker \in [Producer -> WorkerState]
      /\ pc[p] \in Trying => staging[p] # None
      /\ Home[p] \in Process
  BY HomeAssumption DEF IInv, TypeOK, WorkerState, Backend
<1>b. /\ pc[p] \in Trying => staging[p] \in Content
      /\ staging[p] \in Content => staging[p].files \in SUBSET File
  BY StagingContent DEF IInv
<1>c. Call(p) BY DEF IInv
<1> USE DEF Labelled, Drawn, Goes, Fills, Aside, Trying, Cleaning
<1>1. CASE Check(p) BY <1>1, <1>a DEF Check
<1>2. CASE Make(p) BY <1>2, <1>a DEF Make
<1>3. CASE WriteSource(p)
  <2>1. staging'[p].files = {"source"}
    BY <1>3, <1>a, <1>b, <1>c, FilledContent DEF WriteSource, File, Product, Call, Staged
  <2> QED BY <1>3, <2>1, <1>a DEF WriteSource, AfterMesh
<1>4. CASE Compile(p)
  <2>1. staging'[p].files = staging[p].files \cup {"mesh"}
    BY <1>4, <1>a, <1>b, FilledContent DEF Compile, File, Product
  <2> QED BY <1>4, <2>1, <1>a DEF Compile, AfterMesh
<1>5. CASE Render(p)
  <2>1. CASE native[Home[p]] = "wireframe" BY <1>5, <2>1, <1>a DEF Render
  <2>2. CASE native[Home[p]] # "wireframe"
    <3>0. staging[p].files \cup {"temporary"} \in SUBSET File /\ staging[p] \in Content
      BY <1>5, <1>b DEF Render, File, Product
    <3>1. Fills(p, staging[p].files \cup {"temporary"}) BY <1>5, <2>2 DEF Render
    <3>2. staging'[p].files = staging[p].files \cup {"temporary"}
      BY <3>0, <3>1, <1>a, FilledContent
    <3> QED BY <1>5, <2>2, <3>2, <1>a DEF Render
  <2> QED BY <2>1, <2>2
<1>6. CASE RenderNative(p)
  <2>1. staging'[p].files = (staging[p].files \ {"temporary"}) \cup {"native"}
    BY <1>6, <1>a, <1>b, FilledContent DEF RenderNative, File, Product
  <2> QED BY <1>6, <2>1, <1>a DEF RenderNative
<1>7. CASE RenderFails(p)
  <2>1. staging'[p].files = staging[p].files \ {"temporary"}
    BY <1>7, <1>a, <1>b, FilledContent DEF RenderFails, File, Product
  <2> QED BY <1>7, <2>1, <1>a DEF RenderFails
<1>8. CASE Fallback(p)
  <2>1. staging'[p].files = staging[p].files \cup {"wireframe"}
    BY <1>8, <1>a, <1>b, FilledContent DEF Fallback, File, Product
  <2> QED BY <1>8, <2>1, <1>a DEF Fallback
<1>9. CASE Label(p)
  <2>1. staging'[p].files = staging[p].files /\ staging'[p].renderer = native[Home[p]]
    BY <1>9, <1>a, <1>b DEF Label, Content
  <2> QED BY <1>9, <2>1, <1>a DEF Label
<1>10. CASE WriteManifest(p)
  <2>1. staging[p] \in Content BY <1>10, <1>b DEF WriteManifest
  <2>2. /\ staging'[p].files = staging[p].files \cup {"manifest"}
        /\ staging'[p].renderer = staging[p].renderer
    BY <1>10, <2>1, <1>a DEF WriteManifest, Content
  <2> QED BY <1>10, <2>2, <1>a DEF WriteManifest
<1>11. CASE Publish(p) BY <1>11, <1>a DEF Publish
<1>12. CASE Return(p) BY <1>12, <1>a DEF Return
<1>13. CASE Cleanup(p) BY <1>13, <1>a DEF Cleanup
<1>14. CASE Spawn(p) BY <1>14, <1>a DEF Spawn
<1>15. CASE Reap(p) BY <1>15, <1>a DEF Reap
<1>16. CASE Timeout(p) BY <1>16, <1>a DEF Timeout
<1>17. CASE Promote(p)
  <2>1. CASE staging[p].files = {"step", "bundle"}
    <3>0. staging[p] \in Content BY <1>17, <1>b DEF Promote
    <3>1. staging' = [staging EXCEPT ![p] =
             [staging[p] EXCEPT !.files = {"mesh", "manifest"}, !.declared = {"mesh"}]]
      BY <1>17, <2>1 DEF Promote
    <3>2. staging'[p].files = {"mesh", "manifest"} BY <3>0, <3>1, <1>a DEF Content
    <3> QED BY <1>17, <2>1, <3>2, <1>a DEF Promote
  <2>2. CASE staging[p].files # {"step", "bundle"} BY <1>17, <2>2, <1>a DEF Promote
  <2> QED BY <2>1, <2>2
<1>18. CASE WorkerWrites(p) \/ WorkerEnds(p)
  BY <1>18, <1>a, <1>c DEF WorkerWrites, WorkerEnds, Call, Held
<1>19. CASE Fail(p) BY <1>19, <1>a DEF Fail
<1>20. CASE Interrupt(p) BY <1>20, <1>a DEF Interrupt
<1> QED BY <1>1, <1>2, <1>3, <1>4, <1>5, <1>6, <1>7, <1>8, <1>9, <1>10, <1>11, <1>12,
           <1>13, <1>14, <1>15, <1>16, <1>17, <1>18, <1>19, <1>20 DEF Own, Work

(* Where every call has a process of its own, as at the command line, the  *)
(* manifest names the renderer that drew the preview.                      *)
THEOREM RendererTrue == ASSUME OneCallEach PROVE Spec => []RendererIsTrue
<1>1. Init => RendererIsTrue /\ \A p \in Producer : Labelled(p)
  BY DEF Init, RendererIsTrue, Labelled
<1>2. IInv /\ IInv' /\ RInv /\ [Next]_vars => RInv'
  <2> SUFFICES ASSUME IInv, IInv', RInv, [Next]_vars PROVE RInv' OBVIOUS
  <2>1. ASSUME NEW p \in Producer, Own(p) PROVE RInv'
    <3>a. TypeOK BY DEF IInv
    <3>1. Labelled(p)' BY <2>1, LabelKeeps DEF RInv
    <3>2. \A q \in Producer : q # p => native'[Home[q]] = native[Home[q]]
      <4>1. native' = native \/ \E v : native' = [native EXCEPT ![Home[p]] = v]
        BY <2>1 DEF Own, Work, Check, Make, WriteSource, Compile, Render, RenderNative, RenderFails,
           Fallback, Label, WriteManifest, Publish, Return, Cleanup, Spawn, Reap, Timeout, Promote,
           WorkerWrites, WorkerEnds, Fail, Interrupt, Aside
      <4> QED BY <4>1, <3>a, HomeAssumption DEF OneCallEach, TypeOK
    <3>3. ASSUME NEW q \in Producer, q # p PROVE Labelled(q)'
      <4>1. pc'[q] = pc[q] /\ staging'[q] = staging[q] /\ native'[Home[q]] = native[Home[q]]
        BY <2>1, <3>a, <3>2, <3>3, OthersKeep
      <4> QED BY <4>1 DEF RInv, Labelled
    <3>4. RendererIsTrue'
      <4>1. CASE dest' = dest BY <4>1 DEF RInv, RendererIsTrue
      <4>2. CASE dest' # dest
        <5>1. /\ pc[p] = "publish"
              /\ dest' = [dest EXCEPT ![Target[p]] = [by |-> p, bundle |-> staging[p]]]
          BY <2>1, <4>2, <3>a, DestKeeps
        <5>2. \A r \in Drawn(staging[p].files) : staging[p].renderer = r
          BY <5>1 DEF RInv, Labelled
        <5>3. \A d \in Directory : \/ dest'[d] = dest[d]
                                   \/ dest'[d].bundle = staging[p]
          BY <5>1, <3>a DEF TypeOK
        <5> QED BY <5>2, <5>3 DEF RInv, RendererIsTrue, Drawn
      <4> QED BY <4>1, <4>2
    <3> QED BY <3>1, <3>3, <3>4 DEF RInv
  <2>2. ASSUME NEW h \in Process, Crash(h) PROVE RInv'
    <3>1. /\ \A q \in Producer : pc'[q] = pc[q] \/ pc'[q] = "crashed"
          /\ staging' = staging /\ native' = native /\ dest' = dest
      BY <2>2 DEF Crash, Aside
    <3>2. \A q \in Producer : Labelled(q)' BY <3>1 DEF RInv, Labelled
    <3> QED BY <3>1, <3>2 DEF RInv, RendererIsTrue
  <2>3. CASE UNCHANGED vars BY <2>3 DEF vars, RInv, RendererIsTrue, Labelled
  <2> QED BY <2>1, <2>2, <2>3 DEF Next, Own
<1>3. RInv /\ IInv' /\ [Next]_vars => RInv' BY <1>2 DEF RInv
<1>4. RInv => RendererIsTrue BY DEF RInv
<1>5. Init /\ IInv => RInv BY <1>1 DEF RInv
<1> QED BY <1>3, <1>4, <1>5, Inductive, PTL DEF Spec
============================================================================
