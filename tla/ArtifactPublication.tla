------------------------ MODULE ArtifactPublication ------------------------
(***************************************************************************)
(* The three producers of artifact directories: generate_artifacts of      *)
(* core/generation.py, build_project_bundle of core/workflow.py and        *)
(* GmshProcessBackend.mesh_step of core/gmsh_process.py with its worker    *)
(* process.  Each looks whether its destination exists, fills a private    *)
(* staging directory beside it, writes a manifest last, and renames the    *)
(* staging directory to the destination without replacing anything.        *)
(*                                                                         *)
(* A file is its name; the preview is named after the renderer that drew   *)
(* it.  A hash in a manifest is the name of the file that was hashed.      *)
(***************************************************************************)
EXTENDS FiniteSets

CONSTANTS
  Producer,    \* calls, each with one destination
  Directory,   \* destinations
  Process,     \* processes the calls run in: a daemon runs several at once
  Kinds,       \* the kinds of calls considered
  Target,      \* [Producer -> Directory]
  Home,        \* [Producer -> Process]
  None

ASSUME KindsAssumption == Kinds \subseteq {"generate", "bundle", "gmsh"}
ASSUME TargetAssumption == Target \in [Producer -> Directory]
ASSUME HomeAssumption == Home \in [Producer -> Process]
ASSUME NoneAssumption == None \notin Producer \cup {"published", "failed", "unknown"}
ASSUME PartialAssumption == "partial" \notin Producer \cup {None}

VARIABLES
  pc,          \* how far each call is
  asked,       \* each call's kind, and the formats it makes beside the source
  staging,     \* content of each call's staging directory, or None
  native,      \* each process's _NATIVE_RENDER_AVAILABLE
  worker,      \* the Gmsh process of each call
  dest         \* what each destination holds, or None

vars == <<pc, asked, staging, native, worker, dest>>

Product == {"source", "mesh", "native", "wireframe"}
File == Product \cup {"temporary", "manifest", "step", "staged", "bundle"}

(* Only a generation draws a preview; a mesh from Gmsh is its one product. *)
Request == {r \in [kind : Kinds, formats : SUBSET {"mesh", "preview"}] :
              /\ "preview" \in r.formats => r.kind = "generate"
              /\ r.kind = "gmsh" => r.formats = {}}

(* declared: the files the manifest lists, with their hashes.              *)
Content == [files : SUBSET File, declared : SUBSET File,
            renderer : {"unknown", "native", "wireframe"}]
Published == [by : Producer, bundle : Content]

ASSUME NothingAssumption == None \notin Content \cup Published

Trying == {"made", "compile", "render", "rendering", "fallback", "label", "manifest",
           "wait", "verify", "publish"}
Cleaning == {"failing", "interrupting"}
Ended == {"done", "failed", "interrupted", "crashed"}
PC == {"idle", "make", "published"} \cup Trying \cup Cleaning \cup Ended

TypeOK ==
  /\ pc \in [Producer -> PC]
  /\ asked \in [Producer -> Request]
  /\ staging \in [Producer -> Content \cup {None}]
  /\ native \in [Process -> {"unknown", "native", "wireframe"}]
  /\ worker \in [Producer -> {"none", "running", "ok", "error", "killed"}]
  /\ dest \in [Directory -> Published \cup {None}]
  /\ \A p \in Producer : /\ pc[p] \in Trying => staging[p] # None
                         /\ pc[p] \in {"idle", "make", "published", "done"} => staging[p] = None

Init ==
  /\ pc = [p \in Producer |-> "idle"]
  /\ asked \in [Producer -> Request]
  /\ staging = [p \in Producer |-> None]
  /\ native = [h \in Process |-> "unknown"]
  /\ worker = [p \in Producer |-> "none"]
  /\ dest = [d \in Directory |-> None]

(* One step of call p from one place to another; ways of writing down what *)
(* the step leaves alone.                                                  *)
Goes(p, from, to) == pc[p] = from /\ pc' = [pc EXCEPT ![p] = to]
Fills(p, files) == staging' = [staging EXCEPT ![p] = [@ EXCEPT !.files = files]]
Aside == UNCHANGED <<asked, worker, dest>>

(* The early check: an existing destination is refused before anything is  *)
(* made.                                                                   *)
Check(p) ==
  /\ Goes(p, "idle", IF dest[Target[p]] = None THEN "make" ELSE "failed")
  /\ UNCHANGED <<staging, native>> /\ Aside

(* mkdtemp.                                                                *)
Make(p) ==
  /\ \/ Goes(p, "make", "made")
        /\ staging' = [staging EXCEPT ![p] =
                         [files |-> {}, declared |-> {}, renderer |-> "unknown"]]
     \/ Goes(p, "make", "failed") /\ UNCHANGED staging
  /\ UNCHANGED native /\ Aside

AfterMesh(p) == IF "preview" \in asked[p].formats THEN "render" ELSE "manifest"

(* The canonical IR, the OpenSCAD text, the request and the reports.       *)
WriteSource(p) ==
  /\ asked[p].kind # "gmsh"
  /\ Goes(p, "made", IF "mesh" \in asked[p].formats THEN "compile" ELSE AfterMesh(p))
  /\ Fills(p, staging[p].files \cup {"source"})
  /\ UNCHANGED native /\ Aside

(* compile_scad_verified: a mesh that was verified, or an error.           *)
Compile(p) ==
  /\ Goes(p, "compile", AfterMesh(p))
  /\ Fills(p, staging[p].files \cup {"mesh"})
  /\ UNCHANGED native /\ Aside

(* render_scad_png: a process that has seen the native renderer fail never *)
(* tries it again.                                                         *)
Render(p) ==
  /\ IF native[Home[p]] = "wireframe"
       THEN Goes(p, "render", "fallback") /\ UNCHANGED staging
       ELSE Goes(p, "render", "rendering")
              /\ Fills(p, staging[p].files \cup {"temporary"})
  /\ UNCHANGED native /\ Aside

RenderNative(p) ==
  /\ Goes(p, "rendering", "label")
  /\ Fills(p, (staging[p].files \ {"temporary"}) \cup {"native"})
  /\ native' = [native EXCEPT ![Home[p]] = "native"]
  /\ Aside

(* A timeout, an error exit or an empty image.                             *)
RenderFails(p) ==
  /\ Goes(p, "rendering", "fallback")
  /\ Fills(p, staging[p].files \ {"temporary"})
  /\ native' = [native EXCEPT ![Home[p]] = "wireframe"]
  /\ Aside

Fallback(p) ==
  /\ Goes(p, "fallback", "label")
  /\ Fills(p, staging[p].files \cup {"wireframe"})
  /\ UNCHANGED native /\ Aside

(* preview_renderer_backend() goes into the manifest.                      *)
Label(p) ==
  /\ Goes(p, "label", "manifest")
  /\ staging' = [staging EXCEPT ![p] = [@ EXCEPT !.renderer = native[Home[p]]]]
  /\ UNCHANGED native /\ Aside

(* A bundle lists what it finds in its staging directory, a generation     *)
(* what it has written.                                                    *)
WriteManifest(p) ==
  /\ Goes(p, "manifest", "publish")
  /\ LET s == staging[p]
         listed == IF asked[p].kind = "bundle" THEN s.files ELSE s.files \cap Product
     IN staging' = [staging EXCEPT ![p] =
                      [s EXCEPT !.files = s.files \cup {"manifest"}, !.declared = listed]]
  /\ UNCHANGED native /\ Aside

(* The slip of a rename that replaces its destination.                     *)
PublishReplaces(p) ==
  /\ Goes(p, "publish", "published")
  /\ dest' = [dest EXCEPT ![Target[p]] = [by |-> p, bundle |-> staging[p]]]
  /\ staging' = [staging EXCEPT ![p] = None]
  /\ UNCHANGED <<asked, native, worker>>

(* publish_directory_noreplace.                                            *)
Publish(p) ==
  /\ IF dest[Target[p]] = None
       THEN /\ Goes(p, "publish", "published")
            /\ dest' = [dest EXCEPT ![Target[p]] = [by |-> p, bundle |-> staging[p]]]
            /\ staging' = [staging EXCEPT ![p] = None]
       ELSE Goes(p, "publish", "failing") /\ UNCHANGED <<staging, dest>>
  /\ UNCHANGED <<asked, native, worker>>

Return(p) ==
  /\ Goes(p, "published", "done")
  /\ UNCHANGED <<staging, native>> /\ Aside

(***************************************************************************)
(* The supervised mesh worker.                                             *)
(***************************************************************************)
Spawn(p) ==
  /\ asked[p].kind = "gmsh"
  /\ Goes(p, "made", "wait")
  /\ Fills(p, {"step"})
  /\ worker' = [worker EXCEPT ![p] = "running"]
  /\ UNCHANGED <<asked, native, dest>>

(* The worker stages its bundle in the private directory; it goes on doing *)
(* so when its parent has died.                                            *)
WorkerWrites(p) ==
  /\ worker[p] = "running" /\ staging[p] # None
  /\ Fills(p, staging[p].files \cup {"staged"})
  /\ UNCHANGED <<pc, asked, native, worker, dest>>

(* It ends well, with its bundle in place and perhaps files of Gmsh's own  *)
(* beside it, or it ends with an error or a signal.                        *)
WorkerEnds(p) ==
  /\ worker[p] = "running" /\ staging[p] # None
  /\ \/ /\ "staged" \in staging[p].files
        /\ worker' = [worker EXCEPT ![p] = "ok"]
        /\ \E more \in SUBSET {"temporary"} :
             Fills(p, (staging[p].files \ {"staged"}) \cup {"bundle"} \cup more)
     \/ /\ worker' = [worker EXCEPT ![p] = "error"]
        /\ UNCHANGED staging
  /\ UNCHANGED <<pc, asked, native, dest>>

(* process.wait() returns.                                                 *)
Reap(p) ==
  /\ worker[p] \in {"ok", "error"}
  /\ Goes(p, "wait", IF worker[p] = "ok" THEN "verify" ELSE "failing")
  /\ UNCHANGED <<staging, native>> /\ Aside

(* Two slips: the worker is left running, or there is no deadline.         *)
TimeoutLeavesWorker(p) ==
  /\ worker[p] = "running"
  /\ Goes(p, "wait", "failing")
  /\ UNCHANGED <<staging, native>> /\ Aside

TimeoutNever(p) == FALSE /\ Goes(p, "wait", "failing")

(* The worker is killed and reaped before its directory goes.              *)
Timeout(p) ==
  /\ worker[p] = "running"
  /\ Goes(p, "wait", "failing")
  /\ worker' = [worker EXCEPT ![p] = "killed"]
  /\ UNCHANGED <<asked, staging, native, dest>>

(* The receipt is verified and the workspace may hold nothing else; then   *)
(* the files of the bundle move up into the directory that is published.   *)
Promote(p) ==
  /\ pc[p] = "verify"
  /\ IF staging[p].files = {"step", "bundle"}
       THEN Goes(p, "verify", "publish")
              /\ staging' = [staging EXCEPT ![p] =
                    [@ EXCEPT !.files = {"mesh", "manifest"}, !.declared = {"mesh"}]]
       ELSE Goes(p, "verify", "failing") /\ UNCHANGED staging
  /\ UNCHANGED native /\ Aside

(***************************************************************************)
(* What goes wrong.                                                        *)
(***************************************************************************)
(* An exception of any step that is tried.                                 *)
Fail(p) ==
  /\ pc[p] \in Trying \ {"wait"}
  /\ pc' = [pc EXCEPT ![p] = "failing"]
  /\ UNCHANGED <<staging, native>> /\ Aside

Cleanup(p) ==
  /\ \/ Goes(p, "failing", "failed")
     \/ Goes(p, "interrupting", "interrupted")
  /\ staging' = [staging EXCEPT ![p] = None]
  /\ UNCHANGED native /\ Aside

(* A KeyboardInterrupt.  A bundle catches only Exception; a generation may *)
(* be hit between mkdtemp and its try; a cleanup is not protected.         *)
Interrupt(p) ==
  /\ pc[p] \in {"make", "published"} \cup Trying \cup Cleaning
  /\ \/ /\ pc[p] \notin Cleaning \cup {"make"} /\ asked[p].kind # "bundle"
        /\ pc' = [pc EXCEPT ![p] = "interrupting"]
     \/ /\ \/ pc[p] \in Cleaning \cup {"make"} \/ asked[p].kind = "bundle"
           \/ asked[p].kind = "generate" /\ pc[p] = "made"
        /\ pc' = [pc EXCEPT ![p] = "interrupted"]
  /\ worker' = [worker EXCEPT ![p] = IF @ = "running" THEN "killed" ELSE @]
  /\ UNCHANGED <<asked, staging, native, dest>>

(* A process dies with all its calls; a mesh worker survives its parent.   *)
Crash(h) ==
  /\ \E p \in Producer : Home[p] = h /\ pc[p] \notin Ended \cup {"idle"}
  /\ pc' = [p \in Producer |-> IF Home[p] = h /\ pc[p] \notin Ended
                                 THEN "crashed" ELSE pc[p]]
  /\ UNCHANGED <<staging, native>> /\ Aside

Work(p) ==
  \/ Check(p) \/ Make(p) \/ WriteSource(p) \/ Compile(p)
  \/ Render(p) \/ RenderNative(p) \/ RenderFails(p) \/ Fallback(p) \/ Label(p)
  \/ WriteManifest(p) \/ Publish(p) \/ Return(p) \/ Cleanup(p)
  \/ Spawn(p) \/ Reap(p) \/ Timeout(p) \/ Promote(p)

Next ==
  \/ \E p \in Producer : Work(p) \/ WorkerWrites(p) \/ WorkerEnds(p) \/ Fail(p) \/ Interrupt(p)
  \/ \E h \in Process : Crash(h)

Spec == Init /\ [][Next]_vars

(* A call goes on until it ends: what it waits for, OpenSCAD and the mesh  *)
(* worker, runs under a timeout.  Nothing is assumed of the worker itself. *)
FairSpec == Spec /\ \A p \in Producer : WF_vars(Work(p))

(***************************************************************************)
(* Properties.                                                             *)
(***************************************************************************)
(* verify_artifact_bundle, and the inventory check of                      *)
(* verify_project_bundle: every declared file is there as it was hashed,   *)
(* and nothing else is.                                                    *)
Verifies(b) ==
  /\ "manifest" \in b.files
  /\ b.declared # {}
  /\ b.files \ {"manifest"} = b.declared

(* What a producer publishes passes its own verification, whatever failed  *)
(* and was retried on the way: no file of a failed attempt (generation.py: *)
(* 228, workflow.py:139) is left in it.                                    *)
PublishedVerifies ==
  \A d \in Directory : dest[d] # None => Verifies(dest[d].bundle)

(* The manifest names the renderer that drew the preview (README.md:147,   *)
(* generation.py:227).                                                     *)
RendererIsTrue ==
  \A d \in Directory : dest[d] # None =>
    \A r \in dest[d].bundle.files \cap {"native", "wireframe"} :
      dest[d].bundle.renderer = r

(* A staging directory outlives its call only if the call was interrupted  *)
(* or its process died, and a mesh worker outlives its call only if the    *)
(* process died: nobody writes to a directory that was cleaned up or       *)
(* published (gmsh_process.py:79, generation.py:263, workflow.py:160).     *)
WorkspaceIsHeld ==
  \A p \in Producer :
    /\ staging[p] # None => pc[p] \in Trying \cup Cleaning \cup {"interrupted", "crashed"}
    /\ worker[p] = "running" => pc[p] \in {"wait", "crashed"}

(* The promise of "Generate a complete directory or publish nothing at the *)
(* destination" (generation.py:162): every step of every producer is one   *)
(* of AtomicDirectory.                                                     *)
Shown(d) ==
  IF dest[d] = None THEN None
  ELSE IF Verifies(dest[d].bundle) THEN dest[d].by ELSE "partial"

Told(p) ==
  IF pc[p] = "done" THEN "published"
  ELSE IF pc[p] = "failed" THEN "failed"
  ELSE IF pc[p] \in {"interrupted", "crashed"} THEN "unknown" ELSE None

Abstract == INSTANCE AtomicDirectory WITH
  content <- [d \in Directory |-> Shown(d)],
  answer <- [p \in Producer |-> Told(p)]

ImplementsAtomicDirectory == Abstract!Spec

(* A call ends, whatever its mesh worker does (gmsh_process.py:75).        *)
CallsEnd == \A p \in Producer : pc[p] # "idle" ~> pc[p] \in Ended

============================================================================
