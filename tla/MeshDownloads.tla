--------------------------- MODULE MeshDownloads ---------------------------
(***************************************************************************)
(* The server of the browser demo: DemoServer and DemoHandler of           *)
(* core/demo_server.py with the compiler slot and the MeshDownloadStore of *)
(* core/mesh_preview.py.  One thread accepts connections and gives each a  *)
(* thread of its own while slots last; one compilation runs at a time; its *)
(* meshes are kept in memory, bounded in bytes and in time.                *)
(*                                                                         *)
(* The mesh of a part is its size.  Time is what is left until a download  *)
(* expires.                                                                *)
(***************************************************************************)
EXTENDS Integers, FiniteSets, Sequences

CONSTANTS
  Connection,    \* clients that may be connected at once
  MaxWorkers,    \* DemoServer.maximum_workers
  Size,          \* sizes of meshes, MAX_STL_BYTES included
  MaxBytes,      \* MeshDownloadStore.max_bytes
  Ttl,           \* MeshDownloadStore.ttl_seconds
  None

ASSUME WorkersAssumption == MaxWorkers \in Nat \ {0}
ASSUME ConnectionAssumption == IsFiniteSet(Connection) /\ None \notin Connection
ASSUME StoreAssumption == Size \subseteq Nat \ {0} /\ MaxBytes \in Nat /\ Ttl \in Nat \ {0}

VARIABLES
  slots,         \* value of the semaphore _worker_slots
  pc,            \* where the thread of each connection is
  compiler,      \* the connection that holds _COMPILER_SLOT, or None
  meshes,        \* sizes of the parts each connection has compiled
  files,         \* MeshDownloadStore._files, in the order of the dictionary
  newest         \* history: the number of parts published last, and the
                 \* time until they expire

vars == <<slots, pc, compiler, meshes, files, newest>>
store == <<files, newest>>

PC == {"off", "accepted", "request", "compile", "publish", "response", "closing"}

(* A model has one part, an enclosure a body and a lid.                    *)
Meshes == UNION {[1 .. n -> Size] : n \in 0 .. 2}

File == [part : 1 .. 2, size : Size, left : 0 .. Ttl]

TypeOK ==
  /\ slots \in 0 .. MaxWorkers
  /\ pc \in [Connection -> PC]
  /\ compiler \in Connection \cup {None}
  /\ meshes \in [Connection -> Meshes]
  /\ files \in Seq(File)
  /\ newest \in [parts : 0 .. 2, left : 0 .. Ttl]

Init ==
  /\ slots = MaxWorkers
  /\ pc = [c \in Connection |-> "off"]
  /\ compiler = None
  /\ meshes = [c \in Connection |-> <<>>]
  /\ files = <<>>
  /\ newest = [parts |-> 0, left |-> 0]

Goes(c, from, to) == pc[c] = from /\ pc' = [pc EXCEPT ![c] = to]

(***************************************************************************)
(* The accepting thread.                                                   *)
(***************************************************************************)
(* process_request: without a slot the connection is closed at once.       *)
Accept(c) ==
  /\ \A d \in Connection : pc[d] # "accepted"
  /\ slots > 0
  /\ Goes(c, "off", "accepted")
  /\ slots' = slots - 1
  /\ UNCHANGED <<compiler, meshes, store>>

StartThread(c) ==
  /\ Goes(c, "accepted", "request")
  /\ UNCHANGED <<slots, compiler, meshes, store>>

(* The slip: the error passes without the slot being given back.           *)
StartFailsHolding(c) ==
  /\ Goes(c, "accepted", "off")
  /\ UNCHANGED <<slots, compiler, meshes, store>>

(* The system starts no more threads.                                      *)
StartFails(c) ==
  /\ Goes(c, "accepted", "off")
  /\ slots' = slots + 1
  /\ UNCHANGED <<compiler, meshes, store>>

(***************************************************************************)
(* The thread of a connection.                                             *)
(***************************************************************************)
(* A page, an edit, a preview, a request that is refused or times out.     *)
Answer(c) ==
  /\ Goes(c, "request", "response")
  /\ UNCHANGED <<slots, compiler, meshes, store>>

Sum(sizes) ==
  LET upTo[n \in 0 .. Len(sizes)] == IF n = 0 THEN 0 ELSE upTo[n - 1] + sizes[n]
  IN  upTo[Len(sizes)]

Bytes(fs) == Sum([i \in 1 .. Len(fs) |-> fs[i].size])

(* What is left when expired files are gone.                               *)
Expired(fs) ==
  LET among[n \in 0 .. Len(fs)] ==
        IF n = 0 THEN << >>
        ELSE IF fs[n].left > 0 THEN Append(among[n - 1], fs[n]) ELSE among[n - 1]
  IN  among[Len(fs)]

(* MeshDownloadStore.get.                                                  *)
Download(c) ==
  /\ Goes(c, "request", "response")
  /\ files' = Expired(files)
  /\ UNCHANGED <<slots, compiler, meshes, newest>>

(* The non-blocking acquire of the compiler slot.                          *)
Compile(c) ==
  /\ IF compiler = None
       THEN Goes(c, "request", "compile") /\ compiler' = c
       ELSE Goes(c, "request", "response") /\ UNCHANGED compiler
  /\ UNCHANGED <<slots, meshes, store>>

(* Every part is compiled and verified; or one is not, or runs into its    *)
(* timeout.  The slot is given back either way.                            *)
CompileEnds(c) ==
  /\ \/ Goes(c, "compile", "publish")
        /\ \E m \in Meshes \ {<<>>} : meshes' = [meshes EXCEPT ![c] = m]
     \/ Goes(c, "compile", "response") /\ UNCHANGED meshes
  /\ compiler' = None
  /\ UNCHANGED <<slots, store>>

(* The slip: the bound does not count the new files.                       *)
EvictedLate(fs, room) == IF Bytes(fs) <= MaxBytes THEN fs ELSE Tail(fs)

(* Files go from the front until the rest leaves room, or all are gone.    *)
Evicted(fs, room) ==
  LET fits(k) == k = Len(fs) \/ Bytes(SubSeq(fs, k + 1, Len(fs))) <= room
      least == CHOOSE k \in 0 .. Len(fs) : fits(k) /\ \A i \in 0 .. k - 1 : ~fits(i)
  IN SubSeq(fs, least + 1, Len(fs))

New(c) == [i \in 1 .. Len(meshes[c]) |-> [part |-> i, size |-> meshes[c][i], left |-> Ttl]]

(* The slip: room is made after the new files are in.                      *)
StoredThenEvicted(old, c) == Evicted(old \o New(c), MaxBytes - Len(meshes[c]))

Stored(old, c) == old \o New(c)

Total(c) == Sum(meshes[c])

(* MeshDownloadStore.publish: too much for the store at any time is an     *)
(* error; else it makes room under the lock.                               *)
Publish(c) ==
  /\ Goes(c, "publish", "response")
  /\ IF Total(c) > MaxBytes
       THEN UNCHANGED store
       ELSE /\ files' = Stored(Evicted(Expired(files), MaxBytes - Total(c)), c)
            /\ newest' = [parts |-> Len(meshes[c]), left |-> Ttl]
  /\ meshes' = [meshes EXCEPT ![c] = <<>>]
  /\ UNCHANGED <<slots, compiler>>

(* The response is written, or the client is gone; any other exception     *)
(* ends the request here too.  Then the connection is shut.                *)
Respond(c) ==
  /\ pc[c] \in {"request", "compile", "publish", "response"}
  /\ pc' = [pc EXCEPT ![c] = "closing"]
  /\ compiler' = IF compiler = c THEN None ELSE compiler
  /\ meshes' = [meshes EXCEPT ![c] = <<>>]
  /\ UNCHANGED <<slots, store>>

(* The slip: the connection is kept for further requests.                  *)
ReleaseKeepsAlive(c) ==
  /\ Goes(c, "closing", "request")
  /\ UNCHANGED <<slots, compiler, meshes, store>>

(* The finally of process_request_thread, after the client has seen the    *)
(* end of the connection.                                                  *)
Release(c) ==
  /\ Goes(c, "closing", "off")
  /\ slots' = slots + 1
  /\ UNCHANGED <<compiler, meshes, store>>

Tick ==
  /\ newest.left > 0 \/ \E i \in DOMAIN files : files[i].left > 0
  /\ LET less(t) == IF t = 0 THEN 0 ELSE t - 1
     IN /\ files' = [i \in DOMAIN files |-> [files[i] EXCEPT !.left = less(@)]]
        /\ newest' = [newest EXCEPT !.left = less(@)]
  /\ UNCHANGED <<slots, pc, compiler, meshes>>

Thread(c) ==
  \/ StartThread(c) \/ StartFails(c) \/ Answer(c) \/ Download(c) \/ Compile(c)
  \/ CompileEnds(c) \/ Publish(c) \/ Respond(c) \/ Release(c)

Next == Tick \/ \E c \in Connection : Accept(c) \/ Thread(c)

Spec == Init /\ [][Next]_vars

(* Threads run on: reads and writes have a timeout, so has OpenSCAD.       *)
FairSpec == Spec /\ \A c \in Connection : WF_vars(Thread(c))

(***************************************************************************)
(* Properties.                                                             *)
(***************************************************************************)
Serving == {c \in Connection : pc[c] # "off"}

(* Every slot is free or belongs to a connection that will give it back,   *)
(* on every path, and the compiler slot belongs to the one request that    *)
(* compiles (demo_server.py:371, mesh_preview.py:98).                      *)
SlotsAccounted ==
  /\ TypeOK
  /\ slots + Cardinality(Serving) = MaxWorkers
  /\ \A c \in Connection : pc[c] = "compile" <=> compiler = c

(* "A bounded 32 MiB memory cache" (docs/EXECUTION_20260908.md:15), with   *)
(* several publishers and files of several ages.                           *)
BytesBounded == Bytes(files) <= MaxBytes

(* "Older downloads can be evicted" (docs/EXECUTION_20260908.md:16): of    *)
(* what was published last every part stays until it expires, at the end   *)
(* of the dictionary where eviction comes last.                            *)
NewestIsWhole ==
  newest.left > 0 =>
    \E older \in 0 .. Len(files) :
      /\ Len(files) = older + newest.parts
      /\ \A i \in 1 .. newest.parts : /\ files[older + i].part = i
                                      /\ files[older + i].left = newest.left

(* Every connection ends and gives back what it holds: the server is not   *)
(* busy forever (demo_server.py:371).                                      *)
RequestsEnd == \A c \in Connection : pc[c] # "off" ~> pc[c] = "off"

============================================================================
