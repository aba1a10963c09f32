----------------------------- MODULE MeshSolid -----------------------------
(***************************************************************************)
(* The part of verify_stl (src/core/artifacts.py) that decides from the    *)
(* connections of a triangle mesh whether it is one solid: its own count   *)
(* of bodies, two tests of trimesh, and the search for singular edges and  *)
(* vertices of analyze_triangle_complex (src/core/topology.py).            *)
(*                                                                         *)
(* A face is a triple of vertices in the order of its winding.  A behaviour *)
(* loads one of the given meshes, face by face, leaving some out and       *)
(* winding some the other way round.  Coordinates are left out.            *)
(***************************************************************************)
EXTENDS Integers, SequencesExt

CONSTANTS
  Meshes       \* by name: vertices, triangles, and the bounds of the model on
               \* how many triangles are left out (skips) or reversed (flips)

Corners(f) == {f[1], f[2], f[3]}

(* Other triangles are refused, or no simplicial complex (topology.py:97). *)
ASSUME MeshesAssumption ==
  /\ "none" \notin DOMAIN Meshes
  /\ \A m \in DOMAIN Meshes :
       LET triangles == Meshes[m].triangles
       IN  /\ Meshes[m].vertices \in Nat /\ Meshes[m].skips \in Nat /\ Meshes[m].flips \in Nat
           /\ triangles \in Seq((1 .. Meshes[m].vertices) \X (1 .. Meshes[m].vertices)
                                 \X (1 .. Meshes[m].vertices))
           /\ \A i \in DOMAIN triangles : Cardinality(Corners(triangles[i])) = 3
           /\ \A i, j \in DOMAIN triangles : Corners(triangles[i]) = Corners(triangles[j]) => i = j

VARIABLES
  mesh,        \* the mesh being loaded, or "none"
  loaded,      \* which of its triangles have been, in order
  faces        \* the faces so far
meshVars == <<mesh, loaded, faces>>

MeshInit == mesh = "none" /\ loaded = << >> /\ faces = << >>

Open == /\ mesh = "none"
        /\ mesh' \in DOMAIN Meshes
        /\ UNCHANGED <<loaded, faces>>

Reversed == Cardinality({i \in DOMAIN faces : faces[i] # Meshes[mesh].triangles[loaded[i]]})

AddFace ==
  /\ mesh # "none"
  /\ \E i \in DOMAIN Meshes[mesh].triangles :
       LET f == Meshes[mesh].triangles[i]
       IN  /\ loaded # << >> => i > Last(loaded)
           /\ i - Len(loaded) - 1 <= Meshes[mesh].skips
           /\ loaded' = Append(loaded, i)
           /\ \/ faces' = Append(faces, f)
              \/ /\ Reversed < Meshes[mesh].flips
                 /\ faces' = Append(faces, <<f[1], f[3], f[2]>>)
  /\ UNCHANGED mesh

MeshNext == Open \/ AddFace
MeshSpec == MeshInit /\ [][MeshNext]_meshVars
-----------------------------------------------------------------------------
(* The sides of a face as it winds; the edges of a mesh, and the faces     *)
(* around each.                                                            *)
Sides(f) == << <<f[1], f[2]>>, <<f[2], f[3]>>, <<f[3], f[1]>> >>
Ends(side) == {side[1], side[2]}
Edges(fs) == UNION {{Ends(Sides(fs[i])[s]) : s \in 1 .. 3} : i \in DOMAIN fs}
Fan(fs, e) == {i \in DOMAIN fs : e \subseteq Corners(fs[i])}
Ascending(f, e) == \E s \in 1 .. 3 : Ends(Sides(f)[s]) = e /\ Sides(f)[s][1] < Sides(f)[s][2]

(* find of verify_stl: the path is halved on the way to its root, two      *)
(* items a turn.                                                           *)
Halved(s) ==
  IF s.parents[s.root] = s.root THEN s
  ELSE LET up == s.parents[s.parents[s.root]]
       IN  [parents |-> [s.parents EXCEPT ![s.root] = up], root |-> up]

Find(parents, i) ==
  LET turns == Cardinality(DOMAIN parents) \div 2
      turn[n \in 0 .. turns] ==
        IF n = 0 THEN [parents |-> parents, root |-> i] ELSE Halved(turn[n - 1])
  IN  turn[turns]

(* body_count of verify_stl: faces are joined over each edge of two, in    *)
(* the place of the edge in the dictionary, at the first face that has it. *)
Unified(parents, left, right) ==
  LET l == Find(parents, left)
      r == Find(l.parents, right)
  IN  IF l.root = r.root THEN r.parents ELSE [r.parents EXCEPT ![r.root] = l.root]

OverSide(fs, i, s, parents) ==
  LET fan == Fan(fs, Ends(Sides(fs[i])[s]))
  IN  IF Cardinality(fan) = 2 /\ i = Min(fan) THEN Unified(parents, i, Max(fan)) ELSE parents

BodiesJoined(fs) ==
  LET parents[i \in 0 .. Len(fs)] ==
        IF i = 0 THEN [face \in DOMAIN fs |-> face]
        ELSE OverSide(fs, i, 3, OverSide(fs, i, 2, OverSide(fs, i, 1, parents[i - 1])))
  IN  parents[Len(fs)]

Bodies(fs) ==
  LET parents == BodiesJoined(fs)
  IN  Cardinality({Find(parents, i).root : i \in DOMAIN fs})

(* is_watertight and is_winding_consistent of trimesh, and the vertices    *)
(* that it keeps of a mesh it loads.                                       *)
Watertight(fs) == \A e \in Edges(fs) : Cardinality(Fan(fs, e)) = 2
WindingConsistent(fs) ==
  \A e \in Edges(fs) : Cardinality(Fan(fs, e)) = 2 =>
    \A i, j \in Fan(fs, e) : i # j => Ascending(fs[i], e) # Ascending(fs[j], e)
Used(fs) == UNION {Corners(fs[i]) : i \in DOMAIN fs}

(* _link_is_manifold: one path or one cycle.  What can be reached in a     *)
(* graph is reached in as many rounds as it has vertices.                  *)
Link(fs, v) == {Corners(fs[i]) \ {v} : i \in {j \in DOMAIN fs : v \in Corners(fs[j])}}
Degree(link, v) == Cardinality({e \in link : v \in e})

Reached(link, v) ==
  LET seen[n \in 0 .. Cardinality(UNION link)] ==
        IF n = 0 THEN {v} ELSE seen[n - 1] \cup UNION {e \in link : e \cap seen[n - 1] # {}}
  IN  seen[Cardinality(UNION link)]

LinkIsManifold(link) ==
  /\ link # {}
  /\ LET all == UNION link
     IN  /\ \A v \in all : Degree(link, v) \in {1, 2}
         /\ Cardinality({v \in all : Degree(link, v) = 1}) \in {0, 2}
         /\ Reached(link, CHOOSE v \in all : TRUE) = all

(* analyze_triangle_complex: bad_vertices and singular_edges, and whether  *)
(* there are any, for the vertices V.                                      *)
BadVertices(V, fs) == {v \in V : ~ LinkIsManifold(Link(fs, v))}
SingularEdges(fs) == {e \in Edges(fs) : Cardinality(Fan(fs, e)) > 2}
IsManifold(V, fs) == BadVertices(V, fs) = {} /\ SingularEdges(fs) = {}

(* The slip of not asking for manifold vertices.                           *)
IsSolidByEdges(fs) == Bodies(fs) = 1 /\ Watertight(fs) /\ WindingConsistent(fs)

(* verify_stl, as far as it looks at connections.                          *)
IsSolid(fs) ==
  /\ Bodies(fs) = 1 /\ Watertight(fs) /\ WindingConsistent(fs)
  /\ IsManifold(Used(fs), fs)
-----------------------------------------------------------------------------
(* A set that no member of sets leaves; a connected graph is one whose     *)
(* only such sets are none and all of its vertices.                        *)
Whole(S, sets) == {T \in SUBSET S : \A s \in sets : s \cap T \in {{}, s}}
FaceSets(fs) == {Corners(fs[i]) : i \in DOMAIN fs}

(* A connected graph whose vertices have one or two neighbours.            *)
PathOrCycle(link) ==
  /\ link # {} /\ \A v \in UNION link : Degree(link, v) <= 2
  /\ Cardinality(Whole(UNION link, link)) = 2

(* A mesh passes as a solid exactly if it is one closed surface that winds *)
(* the same way all over: not two that touch, in a corner, in an edge or   *)
(* not at all, nor one that touches itself (artifacts.py:468-482).         *)
SolidIsExact ==
  faces # << >> =>
    (IsSolid(faces) <=>
       /\ Cardinality(Whole(Used(faces), FaceSets(faces))) = 2
       /\ \A v \in Used(faces) : PathOrCycle(Link(faces, v))
       /\ \A i \in DOMAIN faces : \A side \in ToSet(Sides(faces[i])) :
            \E j \in DOMAIN faces \ {i} : Contains(Sides(faces[j]), <<side[2], side[1]>>)
       /\ \A i, j \in DOMAIN faces : i # j => ToSet(Sides(faces[i])) \cap ToSet(Sides(faces[j])) = {})
=============================================================================
