---------------------------- MODULE MeshTopology ----------------------------
(***************************************************************************)
(* analyze_triangle_complex of src/core/topology.py, which tells the       *)
(* homology over F2 and the surfaces of a triangle mesh.  It is checked    *)
(* against definitions by enumeration: of the sets of vertices, faces and  *)
(* flips that the numbers stand for.  The mesh, its edges and its links    *)
(* are those of MeshSolid.                                                 *)
(***************************************************************************)
EXTENDS MeshSolid

(* _UnionFind, which hangs the smaller tree under the larger, as the union *)
(* of verify_stl does not, and the root of each item after all pairs have  *)
(* been joined.                                                            *)
RECURSIVE FindRoot(_, _)
FindRoot(parents, i) ==
  IF parents[i] = i THEN [parents |-> parents, root |-> i]
  ELSE LET halved == [parents EXCEPT ![i] = parents[parents[i]]]
       IN  FindRoot(halved, halved[i])

Singletons(S) == [parents |-> [i \in S |-> i], sizes |-> [i \in S |-> 1]]

Union(sets, left, right) ==
  LET l == FindRoot(sets.parents, left)
      r == FindRoot(l.parents, right)
      smaller == IF sets.sizes[l.root] < sets.sizes[r.root] THEN l.root ELSE r.root
      larger == IF smaller = l.root THEN r.root ELSE l.root
  IN  IF l.root = r.root THEN [sets EXCEPT !.parents = r.parents]
      ELSE [parents |-> [r.parents EXCEPT ![smaller] = larger],
            sizes |-> [sets.sizes EXCEPT ![larger] = @ + sets.sizes[smaller]]]

Joined(S, pairs) ==
  LET sets == FoldLeft(LAMBDA u, p : Union(u, p[1], p[2]), Singletons(S), pairs)
  IN  [i \in S |-> FindRoot(sets.parents, i).root]

(* The edges in the order of the dictionary, each with the faces it is a   *)
(* side of.                                                                *)
EdgesOf(fs) ==
  FoldLeft(LAMBDA seen, side : IF Contains(seen, Ends(side)) THEN seen
                               ELSE Append(seen, Ends(side)),
           << >>, FlattenSeq([i \in DOMAIN fs |-> Sides(fs[i])]))

Incident(fs, e) ==
  SelectSeq([i \in DOMAIN fs |-> i], LAMBDA i : e \subseteq Corners(fs[i]))

(* _rank_f2: a row is the set of its ones.                                 *)
RECURSIVE Reduced(_, _)
Reduced(pivots, row) ==
  IF row = {} THEN pivots
  ELSE IF Max(row) \in DOMAIN pivots
       THEN Reduced(pivots, SymDiff(row, pivots[Max(row)]))
       ELSE pivots @@ (Max(row) :> row)

Rank(rows) == Cardinality(DOMAIN FoldLeft(Reduced, << >>, rows))

(* The search that winds neighbouring faces alike: dual[f] lists the faces *)
(* across the edges of f, each with whether one of the two must flip.      *)
Across(fs, e, f) ==
  LET other == CHOOSE i \in Fan(fs, e) : i # f
  IN  <<other, Ascending(fs[f], e) = Ascending(fs[other], e)>>

Dual(fs, interior) ==
  [f \in DOMAIN fs |->
     LET own == SelectSeq(interior, LAMBDA e : e \subseteq Corners(fs[f]))
     IN  [k \in DOMAIN own |-> Across(fs, own[k], f)]]

(* twisted: the faces at which the search met a contradiction.             *)
Meet(s, current, next) ==
  LET target == s.flips[current] # next[2]
  IN  IF next[1] \notin DOMAIN s.flips
      THEN [s EXCEPT !.flips = @ @@ (next[1] :> target), !.queue = Append(@, next[1])]
      ELSE IF s.flips[next[1]] = target THEN s
      ELSE [s EXCEPT !.twisted = @ \cup {current}]

RECURSIVE Search(_, _)
Search(dual, s) ==
  IF s.queue = << >> THEN s
  ELSE LET current == Last(s.queue)
       IN  Search(dual, FoldLeft(LAMBDA t, next : Meet(t, current, next),
                                 [s EXCEPT !.queue = Front(@)], dual[current]))

Twisted(dual) ==
  FoldLeft(LAMBDA s, f : IF f \in DOMAIN s.flips THEN s
                         ELSE Search(dual, [s EXCEPT !.flips = @ @@ (f :> FALSE),
                                                     !.queue = <<f>>]),
           [flips |-> << >>, queue |-> << >>, twisted |-> {}],
           [f \in DOMAIN dual |-> f]).twisted
-----------------------------------------------------------------------------
(* The slip of forgetting that a boundary edge fixes its group.            *)
FreeAll(groups, fs, boundary) == {groups[i] : i \in DOMAIN fs}

(* The groups of faces that a cycle may contain.                           *)
Free(groups, fs, boundary) ==
  {groups[i] : i \in DOMAIN fs} \ {groups[Incident(fs, e)[1]] : e \in ToSet(boundary)}

(* One component, by the root of its vertices.                             *)
Component(root, V, fs, edges, boundary, roots, rims, bad, twisted) ==
  LET mine(v) == roots[v] = root
      loops == Cardinality({rims[Min(e)] : e \in {b \in ToSet(boundary) : mine(Min(b))}})
      chi == Cardinality({v \in V : mine(v)})
             - Cardinality({k \in DOMAIN edges : mine(Min(edges[k]))})
             + Cardinality({i \in DOMAIN fs : mine(fs[i][1])})
      manifold == root \notin bad
      orientable == manifold /\ \A i \in twisted : ~ mine(fs[i][1])
  IN  [root |-> root, euler |-> chi, manifold |-> manifold, orientable |-> orientable,
       loops |-> loops,
       genus |-> IF orientable THEN (2 - loops - chi) \div 2 ELSE -1,
       crosscap |-> IF manifold /\ ~ orientable THEN 2 - loops - chi ELSE -1]

(* analyze_triangle_complex for the vertices V.                            *)
Report(V, fs) ==
  LET edges == EdgesOf(fs)
      shared(n) == SelectSeq(edges, LAMBDA e : Len(Incident(fs, e)) = n)
      boundary == shared(1)
      interior == shared(2)
      singular == SelectSeq(edges, LAMBDA e : Len(Incident(fs, e)) > 2)
      roots == Joined(V, FlattenSeq([i \in DOMAIN fs |->
                 << <<fs[i][1], fs[i][2]>>, <<fs[i][1], fs[i][3]>> >>]))
      groups == Joined(DOMAIN fs, [k \in DOMAIN interior |-> Incident(fs, interior[k])])
      free == Free(groups, fs, boundary)
      row(e) == FoldLeft(LAMBDA r, i : IF groups[i] \in free THEN SymDiff(r, {groups[i]}) ELSE r,
                         {}, Incident(fs, e))
      b2 == Cardinality(free) - Rank([k \in DOMAIN singular |-> row(singular[k])])
      b0 == Cardinality({roots[v] : v \in V})
      bad == {roots[v] : v \in BadVertices(V, fs)} \cup {roots[Min(e)] : e \in SingularEdges(fs)}
      rims == Joined(V, [k \in DOMAIN boundary |-> <<Min(boundary[k]), Max(boundary[k])>>])
      twisted == Twisted(Dual(fs, interior))
  IN  [betti |-> <<b0, Len(edges) - Cardinality(V) + b0 - (Len(fs) - b2), b2>>,
       manifold |-> bad = {}, closed |-> boundary = << >>,
       components |-> {Component(r, V, fs, edges, boundary, roots, rims, bad, twisted) :
                         r \in {roots[v] : v \in V}}]

-----------------------------------------------------------------------------
(* What the numbers should be.  A set of vertices that no face leaves is a *)
(* union of components; a set of faces without boundary is a 2-cycle.      *)
Vertices == 1 .. Meshes[mesh].vertices

Around(fs) == {Fan(fs, e) : e \in Edges(fs)}
Cycles(fs) ==
  LET around == Around(fs)
  IN  {C \in SUBSET DOMAIN fs : \A fan \in around : Cardinality(C \cap fan) % 2 = 0}

(* b0 and b2 are the dimensions of the spaces of unions and of cycles.     *)
BettiAreExact(betti) ==
  /\ 2 ^ betti[1] = Cardinality(Whole(Vertices, FaceSets(faces)))
  /\ 2 ^ betti[3] = Cardinality(Cycles(faces))

(* Some of the faces can be turned so that no two wind an edge alike.      *)
Orientable(fs, some) ==
  LET meet == {fan \in Around(fs) : fan \subseteq some /\ Cardinality(fan) = 2}
      alike == {fan \in meet : \E i, j \in fan :
                  i # j /\ ToSet(Sides(fs[i])) \cap ToSet(Sides(fs[j])) # {}}
  IN  \E turned \in SUBSET some :
        \A fan \in meet : (Cardinality(fan \cap turned) = 1) <=> fan \in alike

(* The least union of faces with the vertex v in it.                       *)
Body(v) == CHOOSE B \in Whole(Vertices, FaceSets(faces)) :
             v \in B /\ \A U \in Whole(Vertices, FaceSets(faces)) : v \in U => B \subseteq U

(* What is said of the component c is true of its vertices and faces.      *)
ComponentIsExact(c) ==
  LET B == Body(c.root)
      mine == {i \in DOMAIN faces : Corners(faces[i]) \subseteq B}
      fans == {fan \in Around(faces) : fan \subseteq mine}
      rim == {e \in Edges(faces) : e \subseteq B /\ Cardinality(Fan(faces, e)) = 1}
  IN  /\ c.manifold <=> /\ \A v \in B : PathOrCycle(Link(faces, v))
                        /\ \A fan \in fans : Cardinality(fan) <= 2
      /\ c.manifold =>
           /\ c.orientable <=> Orientable(faces, mine)
           /\ 2 ^ c.loops = Cardinality(Whole(UNION rim, rim))
           /\ IF c.orientable THEN c.genus >= 0 /\ 2 * c.genus = 2 - c.loops - c.euler
                              ELSE c.crosscap > 0

(* b1 and b2 of a surface: two for a handle, one for a crosscap and for    *)
(* every rim but the first; one for a closed component.                    *)
RanksOf(c) == (IF c.orientable THEN 2 * c.genus ELSE c.crosscap)
              + (IF c.loops > 0 THEN c.loops - 1 ELSE 0)

(* The numbers that topology.py takes from union-find and a partial        *)
(* elimination (topology.py:103-146), singular complexes included, and its *)
(* classification of surfaces (docs/MATHEMATICS.md:44-58) are those of the *)
(* mesh, and the two, which are computed in different ways, agree.         *)
ReportIsExact ==
  faces # << >> =>
    LET report == Report(Vertices, faces)
    IN  /\ BettiAreExact(report.betti)
        /\ \A c \in report.components : ComponentIsExact(c)
        /\ report.manifold =>
             /\ report.betti[3] = Cardinality({c \in report.components : c.loops = 0})
             /\ report.betti[2] = MapThenSumSet(RanksOf, report.components)
=============================================================================
