---------------------------- MODULE ProgramTree ----------------------------
(***************************************************************************)
(* validate_program of src/core/ir.py: whether the nodes of a canonical    *)
(* CAD program are trees under its roots, found with one depth-first walk; *)
(* and the bounds that the geometry checks take from them.  They are       *)
(* checked against definitions by levels and by the cells of a solid.      *)
(*                                                                         *)
(* A behaviour reads a program node by node, then its roots, and walks     *)
(* down from them, one turn of the loop a step.  Space is a plane of unit  *)
(* cells, a rotation a number of quarter turns.  Parameters, identifiers   *)
(* and metadata are well formed; constraints are left out.                 *)
(***************************************************************************)
EXTENDS Integers, SequencesExt

CONSTANTS
  Drafts       \* by name: for each place in the file the nodes that may be
               \* there, the lists of roots, MAX_HIERARCHY_DEPTH, and how far
               \* from the origin cells are looked at (span)

Axes == 1 .. 2
Ops == {"leaf", "union", "difference", "intersection"}

(* A node as program_from_dict makes it and _primitive_errors and the      *)
(* check of its transform pass it.  A ball of one cell would be empty.     *)
WellFormed(node) ==
  /\ node.op \in Ops /\ node.children \in Seq(ToSet(node.children))
  /\ node.round \in BOOLEAN
  /\ \A a \in Axes : node.half[a] \in Nat /\ node.half[a] > IF node.round THEN 1 ELSE 0
  /\ node.move \in Int \X Int /\ node.turn \in 0 .. 3
  /\ \A a \in Axes : node.scale[a] \in Int \ {0}

ASSUME DraftsAssumption ==
  /\ "none" \notin DOMAIN Drafts
  /\ \A d \in DOMAIN Drafts :
       /\ Drafts[d].depth \in Nat \ {0} /\ Drafts[d].span \in Nat
       /\ Drafts[d].nodes \in Seq(ToSet(Drafts[d].nodes))
       /\ \A i \in 1 .. Len(Drafts[d].nodes) : \A node \in Drafts[d].nodes[i] : WellFormed(node)
       /\ \A roots \in Drafts[d].roots : roots \in Seq(ToSet(roots))

VARIABLES
  draft,       \* the program being read, or "none"
  program,     \* its nodes and roots so far
  walk         \* the walk: how many roots it has begun, its stack, visiting
               \* and visited, and whether it has reported the two errors
programVars == <<draft, program, walk>>

ProgramInit ==
  /\ draft = "none" /\ program = [nodes |-> << >>, roots |-> << >>]
  /\ walk = [begun |-> 0, stack |-> << >>, visiting |-> {}, visited |-> {},
             cycle |-> FALSE, tooDeep |-> FALSE]

StartDraft == draft = "none" /\ draft' \in DOMAIN Drafts /\ UNCHANGED <<program, walk>>

ReadNode ==
  /\ draft # "none" /\ program.roots = << >>
  /\ Len(program.nodes) < Len(Drafts[draft].nodes)
  /\ \E node \in Drafts[draft].nodes[Len(program.nodes) + 1] :
       program' = [program EXCEPT !.nodes = Append(@, node)]
  /\ UNCHANGED <<draft, walk>>

ReadRoots ==
  /\ draft # "none" /\ program.roots = << >>
  /\ \E roots \in Drafts[draft].roots : program' = [program EXCEPT !.roots = roots]
  /\ UNCHANGED <<draft, walk>>
-----------------------------------------------------------------------------
(* node_map: of two nodes with one id the first counts.                    *)
KnownIds(nodes) == {nodes[i].id : i \in DOMAIN nodes}
NodeOf(nodes, id) == nodes[CHOOSE i \in DOMAIN nodes :
                             nodes[i].id = id /\ \A j \in 1 .. i - 1 : nodes[j].id # id]
ChildrenOf(nodes, id) == NodeOf(nodes, id).children

(* The places in which a node is given as a child.                         *)
Places(nodes, id) ==
  UNION {{<<parent, i>> : i \in {k \in DOMAIN ChildrenOf(nodes, parent) :
                                   ChildrenOf(nodes, parent)[k] = id}} :
         parent \in KnownIds(nodes)}

(* The slip of not telling the path from what has been left.               *)
VisitMarksOnce(nodes, limit, s) ==
  LET top == Last(s.stack)
      rest == [s EXCEPT !.stack = Front(@)]
      below == [i \in DOMAIN ChildrenOf(nodes, top.id) |->
                  [id |-> ChildrenOf(nodes, top.id)[i], exiting |-> FALSE, depth |-> top.depth + 1]]
  IN  IF top.id \notin KnownIds(nodes) \/ top.id \in s.visited THEN rest
      ELSE IF top.depth > limit THEN [rest EXCEPT !.tooDeep = TRUE]
      ELSE [rest EXCEPT !.visited = @ \cup {top.id}, !.stack = @ \o Reverse(below)]

(* One turn of the loop over the stack.                                    *)
Visit(nodes, limit, s) ==
  LET top == Last(s.stack)
      rest == [s EXCEPT !.stack = Front(@)]
      below == [i \in DOMAIN ChildrenOf(nodes, top.id) |->
                  [id |-> ChildrenOf(nodes, top.id)[i], exiting |-> FALSE, depth |-> top.depth + 1]]
  IN  IF top.id \notin KnownIds(nodes) THEN rest
      ELSE IF top.exiting THEN [rest EXCEPT !.visiting = @ \ {top.id}, !.visited = @ \cup {top.id}]
      ELSE IF top.id \in s.visited THEN rest
      ELSE IF top.id \in s.visiting THEN [rest EXCEPT !.cycle = TRUE]
      ELSE IF top.depth > limit THEN [rest EXCEPT !.tooDeep = TRUE]
      ELSE [rest EXCEPT !.visiting = @ \cup {top.id},
                        !.stack = Append(@, [top EXCEPT !.exiting = TRUE]) \o Reverse(below)]

(* The loop over the roots and the one over the stack.                     *)
BeginRoot ==
  /\ walk.stack = << >> /\ walk.begun < Len(program.roots)
  /\ walk' = [walk EXCEPT !.begun = @ + 1,
                          !.stack = <<[id |-> program.roots[walk.begun + 1],
                                       exiting |-> FALSE, depth |-> 1]>>]
  /\ UNCHANGED <<draft, program>>

TakeTop ==
  /\ walk.stack # << >>
  /\ walk' = Visit(program.nodes, Drafts[draft].depth, walk)
  /\ UNCHANGED <<draft, program>>

ProgramNext == StartDraft \/ ReadNode \/ ReadRoots \/ BeginRoot \/ TakeTop
ProgramSpec == ProgramInit /\ [][ProgramNext]_programVars

WalkEnded == walk.stack = << >> /\ walk.begun = Len(program.roots)
-----------------------------------------------------------------------------
Groups(nodes) == {id \in KnownIds(nodes) : NodeOf(nodes, id).op # "leaf"}

(* The codes of the errors about the hierarchy of p, walked as w tells.    *)
Faults(p, w) ==
  LET known == KnownIds(p.nodes)
      roots == ToSet(p.roots)
  IN  [duplicate_id |-> Cardinality(known) # Len(p.nodes),
       leaf_has_children |-> \E id \in known \ Groups(p.nodes) : ChildrenOf(p.nodes, id) # << >>,
       empty_group |-> \E id \in Groups(p.nodes) : ChildrenOf(p.nodes, id) = << >>,
       invalid_difference |-> \E id \in known : /\ NodeOf(p.nodes, id).op = "difference"
                                                /\ Len(ChildrenOf(p.nodes, id)) < 2,
       missing_reference |-> \/ \E id \in known : ~ (ToSet(ChildrenOf(p.nodes, id)) \subseteq known)
                             \/ ~ (roots \subseteq known),
       multiple_parents |-> \E id \in known : Cardinality(Places(p.nodes, id)) > 1,
       root_has_parent |-> \E id \in roots \cap known : Places(p.nodes, id) # {},
       duplicate_root |-> Cardinality(roots) # Len(p.roots),
       missing_root |-> p.roots = << >>,
       cycle |-> w.cycle, hierarchy_too_deep |-> w.tooDeep,
       unreachable_node |-> known # w.visited]

(* hierarchy_is_safe and geometry_is_safe: what lets the recursive         *)
(* functions on nodes be called.                                           *)
GeometryIsSafe(f) ==
  ~ (f.cycle \/ f.duplicate_id \/ f.hierarchy_too_deep \/ f.missing_reference
     \/ f.multiple_parents \/ f.unreachable_node \/ f.empty_group \/ f.invalid_difference)
-----------------------------------------------------------------------------
(* Bounds: the lowest cell and the one after the highest, by axis.         *)
Size(v) == IF v < 0 THEN 0 - v ELSE v

(* A quarter turn of a vector; n of them.                                  *)
Turned(v, n) == CASE n = 0 -> v [] n = 1 -> <<0 - v[2], v[1]>>
                  [] n = 2 -> <<0 - v[1], 0 - v[2]>> [] n = 3 -> <<v[2], 0 - v[1]>>

(* _transform_bounds, in twice the center and twice the half; of bounds    *)
(* that are empty the half is negative, and stays so.                      *)
TransformBounds(b, node) ==
  LET center == Turned([a \in Axes |-> (b.lower[a] + b.upper[a]) * node.scale[a]], node.turn)
      half == [a \in Axes |-> (b.upper[a] - b.lower[a]) * Size(node.scale[a])]
      turned == IF node.turn % 2 = 0 THEN half ELSE <<half[2], half[1]>>
  IN  [lower |-> [a \in Axes |-> (center[a] - turned[a]) \div 2 + node.move[a]],
       upper |-> [a \in Axes |-> (center[a] + turned[a]) \div 2 + node.move[a]]]

Least(bounds, side) == [a \in Axes |-> Min({bounds[i][side][a] : i \in DOMAIN bounds})]
Greatest(bounds, side) == [a \in Axes |-> Max({bounds[i][side][a] : i \in DOMAIN bounds})]

(* program_node_bounds: of one node, from those of its children; of all    *)
(* that are known.                                                         *)
BoundsOf(node, below) ==
  TransformBounds(
    CASE node.op = "leaf" -> [lower |-> [a \in Axes |-> 0 - node.half[a]],
                              upper |-> [a \in Axes |-> node.half[a]]]
      [] node.op = "difference" -> below[1]
      [] node.op = "intersection" -> [lower |-> Greatest(below, "lower"), upper |-> Least(below, "upper")]
      [] node.op = "union" -> [lower |-> Least(below, "lower"), upper |-> Greatest(below, "upper")],
    node)

NodeBounds(nodes) ==
  LET bounds[id \in KnownIds(nodes)] ==
        BoundsOf(NodeOf(nodes, id), [i \in DOMAIN ChildrenOf(nodes, id) |->
                                       bounds[ChildrenOf(nodes, id)[i]]])
  IN  bounds

ProgramBounds(p) ==
  LET below == [i \in DOMAIN p.roots |-> NodeBounds(p.nodes)[p.roots[i]]]
  IN  [lower |-> Least(below, "lower"), upper |-> Greatest(below, "upper")]

(* The slip of trusting a difference whose first part is exact.            *)
ExactInDifference(nodes) ==
  LET exact[id \in KnownIds(nodes)] ==
        LET node == NodeOf(nodes, id)
        IN  \/ node.op = "leaf"
            \/ node.op = "union" /\ \A c \in ToSet(node.children) : exact[c]
            \/ node.op = "difference" /\ exact[node.children[1]]
  IN  exact

(* program_bounds_are_exact; quarter turns preserve the axes.              *)
Exact(nodes) ==
  LET exact[id \in KnownIds(nodes)] ==
        LET node == NodeOf(nodes, id)
        IN  \/ node.op = "leaf"
            \/ node.op = "union" /\ \A c \in ToSet(node.children) : exact[c]
  IN  exact

EmptyIntersection(nodes, id) ==
  LET b == NodeBounds(nodes)[id]
  IN  NodeOf(nodes, id).op = "intersection" /\ \E a \in Axes : b.lower[a] >= b.upper[a]

ProgramIsValid(p, w) ==
  LET f == Faults(p, w)
  IN  /\ \A code \in DOMAIN f : ~ f[code]
      /\ \A id \in KnownIds(p.nodes) : ~ EmptyIntersection(p.nodes, id)
-----------------------------------------------------------------------------
(* The nodes have levels, from the roots down to the limit, every node but *)
(* a root in one place and one level below it.                             *)
IsForest(p, limit) ==
  LET known == KnownIds(p.nodes)
      children(id) == ChildrenOf(p.nodes, id)
  IN  /\ p.roots # << >> /\ IsInjective(p.roots) /\ ToSet(p.roots) \subseteq known
      /\ IsInjective([i \in DOMAIN p.nodes |-> p.nodes[i].id])
      /\ \E level \in [known -> 1 .. limit] : \A id \in known :
           LET above == {q \in known : Contains(children(q), id)}
           IN  IF Contains(p.roots, id) THEN level[id] = 1 /\ above = {}
               ELSE \E q \in known : above = {q} /\ level[id] = level[q] + 1
      /\ \A id \in known : LET node == NodeOf(p.nodes, id) IN
           /\ IsInjective(node.children) /\ ToSet(node.children) \subseteq known
           /\ node.op = "leaf" <=> node.children = << >>
           /\ node.op = "difference" => Len(node.children) >= 2

(* The walk and the counts accept exactly the forests within the limit     *)
(* (ir.py:361-430), and whatever else is wrong with a program, recursion   *)
(* over its nodes is only begun where it ends: no way down leads back, and *)
(* every child is there (ir.py:434, tests/test_ir.py:224).  How far down   *)
(* is bounded only if no root has a parent: a node that is visited first   *)
(* as a root is not visited again on a longer way.                         *)
HierarchyIsExact ==
  draft # "none" /\ WalkEnded =>
    LET limit == Drafts[draft].depth
        f == Faults(program, walk)
        known == KnownIds(program.nodes)
    IN  /\ (\A code \in DOMAIN f : ~ f[code]) <=> IsForest(program, limit)
        /\ GeometryIsSafe(f) =>
             \E level \in [known -> 1 .. IF f.root_has_parent THEN Cardinality(known) ELSE limit] :
               \A id \in known : \A c \in ToSet(ChildrenOf(program.nodes, id)) :
                 c \in known /\ level[c] > level[id]

(* The cell c, seen from within the transform of a node.                   *)
Within(node, c) ==
  LET center == Turned([a \in Axes |-> 2 * (c[a] - node.move[a]) + 1], (4 - node.turn) % 4)
  IN  [a \in Axes |-> (IF node.scale[a] < 0 THEN 0 - center[a] ELSE center[a])
                        \div (2 * Size(node.scale[a]))]

(* The cells of each node's solid.  A ball lacks its corners.              *)
Solid(nodes) ==
  LET solid[id \in KnownIds(nodes)] ==
        LET node == NodeOf(nodes, id)
            part == [i \in DOMAIN node.children |-> solid[node.children[i]]]
            full(d) == \A a \in Axes : 0 - node.half[a] <= d[a] /\ d[a] < node.half[a]
            corner(d) == \A a \in Axes : d[a] \in {0 - node.half[a], node.half[a] - 1}
            has(d) ==
              CASE node.op = "leaf" -> full(d) /\ (node.round => ~ corner(d))
                [] node.op = "union" -> \E i \in DOMAIN part : d \in part[i]
                [] node.op = "intersection" -> \A i \in DOMAIN part : d \in part[i]
                [] node.op = "difference" -> /\ d \in part[1]
                                             /\ \A i \in DOMAIN part \ {1} : d \notin part[i]
        IN  {c \in Int \X Int : has(Within(node, c))}
  IN  solid

Cells == LET span == 0 - Drafts[draft].span .. Drafts[draft].span IN span \X span

(* No solid reaches beyond its bounds; where they are called exact it      *)
(* reaches all of them, which is what a compiled mesh is held to           *)
(* (generation.py:155, ir.py:639); and an intersection that is refused     *)
(* really is empty (ir.py:463).                                            *)
BoundsAreTrue ==
  draft # "none" /\ WalkEnded /\ GeometryIsSafe(Faults(program, walk)) =>
    LET solid == Solid(program.nodes)
    IN  /\ \A id \in KnownIds(program.nodes) :
             EmptyIntersection(program.nodes, id) => \A c \in Cells : c \notin solid[id]
        /\ ProgramIsValid(program, walk) =>
             LET b == ProgramBounds(program)
                 box == (b.lower[1] .. b.upper[1] - 1) \X (b.lower[2] .. b.upper[2] - 1)
                 inside(c) == \E id \in ToSet(program.roots) : c \in solid[id]
             IN  /\ \A c \in Cells : inside(c) => c \in box
                 /\ (\A id \in ToSet(program.roots) : Exact(program.nodes)[id]) =>
                      \A a \in Axes : /\ \E c \in box : inside(c) /\ c[a] = b.lower[a]
                                      /\ \E c \in box : inside(c) /\ c[a] = b.upper[a] - 1
=============================================================================
