---------------------------- MODULE MCDocuments ----------------------------
(***************************************************************************)
(* Four parts that share no state, each the work of one command at a       *)
(* time: the evaluation ledger, project files, the topology of a mesh and  *)
(* the nodes of a CAD program.  A behaviour is one of one of them.         *)
(***************************************************************************)
EXTENDS MCEvaluationLedger, ProjectHistory, MeshTopology, ProgramTree

Cutout(id, at) == [id |-> id, at |-> at]
NoLid == [kind |-> "none", clearance |-> 0]

(* One without a lid, one with a lid and a cutout in it.                   *)
TwoStarts ==
  {[wall |-> 1, lid |-> NoLid, cutouts |-> <<Cutout("a", 1)>>],
   [wall |-> 2, lid |-> [kind |-> "friction", clearance |-> 1],
    cutouts |-> <<Cutout("t", 0), Cutout("a", 1)>>]}

(* The last one names a cutout twice.                                      *)
FourLists == {<< >>, <<Cutout("a", 0)>>, <<Cutout("a", 1), Cutout("t", 0)>>,
              <<Cutout("a", 0), Cutout("a", 1)>>}

NineInstructions ==
  {[op |-> "wall", value |-> 1], [op |-> "wall", value |-> 2],
   [op |-> "lid.clearance", value |-> 2],
   [op |-> "add", id |-> "a", value |-> 0], [op |-> "add", id |-> "t", value |-> 0],
   [op |-> "move", id |-> "a", value |-> 0], [op |-> "move", id |-> "a", value |-> 1],
   [op |-> "remove", id |-> "a"], [op |-> "remove", id |-> "t"]}

(* Two tetrahedra on a common face, of which any triangles may be missing  *)
(* (among what is left, discs, fans and a Moebius band); the projective    *)
(* plane; two tetrahedra that touch in a corner; an annulus that is closed *)
(* to a sphere with two points made one; a torus.                          *)
FiveMeshes == [
  tetrahedra |-> [vertices |-> 5, skips |-> 9, flips |-> 2, triangles |->
    << <<1,2,3>>, <<4,2,1>>, <<1,3,4>>, <<3,2,4>>, <<2,1,5>>, <<3,1,5>>, <<5,3,2>>,
       <<4,3,5>>, <<4,5,1>> >>],
  projective |-> [vertices |-> 6, skips |-> 1, flips |-> 1, triangles |->
    << <<1,2,3>>, <<1,3,4>>, <<1,4,5>>, <<1,5,6>>, <<1,6,2>>, <<2,3,5>>, <<3,4,6>>,
       <<4,5,2>>, <<5,6,3>>, <<6,2,4>> >>],
  corner |-> [vertices |-> 7, skips |-> 1, flips |-> 1, triangles |->
    << <<1,2,3>>, <<4,2,1>>, <<1,3,4>>, <<3,2,4>>, <<1,5,6>>, <<7,5,1>>, <<1,6,7>>,
       <<6,5,7>> >>],
  pinched |-> [vertices |-> 7, skips |-> 0, flips |-> 1, triangles |->
    << <<2,3,5>>, <<3,6,5>>, <<3,4,6>>, <<4,7,6>>, <<4,2,7>>, <<2,5,7>>, <<3,2,1>>,
       <<4,3,1>>, <<2,4,1>>, <<5,6,1>>, <<6,7,1>>, <<7,5,1>> >>],
  torus |-> [vertices |-> 7, skips |-> 0, flips |-> 0, triangles |->
    << <<1,2,4>>, <<2,3,5>>, <<3,4,6>>, <<4,5,7>>, <<5,6,1>>, <<6,7,2>>, <<7,1,3>>,
       <<1,4,3>>, <<2,5,4>>, <<3,6,5>>, <<4,7,6>>, <<5,1,7>>, <<6,2,1>>, <<7,3,2>> >>]]

Plain == [half |-> <<1, 1>>, round |-> FALSE, move |-> <<0, 0>>, turn |-> 0, scale |-> <<1, 1>>]
Part(id, op, children, geometry) == [id |-> id, op |-> op, children |-> children] @@ geometry

(* Any three nodes with at most two children each, of which the second may *)
(* bear the name of the first: chains, loops, shared and missing nodes.    *)
Lists(S) == {<< >>} \cup {<<a>> : a \in S} \cup {<<a, b>> : a \in S, b \in S}
AnyPart(id) ==
  {Part(id, "leaf", c, Plain) : c \in {<< >>, <<2>>}} \cup {Part(id, "difference", <<3>>, Plain)}
  \cup {Part(id, "union", c, Plain) : c \in {l \in Lists(1 .. 3) : Len(l) = 2 => l[1] <= l[2]}}

(* A box or a ball, and another one beside it, in it or across it; a group *)
(* of the two, turned and scaled; a group of that and of a small box.      *)
Leaves(id, moves) ==
  {Part(id, "leaf", << >>, [Plain EXCEPT !.half = <<2, 1>>, !.move = v]) : v \in moves}
  \cup {Part(id, "leaf", << >>, [Plain EXCEPT !.half = <<2, 2>>, !.round = TRUE, !.turn = 1])}
Grouped(id, children, turns, scales) ==
  {Part(id, op, c, [Plain EXCEPT !.move = <<1, 0>>, !.turn = t, !.scale = s]) :
     op \in {"union", "difference", "intersection"}, c \in children, t \in turns, s \in scales}

TwoDrafts == [
  hierarchy |-> [nodes |-> <<AnyPart(1), AnyPart(2) \cup {Part(1, "leaf", << >>, Plain)}, AnyPart(3)>>,
                 roots |-> Lists(1 .. 3) \ {<< >>}, depth |-> 2, span |-> 1],
  geometry |-> [nodes |-> <<Leaves(1, {<<0, 0>>}), Leaves(2, {<<0, 0>>, <<3, 1>>, <<4, 0>>}),
                            Grouped(3, {<<1, 2>>}, {0, 1}, {<<1, 1>>, <<-1, 2>>}),
                            {Part(4, "leaf", << >>, Plain)},
                            Grouped(5, {<<3, 4>>, <<4, 3>>}, {2}, {<<1, 1>>})>>,
                roots |-> {<<3, 4>>, <<5>>}, depth |-> 3, span |-> 8]]

DocumentsInit == Init /\ HistoryInit /\ MeshInit /\ ProgramInit

DocumentsNext ==
  \/ HistoryInit /\ MeshInit /\ ProgramInit /\ Next /\ UNCHANGED <<historyVars, meshVars, programVars>>
  \/ Init /\ MeshInit /\ ProgramInit /\ HistoryNext /\ UNCHANGED <<vars, meshVars, programVars>>
  \/ Init /\ HistoryInit /\ ProgramInit /\ MeshNext /\ UNCHANGED <<vars, historyVars, programVars>>
  \/ Init /\ HistoryInit /\ MeshInit /\ ProgramNext /\ UNCHANGED <<vars, historyVars, meshVars>>

DocumentsSpec == DocumentsInit /\ [][DocumentsNext]_<<vars, historyVars, meshVars, programVars>>
=============================================================================
