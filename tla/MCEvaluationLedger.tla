------------------------- MODULE MCEvaluationLedger -------------------------
(* Two samples; a pass, nothing measured, and a pass that its own counts   *)
(* contradict.                                                             *)
EXTENDS EvaluationLedger

TwoSamples == <<"a", "b">>
Endpoints == {[passed |-> TRUE, satisfied |-> 2, total |-> 2],
              [passed |-> FALSE, satisfied |-> 0, total |-> 0],
              [passed |-> TRUE, satisfied |-> 1, total |-> 2]}
=============================================================================
