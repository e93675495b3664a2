-------------------------------- MODULE MCDSDV --------------------------------
(* Networks for TLC: a triangle with a long side, and a line of four.      *)
EXTENDS DSDV, TLC

Triangle == ({1, 2} :> 1) @@ ({1, 3} :> 1) @@ ({2, 3} :> 3)
Line == ({1, 2} :> 1) @@ ({2, 3} :> 1) @@ ({3, 4} :> 1)

\* The short side breaks and comes back, or router 3 is cut off altogether.
TwoEnds == {<<{1, 3}, MAX_COST>>, <<{1, 3}, 1>>, <<{2, 3}, MAX_COST>>}
MiddleBreaks == {<<{2, 3}, MAX_COST>>}
=============================================================================
