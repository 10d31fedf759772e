------------------------------ MODULE MCBbHeader ------------------------------
(* Three children and the positions in front of, between and behind them are      *)
(* enough to meet each statement of the header.                                  *)
EXTENDS BbHeader, TLC

CONSTANTS n1, n2, n3

MCNode == {n1, n2, n3}
MCPosition == 0 .. 2
Symmetric == Permutations(MCNode)
===============================================================================
