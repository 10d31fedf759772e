------------------------------ MODULE MCBbQueue -------------------------------
(* Small queues: up to four children, data that may be queued more than once.   *)
EXTENDS BbQueue, TLC

CONSTANTS n1, n2, n3, n4

MCNode == {n1, n2, n3, n4}
MCPosition == -2 .. 5

\* The addresses malloc returns are interchangeable.
Symmetric == Permutations(MCNode)
===============================================================================
