------------------------------ MODULE MCHookTool ------------------------------
(* Small tools for HookTool: a plan of two functions, as PacketLogger has, one  *)
(* of two patches at most, and a client that makes one or two calls at a time.  *)
EXTENDS HookTool, TLC

CONSTANTS recv, encrypt, recvHook, encryptHook, here, there, t1, t2, p1, p2

MCFunction == {recv, encrypt}
MCHook == {recvHook, encryptHook}
MCPlan == << [function |-> encrypt, hook |-> encryptHook],
             [function |-> recv, hook |-> recvHook] >>
MCBases == {here, there}
MCBase == {here}
MCHookAddr == [hook : MCHook, base : MCBase]
MCHookAddrs == [hook : MCHook, base : MCBases]
MCPatch == {p1, p2}

\* Calls are interchangeable, and so are the addresses calloc returns.
Symmetric == Permutations({t1, t2}) \cup Permutations(MCPatch)
SymmetricPatches == Permutations(MCPatch)
===============================================================================
