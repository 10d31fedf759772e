--------------------------- MODULE MCPacketHandlers ---------------------------
(* Finite instances of PacketHandlers: model values, two declared handler hooks *)
(* instead of seven.                                                            *)
EXTENDS PacketHandlers, TLC

CONSTANTS h0, h1

MCFunction == Handler \cup {Recv}
MCHookAddr == {RecvHook, NullHook, h0, h1}
MCAdder == Thread
MCQueue == {"met", "patches"}
MCDeclared == <<h0, h1>>
Symmetric == Permutations(Thread) \cup Permutations(Handler)
===============================================================================
