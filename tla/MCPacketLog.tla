------------------------------ MODULE MCPacketLog -----------------------------
(* PacketLog with model values for the threads and the files.                   *)
EXTENDS PacketLog
===============================================================================
