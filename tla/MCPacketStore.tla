---------------------------- MODULE MCPacketStore -----------------------------
(* PacketStore on a pool where blocks touch, move and are reused.          *)
EXTENDS PacketStore

MCRequests == 1 .. 2
MCBytes == {0, 1}
===============================================================================
