------------------------------- MODULE MCUipTcp --------------------------------
(* One connection, slots with two handles each way and blocks of one or two*)
(* bytes; a host that has a few bytes to send, or none.                    *)
EXTENDS UipTcp

CONSTANTS c1, s1

NoBytes == [p \in Peers |-> 0]
ThreeBytes == [p \in Peers |-> 3]
===============================================================================
