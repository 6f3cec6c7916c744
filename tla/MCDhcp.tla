-------------------------------- MODULE MCDhcp --------------------------------
(* Dhcp with two servers that grant four seconds, without T1.   *)
EXTENDS Dhcp

CONSTANTS c1, c2

MCOptions == {[lease |-> 4, t1 |-> 0, t2 |-> 3]}
===============================================================================
