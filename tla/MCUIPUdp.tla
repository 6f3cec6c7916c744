-------------------------------- MODULE MCUIPUdp --------------------------------
(* UIPUdp with one socket, and an ARP table smaller than the network.      *)
EXTENDS UIPUdp

CONSTANTS h1, h2, far, card1, card2, us

MCStations == {h1, h2, far}
MCLocal == {h1, h2}
MCPorts == {1}

(* Pings whose checksum makes the correction carry or not, and packets that*)
(* are dropped, each for a reason of its own.                              *)
Ping(chk) == [vhl |-> 69, total |-> 84, len |-> 84, fragment |-> FALSE, checksumOk |-> TRUE,
              dest |-> us, proto |-> UIP_PROTO_ICMP, type |-> ICMP_ECHO, chk |-> chk, dataOk |-> TRUE]
MCPackets ==
  {Ping(65526), Ping(65527), Ping(65535),
   [Ping(0) EXCEPT !.vhl = 70], [Ping(0) EXCEPT !.total = 85], [Ping(0) EXCEPT !.fragment = TRUE],
   [Ping(0) EXCEPT !.checksumOk = FALSE], [Ping(0) EXCEPT !.dest = h1], [Ping(0) EXCEPT !.proto = 2],
   [Ping(0) EXCEPT !.type = ICMP_ECHO_REPLY]}

ASSUME PingsAreSmall == PingsFit
===============================================================================
