-------------------------------- MODULE TcpPeer --------------------------------
(***************************************************************************)
(* What uIP talks to: the hosts at the other end of its connections, and   *)
(* the network between.  All of it is external to the source.  A host      *)
(* makes one connection and keeps to TCP with one segment on its way at a  *)
(* time, as a receive window of one segment (UIP_RECEIVE_WINDOW) has it    *)
(* do.  The network loses segments, repeats those that are sent again, and *)
(* reorders them when more than one is under way.                          *)
(***************************************************************************)
EXTENDS Integers, Sequences, FiniteSets

CONSTANTS
  Clients,     \* hosts that connect to the server of the sketch
  Servers,     \* hosts the sketch connects to
  PeerBytes,   \* bound: how many bytes each host has to send, a function
  MaxSegment,  \* how many of them a segment holds at most
  Capacity,    \* bound: segments under way in one direction
  Resets       \* the hosts that may reset their connection

Peers == Clients \union Servers
Nobody == "nobody"

ASSUME PeerAssumption ==
  /\ Clients \intersect Servers = {} /\ Nobody \notin Peers
  /\ PeerBytes \in [Peers -> Nat] /\ MaxSegment \in Nat \ {0} /\ Capacity \in Nat \ {0} /\ Resets \subseteq Peers

VARIABLES
  toUs, toPeer,   \* the segments under way to and from each host
  peer,           \* the state of each host
  received        \* the bytes each host has received in order

netVars == <<toUs, toPeer, peer, received>>

(* Sequence numbers count from the first one of the connection: 0 is the   *)
(* SYN, k the k-th byte.  conn names our end of the connection that a      *)
(* segment belongs to, that is our initial sequence number.  A byte is the *)
(* pair of the host whose connection it belongs to and its number.         *)
Segment(conn, flags, seq, data, ack) == [conn |-> conn, flags |-> flags, seq |-> seq, data |-> data, ack |-> ack]

PeerInit ==
  /\ toUs = [p \in Peers |-> {}] /\ toPeer = [p \in Peers |-> {}]
  /\ peer = [p \in Peers |-> [st |-> "idle", conn |-> 0, una |-> 0, rcv |-> 0, eof |-> FALSE]]
  /\ received = [p \in Peers |-> <<>>]

(* What may be under way after a segment is sent: one is lost if there is  *)
(* no room.                                                                *)
Sent(under, m) ==
  IF m \in under \/ Cardinality(under) < Capacity THEN {under \union {m}}
  ELSE {under} \union {(under \ {lost}) \union {m} : lost \in under}

PeerSends(p, m) == \E under \in Sent(toUs[p], m) : toUs' = [toUs EXCEPT ![p] = under]

FromPeer(p, flags, data) ==
  Segment(peer'[p].conn, flags, IF "SYN" \in flags THEN 0 ELSE peer'[p].una, data, peer'[p].rcv)

(* A client's SYN, sent again until it is answered.                        *)
Connects(p) ==
  /\ p \in Clients /\ peer[p].st \in {"idle", "synsent"}
  /\ peer' = [peer EXCEPT ![p].st = "synsent"]
  /\ PeerSends(p, FromPeer(p, {"SYN"}, <<>>))
  /\ UNCHANGED <<toPeer, received>>

(* The next n bytes, the FIN behind the last, sent until acknowledged.     *)
SendsData(p, n, fin) ==
  /\ peer[p].st = "est"
  /\ peer[p].una + n <= PeerBytes[p] + 1 /\ (fin => peer[p].una + n = PeerBytes[p] + 1)
  /\ UNCHANGED <<toPeer, peer, received>>
  /\ PeerSends(p, FromPeer(p, IF fin THEN {"ACK", "FIN"} ELSE {"ACK"}, [i \in 1 .. n |-> <<p, peer[p].una + i - 1>>]))

ResetsConnection(p) ==
  /\ p \in Resets /\ peer[p].st = "est"
  /\ peer' = [peer EXCEPT ![p].st = "dead"]
  /\ PeerSends(p, FromPeer(p, {"RST"}, <<>>))
  /\ UNCHANGED <<toPeer, received>>

Loses(p) ==
  \/ \E m \in toUs[p] : toUs' = [toUs EXCEPT ![p] = @ \ {m}] /\ UNCHANGED <<toPeer, peer, received>>
  \/ \E m \in toPeer[p] : toPeer' = [toPeer EXCEPT ![p] = @ \ {m}] /\ UNCHANGED <<toUs, peer, received>>

(* A segment of ours arrives at host p, which answers whatever takes up    *)
(* sequence numbers.                                                       *)
Takes(p, m, new) == toPeer' = [toPeer EXCEPT ![p] = @ \ {m}] /\ peer' = [peer EXCEPT ![p] = new]
Answers(p, flags) == PeerSends(p, FromPeer(p, flags, <<>>))

IsSyn(p, m) == p \in Servers /\ peer[p].st \in {"idle", "synrcvd"} /\ m.flags = {"SYN"}
IsSynAck(p, m) == peer[p].st = "synsent" /\ m.flags = {"SYN", "ACK"} /\ m.ack = 1
IsReset(p, m) == "RST" \in m.flags /\ m.conn = peer[p].conn
IsForConnection(p, m) ==
  /\ m.conn = peer[p].conn /\ "RST" \notin m.flags /\ "ACK" \in m.flags
  /\ peer[p].st = "est" \/ (peer[p].st = "synrcvd" /\ m.ack = 1)

GetsSyn(p, m) ==
  /\ IsSyn(p, m)
  /\ Takes(p, m, [peer[p] EXCEPT !.st = "synrcvd", !.conn = m.conn, !.rcv = 1])
  /\ Answers(p, {"SYN", "ACK"})
  /\ UNCHANGED received

GetsSynAck(p, m) ==
  /\ IsSynAck(p, m)
  /\ Takes(p, m, [peer[p] EXCEPT !.st = "est", !.conn = m.conn, !.una = 1, !.rcv = 1])
  /\ Answers(p, {"ACK"})
  /\ UNCHANGED received

GetsReset(p, m) ==
  /\ IsReset(p, m)
  /\ Takes(p, m, [peer[p] EXCEPT !.st = "dead"])
  /\ UNCHANGED <<toUs, received>>

GetsSegment(p, m) ==
  /\ IsForConnection(p, m)
  /\ LET inOrder == m.seq = peer[p].rcv /\ "SYN" \notin m.flags
         fin == IF "FIN" \in m.flags THEN 1 ELSE 0
     IN  /\ Takes(p, m, [peer[p] EXCEPT
                           !.st = "est",
                           !.una = IF m.ack > @ THEN m.ack ELSE @,
                           !.rcv = IF inOrder THEN @ + Len(m.data) + fin ELSE @,
                           !.eof = @ \/ (inOrder /\ fin = 1)])
         /\ received' = [received EXCEPT ![p] = IF inOrder THEN @ \o m.data ELSE @]
  /\ IF m.data # <<>> \/ m.flags \intersect {"SYN", "FIN"} # {} THEN Answers(p, {"ACK"}) ELSE UNCHANGED toUs

GetsOther(p, m) ==
  /\ ~(IsSyn(p, m) \/ IsSynAck(p, m) \/ IsReset(p, m) \/ IsForConnection(p, m))
  /\ Takes(p, m, peer[p])
  /\ UNCHANGED <<toUs, received>>

Gets(p) == \E m \in toPeer[p] :
  GetsSyn(p, m) \/ GetsSynAck(p, m) \/ GetsReset(p, m) \/ GetsSegment(p, m) \/ GetsOther(p, m)

PeerSendsData(p) == \E n \in 0 .. MaxSegment, fin \in BOOLEAN : n + (IF fin THEN 1 ELSE 0) > 0 /\ SendsData(p, n, fin)

PeerStep(p) == Connects(p) \/ PeerSendsData(p) \/ ResetsConnection(p) \/ Loses(p) \/ Gets(p)
===============================================================================
