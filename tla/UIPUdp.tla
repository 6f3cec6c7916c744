-------------------------------- MODULE UIPUdp --------------------------------
(***************************************************************************)
(* UDP sockets: UIPUdp.cpp over the UDP part of uip.c and the ARP table.   *)
(* UIPEthernetClass::tick, which every function of a socket calls first,   *)
(* is taken apart as in UipTcp: it takes a frame (UdpIn, ArpIn, Answer,    *)
(* and PacketIn, for pings and what is dropped) and polls each UDP         *)
(* connection when the periodic timer is due (Periodic).  Ticks come at any*)
(* time: with Overlapping = FALSE only not while a sketch is between       *)
(* beginPacket and endPacket, as in the examples, which write a datagram at*)
(* one go, nor does it then address another end while a datagram waits for *)
(* the answer to an ARP request.                                           *)
(*                                                                         *)
(* A block of the packet memory is one unit (allocBlock fails when none is *)
(* left), a datagram is who it is from and how much of it is still unread. *)
(***************************************************************************)
EXTENDS ArpTable, IpInput, FiniteSets

CONSTANTS
  Sockets,      \* the UIPUDP objects of the sketch
  NumConns,     \* UIP_UDP_CONNS
  Ports,        \* remote ports
  ServerPort,   \* the local port a sketch binds a socket to
  Blocks,       \* how many blocks the packet memory has room for
  MaxLen,       \* bound: the length of a datagram
  HostAddress,  \* uip_hostaddr
  Packets,      \* what IP packets arrive that are no datagrams
  Echo,         \* in place of a port, for a ping: it is none of Ports
  MaxArrivals,  \* bound: datagrams, other packets and ARP requests that arrive
  Overlapping   \* whether a sketch starts other things before a datagram is sent

ASSUME UdpAssumption ==
  /\ IsFiniteSet(Sockets) /\ NumConns \in Nat /\ Blocks \in Nat /\ MaxLen \in Nat \ {0} /\ MaxArrivals \in Nat
  /\ Overlapping \in BOOLEAN /\ 0 \notin Ports /\ Echo \notin Ports /\ ServerPort \notin {0}

VARIABLES
  udp_conns,  \* uip_udp_conns: lport (0 for an unused one), ripaddr, rport and whose it is
  sock,       \* per UIPUDP its connection and appdata
  free,       \* blocks left in the packet memory
  wire,       \* the datagrams the last step has put on the wire
  arrivals    \* how many frames have arrived unasked

udpVars == <<udp_conns, sock, free, wire, arrivals>>
vars == <<arpVars, udpVars>>

UdpConns == 1 .. NumConns
NoConn == 0
OwnPort(c) == -c   \* the ephemeral port that uip_udp_new gives connection c

(* uip_udp_userdata_t; packet_in, packet_next and packet_out are sets of at*)
(* most one block.  turned: the sketch has called beginPacket for another  *)
(* end while datagrams were unread.                                        *)
NewSocket == [conn |-> NoConn, in |-> {}, next |-> {}, out |-> {}, send |-> FALSE, turned |-> FALSE]
UnusedConn == [lport |-> 0, ripaddr |-> Unspecified, rport |-> 0]

Remote(c) == <<udp_conns[c].ripaddr, udp_conns[c].rport>>
FreeConns == {c \in UdpConns : udp_conns[c].lport = 0}

Init ==
  /\ ArpInit
  /\ udp_conns = [c \in UdpConns |-> UnusedConn]
  /\ sock = [s \in Sockets |-> NewSocket]
  /\ free = Blocks /\ wire = {} /\ arrivals = 0

(* A sketch is between beginPacket and endPacket; another call, and a tick,*)
(* comes only then if the sketches overlap them.                           *)
Writing(s) == sock[s].out # {} /\ ~sock[s].send
Callable == Overlapping \/ \A s \in Sockets : ~Writing(s)

(* The connection of a socket, or the one uip_udp_new finds for it, if any.*)
ConnFor(s) ==
  IF sock[s].conn # NoConn THEN {sock[s].conn} ELSE {c \in FreeConns : \A o \in FreeConns : c <= o}

(***************************************************************************)
(* The functions of a socket                                               *)
(***************************************************************************)
Begin(s, port) ==
  /\ Callable
  /\ \E c \in ConnFor(s) :
       /\ udp_conns' = [udp_conns EXCEPT ![c] = [(IF sock[s].conn = NoConn THEN UnusedConn ELSE @) EXCEPT !.lport = port]]
       /\ sock' = [sock EXCEPT ![s] = [@ EXCEPT !.conn = c]]
  /\ wire' = {} /\ UNCHANGED <<arpVars, free, arrivals>>

Bug_StopForgetsNext(s) ==
  /\ Callable /\ sock[s].conn # NoConn
  /\ udp_conns' = [udp_conns EXCEPT ![sock[s].conn] = [@ EXCEPT !.lport = 0]]
  /\ sock' = [sock EXCEPT ![s] = NewSocket]
  /\ free' = free + Cardinality(sock[s].in) + Cardinality(sock[s].out)
  /\ wire' = {} /\ UNCHANGED <<arpVars, arrivals>>

Stop(s) ==
  /\ Callable /\ sock[s].conn # NoConn
  /\ udp_conns' = [udp_conns EXCEPT ![sock[s].conn] = [@ EXCEPT !.lport = 0]]
  /\ sock' = [sock EXCEPT ![s] = NewSocket]
  /\ free' = free + Cardinality(sock[s].in) + Cardinality(sock[s].next) + Cardinality(sock[s].out)
  /\ wire' = {} /\ UNCHANGED <<arpVars, arrivals>>

(* beginPacket(ip, port): the remote end of the connection is set, also    *)
(* when the previous datagram is still there and no block is allocated.    *)
(* Without an address the connection keeps its remote end.                 *)
BeginPacket(s, ip, port) ==
  /\ Callable /\ ~Writing(s)
  /\ sock[s].conn = NoConn => ip # Unspecified
  /\ \E c \in ConnFor(s) :
       LET k == sock[s]
           remote == IF ip = Unspecified THEN Remote(c) ELSE <<ip, port>>
       IN  /\ Overlapping \/ k.out = {} \/ remote = Remote(c)
           /\ udp_conns' = [udp_conns EXCEPT ![c] =
                 [lport |-> IF k.conn = NoConn THEN OwnPort(c) ELSE @.lport, ripaddr |-> remote[1], rport |-> remote[2]]]
           /\ sock' = [sock EXCEPT ![s] =
                 [k EXCEPT !.conn = c,
                           !.turned = @ \/ (k.in \union k.next # {} /\ remote # Remote(c)),
                           !.out = IF @ = {} /\ free > 0 THEN {[to |-> <<ip, port>>, len |-> 0]} ELSE @]]
           /\ free' = IF k.out = {} /\ free > 0 THEN free - 1 ELSE free
  /\ wire' = {} /\ UNCHANGED <<arpVars, arrivals>>

(* write of one byte; endPacket has cut the block to what was written, so  *)
(* after it nothing more goes in.                                          *)
Write(s) ==
  /\ Writing(s) /\ \A d \in sock[s].out : d.len < MaxLen
  /\ sock' = [sock EXCEPT ![s] = [@ EXCEPT !.out = {[d EXCEPT !.len = @ + 1] : d \in sock[s].out}]]
  /\ wire' = {} /\ UNCHANGED <<arpVars, udp_conns, free, arrivals>>

(* uip_process(UIP_UDP_TIMER) with the poll of uipudp_appcall, and _send:  *)
(* a datagram whose next hop is not known is replaced by an ARP request    *)
(* (which takes a block for as long as it is sent) and stays for the next  *)
(* poll; an empty one is never sent.                                       *)
Poll(s, k) == \E c \in {k.conn} :
  IF ~k.send \/ \A d \in k.out : d.len = 0
    THEN sock' = [sock EXCEPT ![s] = k] /\ wire' = {} /\ UNCHANGED <<asked, free>>
  ELSE IF Resolved(udp_conns[c].ripaddr)
    THEN /\ sock' = [sock EXCEPT ![s] = [k EXCEPT !.out = {}, !.send = FALSE]]
         /\ wire' = {[to |-> Remote(c), card |-> CardFor(udp_conns[c].ripaddr), meant |-> d.to] : d \in k.out}
         /\ free' = free + 1 /\ UNCHANGED asked
  ELSE /\ sock' = [sock EXCEPT ![s] = k]
       /\ asked' = IF free > 0 THEN asked \union {Hop(udp_conns[c].ripaddr)} ELSE asked
       /\ wire' = {} /\ UNCHANGED free

EndPacket(s) ==
  /\ sock[s].conn # NoConn /\ sock[s].out # {} /\ (Callable \/ Writing(s))
  /\ Poll(s, [sock[s] EXCEPT !.send = TRUE])
  /\ UNCHANGED <<arp_table, announced, udp_conns, arrivals>>

(* packet_in is freed, or what is left of it, and packet_next takes its    *)
(* place.                                                                  *)
ParsePacket(s) ==
  /\ Callable
  /\ sock' = [sock EXCEPT ![s] = [@ EXCEPT !.in = sock[s].next, !.next = {}, !.turned = sock[s].turned /\ sock[s].next # {}]]
  /\ free' = free + Cardinality(sock[s].in)
  /\ wire' = {} /\ UNCHANGED <<arpVars, udp_conns, arrivals>>

Freed(s) == /\ sock' = [sock EXCEPT ![s] = [@ EXCEPT !.in = {}, !.turned = sock[s].turned /\ sock[s].next # {}]]
            /\ free' = free + Cardinality(sock[s].in)

(* read of n bytes: with the last byte the block goes.                     *)
Read(s, n) ==
  /\ Callable
  /\ \E d \in sock[s].in :
       IF n >= d.len THEN Freed(s)
       ELSE sock' = [sock EXCEPT ![s] = [@ EXCEPT !.in = {[d EXCEPT !.len = @ - n]}]] /\ UNCHANGED free
  /\ wire' = {} /\ UNCHANGED <<arpVars, udp_conns, arrivals>>

Flush(s) ==
  /\ Callable /\ Freed(s)
  /\ wire' = {} /\ UNCHANGED <<arpVars, udp_conns, arrivals>>

(***************************************************************************)
(* tick                                                                    *)
(***************************************************************************)
Bug_AnySender(c, ip, port, to) == udp_conns[c].lport = to

(* Whether a datagram is for connection c.                                 *)
Accepts(c, ip, port, to) ==
  /\ udp_conns[c].lport = to
  /\ udp_conns[c].rport \in {0, port}
  /\ udp_conns[c].ripaddr \in {Unspecified, Broadcast, ip}

(* uipudp_appcall with new data: kept as packet_next if that is empty, and *)
(* then the socket hears only this sender.                                 *)
Deliver(s, c, ip, port, n) ==
  IF sock[s].next # {} THEN UNCHANGED <<udp_conns, sock, free>>
  ELSE /\ udp_conns' = [udp_conns EXCEPT ![c] = [@ EXCEPT !.ripaddr = ip, !.rport = port]]
       /\ IF free > 0
            THEN sock' = [sock EXCEPT ![s] = [@ EXCEPT !.next = {[from |-> <<ip, port>>, len |-> n]}]] /\ free' = free - 1
            ELSE UNCHANGED <<sock, free>>

(* A datagram arrives: uip_arp_ipin, then the label udp_input.             *)
UdpIn(ip, port, eth, to, n) ==
  /\ Callable /\ arrivals < MaxArrivals /\ arrivals' = arrivals + 1
  /\ IpIn(ip, eth) /\ UNCHANGED asked
  /\ LET for == {c \in UdpConns : Accepts(c, ip, port, to)}
     IN  IF for = {} THEN UNCHANGED <<udp_conns, sock, free>>
         ELSE \E s \in Sockets : sock[s].conn = First(for) /\ Deliver(s, First(for), ip, port, n)
  /\ wire' = {}

(* Another IP packet arrives.  An echo request is answered with what it was*)
(* made into, if there is a block to send it from and its next hop is      *)
(* known, by uip_arp_ipin just before perhaps.                             *)
PacketIn(ip, eth, p) ==
  /\ Callable /\ arrivals < MaxArrivals /\ arrivals' = arrivals + 1
  /\ IpIn(ip, eth)
  /\ IF ~Answered(p, HostAddress, Unspecified) \/ free = 0 THEN wire' = {} /\ UNCHANGED asked
     ELSE IF Resolved(ip)' THEN
       /\ wire' = {[to |-> <<ip, Echo>>, card |-> CardFor(ip)', meant |-> <<ip, Echo>>, request |-> p, reply |-> EchoReply(p)]}
       /\ UNCHANGED asked
     ELSE wire' = {} /\ asked' = asked \union {Hop(ip)}
  /\ UNCHANGED <<udp_conns, sock, free>>

ArpIn(ip, eth, forUs) ==
  /\ Callable /\ arrivals < MaxArrivals /\ arrivals' = arrivals + 1
  /\ ArpRequestIn(ip, eth, forUs)
  /\ wire' = {} /\ UNCHANGED <<udp_conns, sock, free>>

Answer(ip, eth) ==
  /\ Callable /\ ArpReplyIn(ip, eth)
  /\ wire' = {} /\ UNCHANGED <<udp_conns, sock, free, arrivals>>

Bug_PeriodicAsksNot(s) ==
  /\ Callable /\ sock[s].conn # NoConn
  /\ Resolved(udp_conns[sock[s].conn].ripaddr) /\ Poll(s, sock[s])
  /\ UNCHANGED <<arp_table, announced, udp_conns, arrivals>>

(* uip_udp_periodic for the connection of a socket.                        *)
Periodic(s) ==
  /\ Callable /\ sock[s].conn # NoConn
  /\ Poll(s, sock[s])
  /\ UNCHANGED <<arp_table, announced, udp_conns, arrivals>>

Arrival ==
  \/ \E ip \in Stations, port \in Ports, eth \in Cards, n \in 1 .. MaxLen :
       \E to \in {ServerPort} \union {OwnPort(c) : c \in UdpConns} : UdpIn(ip, port, eth, to, n)
  \/ \E ip \in Stations, eth \in Cards, p \in Packets : PacketIn(ip, eth, p)
  \/ \E ip \in Senders, eth \in Cards, forUs \in BOOLEAN : ArpIn(ip, eth, forUs)

Answers == \E ip \in Stations, eth \in Cards : Answer(ip, eth)

Sketch == \E s \in Sockets :
  \/ Begin(s, ServerPort) \/ Stop(s) \/ Write(s) \/ EndPacket(s)
  \/ \E ip \in Senders \union {Broadcast}, port \in Ports : BeginPacket(s, ip, port)
  \/ ParsePacket(s) \/ Flush(s) \/ \E n \in 1 .. MaxLen : Read(s, n)

Next == Sketch \/ Arrival \/ Answers \/ \E s \in Sockets : Periodic(s)

(* The sketch keeps calling functions of the library, each of which starts *)
(* with a tick: ticks go on, also when a sketch is busy with datagrams over*)
(* and over; it ends a datagram it has begun.  Hosts answer in the end.    *)
Fairness ==
  /\ \A s \in Sockets : SF_vars(Periodic(s)) /\ WF_vars(Writing(s) /\ EndPacket(s))
  /\ \A ip \in Stations : SF_vars(\E eth \in Cards : Answer(ip, eth))

Spec == Init /\ [][Next]_vars /\ Fairness
-------------------------------------------------------------------------------
(***************************************************************************)
(* Properties                                                              *)
(***************************************************************************)
(* A datagram goes to the end its beginPacket has named, though it may     *)
(* have to wait for the answer to an ARP request, and datagrams arrive     *)
(* meanwhile that set the remote end of the connection to their sender.    *)
SentAsAddressed == \A f \in wire : f.meant[1] # Unspecified => f.to = f.meant

(* The frame goes to the card that the next hop has made known last,       *)
(* whatever was evicted, inserted and refreshed before.                    *)
ReachesNextHop == \A f \in wire : f.to[1] # Broadcast => f.card = announced[Hop(f.to[1])]

(* The answer to a ping is the message that came, and its checksum is right*)
(* if that of the request was, whatever the carry of the correction.       *)
EchoReturns ==
  \A f \in wire : f.meant[2] = Echo =>
    Agree(f.request.chk, f.reply.chk) /\ f.reply.dataOk = f.request.dataOk

(* Packets as they may arrive, of which pings fit into the packet buffer.  *)
Packet ==
  [vhl : Nat, total : Nat, len : Nat, fragment : BOOLEAN, checksumOk : BOOLEAN,
   dest : Stations \union {HostAddress}, proto : Nat, type : Nat, chk : Nat, dataOk : BOOLEAN]
PingsFit ==
  \A p \in Packets :
    p \in Packet /\ p.chk < 65536 /\ (Answered(p, HostAddress, Unspecified) => EthHeader + p.total <= UIP_BUFSIZE)

(* Every frame is the right one, for the right host, on the right card.    *)
FramesRight == SentAsAddressed /\ ReachesNextHop /\ EchoReturns

(* remoteIP and remotePort: "the host who sent the current incoming packet"*)
(* (UIPUdp.cpp:302), also while the next datagram has arrived already, as  *)
(* long as the sketch has not addressed another end itself.                *)
RemoteIsSender ==
  \A s \in Sockets : \A d \in sock[s].in \union sock[s].next : ~sock[s].turned => Remote(sock[s].conn) = d.from

(* No block of the packet memory is lost or counted twice, whichever calls *)
(* are made in which order and whenever a datagram arrives between them.   *)
BlocksKept ==
  free + Cardinality({s \in Sockets : sock[s].in # {}}) + Cardinality({s \in Sockets : sock[s].next # {}})
       + Cardinality({s \in Sockets : sock[s].out # {}}) = Blocks

(* A datagram that endPacket was called for is sent in the end (or stopped)*)
(* unless it is empty or the memory runs out again and again: an entry may *)
(* be evicted between the answer and the next poll, and is asked for anew. *)
Pending(s) == sock[s].send /\ \A d \in sock[s].out : d.len > 0
PendingSent == (\A s \in Sockets : Pending(s) ~> ~Pending(s)) \/ []<>(free = 0)
===============================================================================
