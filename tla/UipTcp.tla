--------------------------------- MODULE UipTcp --------------------------------
(***************************************************************************)
(* The TCP side of UIPEthernet: uip.c's connections, each step with the    *)
(* call of uipclient_appcall in it, the sketch that reads, writes, connects*)
(* and stops, and the hosts at the other end.  UIPEthernetClass::tick is   *)
(* taken apart: it puts one frame into uip_process (Input) and then goes   *)
(* through the connections (Timer); every operation of the sketch calls it *)
(* first.  Ticks come at any time, a retransmission timer may run out at   *)
(* any tick, and a host's window is never smaller than a block.            *)
(***************************************************************************)
EXTENDS UIPClient, TcpPeer

CONSTANTS
  MaxRtx, MaxSynRtx,   \* UIP_MAXRTX, UIP_MAXSYNRTX
  Blocks,              \* how many blocks the packet memory has room for
  MaxWrites,           \* bound: bytes the sketch writes
  MaxOpens             \* bound: connections that are opened

ASSUME TcpAssumption ==
  MaxRtx \in Nat /\ MaxSynRtx \in Nat /\ Blocks \in Nat /\ MaxWrites \in Nat /\ MaxOpens \in Nat

VARIABLES
  conn,        \* uip_conns
  slot, free,  \* all_data, and the blocks left
  in_packet,   \* the packet kept for the next tick, if any
  opened,      \* connections opened so far; it stands for iss
  client,      \* the slot of the UIPClient the sketch holds
  call,        \* the call it is in: connect, or write with bytes left
  read,        \* per host the bytes the sketch has read
  written      \* per host how many bytes it has written

sketchVars == <<opened, client, call, read, written>>
vars == <<conn, slot, free, in_packet, sketchVars, netVars>>

NoCall == [op |-> "none"]

(* A CLOSED connection: what is left in it nobody reads, but for app and,  *)
(* in UIPServer, lport.                                                    *)
ClosedConn(app, lport) ==
  [st |-> "CLOSED", stopped |-> FALSE, peer |-> Nobody, iss |-> 0, snd |-> 0, len |-> 0, rcv |-> 0,
   nrtx |-> 0, app |-> app, lport |-> lport]

Init ==
  /\ conn = [i \in Conns |-> ClosedConn(NoSlot, "none")]
  /\ slot = [i \in Conns |-> [NewSlot EXCEPT !.state = {}]]
  /\ free = Blocks /\ in_packet = {}
  /\ opened = 0 /\ client = NoSlot /\ call = NoCall
  /\ read = [p \in Peers |-> <<>>] /\ written = [p \in Peers \union {Nobody} |-> 0]
  /\ PeerInit

(***************************************************************************)
(* uip_process                                                             *)
(***************************************************************************)
Unused(c) == c.st = "CLOSED" /\ ~c.stopped

(* The effect of a step on connection i in the form UIPClient builds on.   *)
Call(c, flags) == [c |-> c, slot |-> slot, free |-> free, flags |-> flags, send |-> <<>>, kept |-> {}]

Reply(c, flags, data) == {Segment(c.iss, flags, c.snd, data, c.rcv)}

(* The step is done: what goes out takes a block of the packet memory.     *)
Done(i, w, out) == \E e \in {w} :
  /\ conn' = [conn EXCEPT ![i] = e.c] /\ slot' = e.slot /\ free' = e.free /\ in_packet' = e.kept
  /\ IF out # {} /\ e.free > 0
       THEN \E m \in out, p \in {conn[i].peer} : \E under \in Sent(toPeer[p], m) : toPeer' = [toPeer EXCEPT ![p] = under]
       ELSE UNCHANGED toPeer

(* After a connection is closed only app and lport matter, unless uip_stop *)
(* has made its state look like a used one.                                *)
Gone(over) == LET Over(w) == IF w.c.stopped THEN w ELSE [w EXCEPT !.c = ClosedConn(w.c.app, w.c.lport)] IN Then(over, Over)

(* The label apprexmit: data, or an acknowledgement of new data.           *)
Output(w) ==
  IF w.send # <<>> /\ w.c.len > 0 THEN Reply(w.c, {"ACK"}, SubSeq(w.send, 1, w.c.len))
  ELSE IF "NEWDATA" \in w.flags THEN Reply(w.c, {"ACK"}, <<>>)
  ELSE {}

(* The state in which a FIN is out.                                        *)
WithFin(c, st) == [c EXCEPT !.st = st, !.stopped = FALSE, !.len = 1, !.nrtx = 0]
FinAck(i, w) == Done(i, w, Reply(w.c, {"FIN", "ACK"}, <<>>))

(* The label appsend: the application's close or its data goes out.        *)
AppSend(i, after) == \E w \in {after} :
  IF "CLOSE" \in w.flags THEN FinAck(i, [w EXCEPT !.c = WithFin(@, "FIN_WAIT_1")])
  ELSE LET Sends(v) == [v EXCEPT !.c.len = IF v.send # <<>> /\ @ = 0 THEN Len(v.send) ELSE @, !.c.nrtx = 0]
       IN  \E k \in {Sends(w)} : Done(i, k, Output(k))

(***************************************************************************)
(* uip_process(UIP_TIMER) and (UIP_POLL_REQUEST) for connection i          *)
(***************************************************************************)
OnTick(c, flags) == [Call(c, flags) EXCEPT !.kept = in_packet]

Bug_IdleInTimeWaitOnly(i) ==
  /\ conn[i].st = "TIME_WAIT" /\ ~conn[i].stopped
  /\ Done(i, Gone(OnTick(conn[i], {})), {})

(* A connection that waits for nothing is closed when its timer runs out.  *)
TimerIdle(i) ==
  /\ conn[i].st \in {"TIME_WAIT", "FIN_WAIT_2"} /\ ~conn[i].stopped
  /\ Done(i, Gone(OnTick(conn[i], {})), {})

Bug_NotWhenStopped(i) == conn[i].len > 0 /\ ~conn[i].stopped /\ conn[i].st \notin {"TIME_WAIT", "FIN_WAIT_2"}

Outstanding(i) == conn[i].len > 0 /\ ~(conn[i].st \in {"TIME_WAIT", "FIN_WAIT_2"} /\ ~conn[i].stopped)

GivesUp(c) == c.nrtx = MaxRtx \/ (c.st \in {"SYN_SENT", "SYN_RCVD"} /\ ~c.stopped /\ c.nrtx = MaxSynRtx)

TimerGivesUp(i) ==
  /\ Outstanding(i) /\ GivesUp(conn[i])
  /\ LET c == [conn[i] EXCEPT !.st = "CLOSED", !.stopped = FALSE]
         w == AppCall(OnTick(c, {"TIMEDOUT"}), {})
     IN  Done(i, Gone(w), Reply(c, {"RST", "ACK"}, <<>>))

TimerRetransmits(i) ==
  /\ Outstanding(i) /\ ~GivesUp(conn[i])
  /\ LET c == [conn[i] EXCEPT !.nrtx = @ + 1]
         w == OnTick(c, {})
     IN  CASE c.st = "SYN_RCVD" -> Done(i, w, Reply(c, {"SYN", "ACK"}, <<>>))
           [] c.st = "SYN_SENT" -> Done(i, w, Reply(c, {"SYN"}, <<>>))
           [] c.st = "ESTABLISHED" -> \E k \in {AppCall(OnTick(c, {"REXMIT"}), {})} : Done(i, k, Output(k))
           [] c.st \in {"FIN_WAIT_1", "CLOSING", "LAST_ACK"} -> FinAck(i, w)
           [] OTHER -> Done(i, w, {})

TimerPolls(i) ==
  /\ conn[i].len = 0 /\ conn[i].st = "ESTABLISHED"
  /\ AppSend(i, AppCall(OnTick(conn[i], {"POLL"}), {}))

Bug_OnlyWhenMade == call.op = "connect" /\ conn[call.conn].st = "ESTABLISHED"

(* connect returns once the connection is made, or closed again; the tick  *)
(* that has made it ends first, but takes no other packet.                 *)
ConnectOver == call.op = "connect" /\ conn[call.conn].st \in {"ESTABLISHED", "CLOSED"}

Timer(i) ==
  /\ TimerIdle(i) \/ TimerGivesUp(i) \/ TimerRetransmits(i) \/ TimerPolls(i)
  /\ UNCHANGED <<sketchVars, toUs, peer, received>>

(***************************************************************************)
(* uip_process(UIP_DATA): segment m of host p                              *)
(***************************************************************************)
Matches(i, p) == ~Unused(conn[i]) /\ conn[i].peer = p
NoMatch(p) == \A i \in Conns : ~Matches(i, p)

RstTo(p, m) == \E under \in Sent(toPeer[p], Segment(m.conn, {"RST", "ACK"}, m.ack, <<>>, m.seq + 1)) :
  toPeer' = IF free > 0 THEN [toPeer EXCEPT ![p] = under] ELSE toPeer

NoConnection(p, m) ==
  /\ NoMatch(p) /\ (m.flags # {"SYN"} \/ p \in Servers)
  /\ IF "RST" \in m.flags THEN UNCHANGED toPeer ELSE RstTo(p, m)
  /\ in_packet' = {} /\ UNCHANGED <<conn, slot, free, opened>>

(* The first closed connection is taken, else one that has waited in       *)
(* TIME_WAIT (the longest; the model leaves the timers out).               *)
Candidates ==
  LET closed == {i \in Conns : Unused(conn[i])}
  IN  IF closed # {} THEN {Min(closed)} ELSE {i \in Conns : conn[i].st = "TIME_WAIT" /\ ~conn[i].stopped}

Opened(i, st, p, rcv, lport) ==
  [ClosedConn(conn[i].app, lport) EXCEPT !.st = st, !.peer = p, !.iss = opened + 1, !.len = 1, !.rcv = rcv]

Listens(p, m) ==
  /\ NoMatch(p) /\ m.flags = {"SYN"} /\ p \in Clients /\ Candidates # {}
  /\ opened < MaxOpens /\ opened' = opened + 1
  /\ \E i \in Candidates :
       LET c == Opened(i, "SYN_RCVD", p, m.seq + 1, "listen")
       IN  /\ conn' = [conn EXCEPT ![i] = c]
           /\ \E reply \in Reply(c, {"SYN", "ACK"}, <<>>) : \E under \in Sent(toPeer[p], reply) :
                toPeer' = IF free > 0 THEN [toPeer EXCEPT ![p] = under] ELSE toPeer
  /\ in_packet' = {} /\ UNCHANGED <<slot, free>>

NoneLeft(p, m) ==
  /\ NoMatch(p) /\ m.flags = {"SYN"} /\ p \in Clients /\ Candidates = {}
  /\ in_packet' = {} /\ UNCHANGED <<conn, slot, free, opened, toPeer>>

GotReset(i, m) ==
  /\ "RST" \in m.flags
  /\ LET c == [conn[i] EXCEPT !.st = "CLOSED", !.stopped = FALSE]
     IN  Done(i, Gone(AppCall(Call(c, {"ABORT"}), {})), {})

(* What takes up sequence numbers has to be what comes next.               *)
TakesUp(m) == m.data # <<>> \/ m.flags \intersect {"SYN", "FIN"} # {}
Bug_AnyOrder(c, m) == "RST" \notin m.flags
InOrder(c, m) ==
  "RST" \notin m.flags /\ (TakesUp(m) => m.seq = c.rcv \/ (c.st = "SYN_SENT" /\ m.flags = {"SYN", "ACK"}))

OutOfOrder(i, m) ==
  /\ "RST" \notin m.flags /\ ~InOrder(conn[i], m)
  /\ Done(i, Call(conn[i], {}), Reply(conn[i], {"ACK"}, <<>>))

(* An acknowledgement of all that is outstanding.                          *)
Acks(c, m) == "ACK" \in m.flags /\ c.len > 0 /\ m.conn = c.iss /\ m.ack = c.snd + c.len
AfterAck(c, m) == IF Acks(c, m) THEN [c EXCEPT !.snd = @ + c.len, !.len = 0] ELSE c
AckFlag(c, m) == IF Acks(c, m) THEN {"ACKDATA"} ELSE {}

(* The data of a segment, if there is any: uip_flags, and the packet for   *)
(* the application.                                                        *)
DataFlag(m) == IF m.data # <<>> THEN {"NEWDATA"} ELSE {}
Packet(p, m) == IF m.data # <<>> THEN {[from |-> p, seg |-> m]} ELSE {}
Advanced(c, n) == [c EXCEPT !.rcv = @ + n]

InSynRcvd(i, p, m) ==
  /\ conn[i].st = "SYN_RCVD" /\ InOrder(conn[i], m)
  /\ IF Acks(conn[i], m)
       THEN LET c == [Advanced(AfterAck(conn[i], m), Len(m.data)) EXCEPT !.st = "ESTABLISHED"]
            IN  AppSend(i, AppCall(Call(c, {"CONNECTED"} \union DataFlag(m)), Packet(p, m)))
       ELSE Done(i, Call(conn[i], {}), {})

InSynSent(i, m) ==
  /\ conn[i].st = "SYN_SENT" /\ InOrder(conn[i], m) /\ Acks(conn[i], m) /\ m.flags = {"SYN", "ACK"}
  /\ LET c == [AfterAck(conn[i], m) EXCEPT !.st = "ESTABLISHED", !.rcv = m.seq + 1]
     IN  AppSend(i, AppCall(Call(c, {"CONNECTED", "NEWDATA"}), {}))

InSynSentOther(i, p, m) ==
  /\ conn[i].st = "SYN_SENT" /\ InOrder(conn[i], m) /\ ~(Acks(conn[i], m) /\ m.flags = {"SYN", "ACK"})
  /\ LET w == AppCall(Call(AfterAck(conn[i], m), {"ABORT"}), {})
     IN  /\ conn' = [conn EXCEPT ![i] = ClosedConn(w.c.app, w.c.lport)] /\ slot' = w.slot /\ free' = w.free
         /\ in_packet' = {} /\ RstTo(p, m)

(* A FIN is taken when nothing is outstanding and the connection is not    *)
(* stopped; our FIN answers it.                                            *)
TakesFin(c, m) == "FIN" \in m.flags /\ ~c.stopped

InEstablishedFin(i, p, m) ==
  /\ conn[i].st = "ESTABLISHED" /\ InOrder(conn[i], m) /\ TakesFin(conn[i], m)
  /\ IF AfterAck(conn[i], m).len > 0 THEN Done(i, Call(conn[i], {}), {})
     ELSE LET c == Advanced(AfterAck(conn[i], m), 1 + Len(m.data))
              w == AppCall(Call(c, {"CLOSE"} \union AckFlag(conn[i], m) \union DataFlag(m)), Packet(p, m))
          IN  FinAck(i, [w EXCEPT !.c = WithFin(@, "LAST_ACK")])

(* A stopped connection takes no data.                                     *)
InEstablished(i, p, m) ==
  /\ conn[i].st = "ESTABLISHED" /\ InOrder(conn[i], m) /\ ~TakesFin(conn[i], m)
  /\ LET new == IF conn[i].stopped THEN {} ELSE Packet(p, m)
         c == Advanced(AfterAck(conn[i], m), IF new = {} THEN 0 ELSE Len(m.data))
         flags == AckFlag(conn[i], m) \union (IF new = {} THEN {} ELSE {"NEWDATA"})
     IN  IF flags = {} THEN Done(i, Call(c, {}), {}) ELSE AppSend(i, AppCall(Call(c, flags), new))

InLastAck(i, m) ==
  /\ conn[i].st = "LAST_ACK" /\ InOrder(conn[i], m)
  /\ IF Acks(conn[i], m)
       THEN Done(i, Gone(AppCall(Call([conn[i] EXCEPT !.st = "CLOSED", !.stopped = FALSE], {"CLOSE"}), {})), {})
       ELSE Done(i, Call(conn[i], {}), {})

InFinWait(i, m) ==
  /\ conn[i].st \in {"FIN_WAIT_1", "FIN_WAIT_2"} /\ InOrder(conn[i], m)
  /\ LET acked == conn[i].st = "FIN_WAIT_2" \/ Acks(conn[i], m)
         fin == "FIN" \in m.flags
         c == [Advanced(AfterAck(conn[i], m), Len(m.data) + (IF fin THEN 1 ELSE 0)) EXCEPT
                 !.st = IF fin THEN IF acked THEN "TIME_WAIT" ELSE "CLOSING"
                        ELSE IF acked THEN "FIN_WAIT_2" ELSE @]
         silent == ~fin /\ (m.data = <<>> \/ (conn[i].st = "FIN_WAIT_1" /\ acked))
     IN  Done(i, IF fin THEN AppCall(Call(c, {"CLOSE"}), {}) ELSE Call(c, {}),
              IF silent THEN {} ELSE Reply(c, {"ACK"}, <<>>))

(* Nothing is done but in CLOSING; CLOSED is here what uip_stop has made   *)
(* look used.                                                              *)
InClosing(i, m) ==
  /\ conn[i].st \in {"CLOSING", "CLOSED"} /\ InOrder(conn[i], m)
  /\ LET c == AfterAck(conn[i], m)
         over == conn[i].st = "CLOSING" /\ Acks(conn[i], m)
     IN  Done(i, Call(IF over THEN [c EXCEPT !.st = "TIME_WAIT", !.stopped = FALSE] ELSE c, {}), {})

InTimeWait(i, m) ==
  /\ conn[i].st = "TIME_WAIT" /\ InOrder(conn[i], m)
  /\ Done(i, Call(AfterAck(conn[i], m), {}), Reply(conn[i], {"ACK"}, <<>>))

Matched(i, p, m) ==
  /\ Matches(i, p) /\ UNCHANGED opened
  /\ \/ GotReset(i, m) \/ OutOfOrder(i, m) \/ InSynRcvd(i, p, m) \/ InSynSent(i, m) \/ InSynSentOther(i, p, m)
     \/ InEstablishedFin(i, p, m) \/ InEstablished(i, p, m) \/ InLastAck(i, m)
     \/ InFinWait(i, m) \/ InClosing(i, m) \/ InTimeWait(i, m)

(* tick takes the packet it has kept, or else a frame from the network.    *)
Arriving(p, m) ==
  /\ ~ConnectOver
  /\ IF in_packet = {} THEN m \in toUs[p] /\ toUs' = [toUs EXCEPT ![p] = @ \ {m}]
     ELSE [from |-> p, seg |-> m] \in in_packet /\ UNCHANGED toUs

Waiting(p) == IF in_packet = {} THEN toUs[p] ELSE {packet.seg : packet \in in_packet}

Input(p) == \E m \in Waiting(p) :
  /\ Arriving(p, m)
  /\ \/ NoConnection(p, m) \/ Listens(p, m) \/ NoneLeft(p, m)
     \/ \E i \in Conns : Matched(i, p, m)
  /\ UNCHANGED <<client, call, read, written, peer, received>>

(***************************************************************************)
(* The sketch                                                              *)
(***************************************************************************)
Free == call = NoCall
tcpVars == <<conn, in_packet, opened, netVars>>

(* UIPServer::available: a slot with unread data of a connection to the    *)
(* server's port.  The slot's number is taken for that of the connection.  *)
HasData(i) ==
  /\ slot[i].in # <<>>
  /\ \/ "CONNECTED" \in slot[i].state /\ conn[i].lport = "listen"
     \/ "REMOTECLOSED" \in slot[i].state /\ slot[i].lport = "listen"

Available ==
  /\ Free
  /\ client' = IF \E i \in Conns : HasData(i) THEN Min({i \in Conns : HasData(i)}) ELSE NoSlot
  /\ UNCHANGED <<tcpVars, slot, free, call, read, written>>

(* connect: uip_connect, then ticks until the connection is made or closed.*)
(* A host is connected to once: it has one connection.                     *)
Connect(p) ==
  /\ Free /\ client = NoSlot /\ opened < MaxOpens
  /\ peer[p].st = "idle" /\ toPeer[p] = {} /\ NoMatch(p)
  /\ \E i \in Candidates :
       /\ conn' = [conn EXCEPT ![i] = Opened(i, "SYN_SENT", p, conn[i].rcv, "own")]
       /\ call' = [op |-> "connect", conn |-> i]
  /\ opened' = opened + 1
  /\ UNCHANGED <<slot, free, in_packet, client, read, written, netVars>>

ConnectReturns ==
  /\ ConnectOver
  /\ client' = IF conn[call.conn].st = "ESTABLISHED" THEN conn[call.conn].app ELSE NoSlot
  /\ call' = NoCall
  /\ UNCHANGED <<tcpVars, slot, free, read, written>>

(* read(), for a client that is true.                                      *)
ReadByte ==
  /\ Free /\ client # NoSlot /\ slot[client].in # <<>>
  /\ LET s == slot[client]
         byte == Head(Head(s.in))
         new == Read(s, conn[client].stopped)
     IN  /\ slot' = [slot EXCEPT ![client] = new]
         /\ free' = IF Len(Head(s.in)) = 1 THEN free + 1 ELSE free
         /\ read' = [read EXCEPT ![byte[1]] = Append(@, byte[2])]
         /\ client' = IF InUse(new) THEN client ELSE NoSlot
  /\ UNCHANGED <<tcpVars, call, written>>

(* write of n bytes to a slot; they belong to the connection it serves.    *)
Owner(s) == IF \E i \in Conns : conn[i].app = s THEN conn[CHOOSE i \in Conns : conn[i].app = s].peer ELSE Nobody
Total == LET Plus(p, n) == written[p] + n IN FoldSet(Plus, 0, Peers \union {Nobody})

Write(n) ==
  /\ Free /\ client # NoSlot /\ Total + n <= MaxWrites
  /\ call' = [op |-> "write", left |-> n]
  /\ UNCHANGED <<tcpVars, slot, free, client, read, written>>

WriteStep ==
  /\ call.op = "write" /\ ~Refuses(slot[client])
  /\ LET owner == Owner(client)
         bytes == [k \in 1 .. call.left |-> <<owner, written[owner] + k>>]
         w == Wrote(slot[client], bytes, free)
     IN  /\ slot' = [slot EXCEPT ![client].out = w.out, ![client].room = w.room]
         /\ free' = free - w.blocks
         /\ written' = [written EXCEPT ![owner] = @ + call.left - w.left]
         /\ call' = IF w.left = 0 THEN NoCall ELSE [call EXCEPT !.left = w.left]
  /\ UNCHANGED <<tcpVars, client, read>>

WriteFails ==
  /\ call.op = "write" /\ Refuses(slot[client])
  /\ call' = NoCall
  /\ UNCHANGED <<tcpVars, slot, free, client, read, written>>

Stop ==
  /\ Free /\ client # NoSlot
  /\ IF InUse(slot[client])
       THEN slot' = [slot EXCEPT ![client] = Stopped(@)] /\ free' = free + Len(slot[client].in)
       ELSE UNCHANGED <<slot, free>>
  /\ client' = NoSlot
  /\ UNCHANGED <<tcpVars, call, read, written>>

Sketch ==
  \/ Available \/ ReadByte \/ Stop \/ WriteStep \/ WriteFails \/ ConnectReturns
  \/ \E p \in Servers : Connect(p)
  \/ \E n \in 1 .. DataLen : Write(n)

Peer == (\E p \in Peers : PeerStep(p)) /\ UNCHANGED <<conn, slot, free, in_packet, sketchVars>>
Uip == (\E p \in Peers : Input(p)) \/ (\E i \in Conns : Timer(i))

Next == Peer \/ Uip \/ Sketch

(* Every function of the library that the sketch calls, in its loop or in  *)
(* a loop of its own, calls tick: timers run out.  Hosts and network may do*)
(* nothing for ever.                                                       *)
Fairness ==
  /\ \A i \in Conns : WF_vars(Timer(i))
  /\ WF_vars(ConnectReturns) /\ WF_vars(WriteStep \/ WriteFails)

Spec == Init /\ [][Next]_vars /\ Fairness
-------------------------------------------------------------------------------
(***************************************************************************)
(* Properties                                                              *)
(***************************************************************************)
(* What the sketch reads from a host is what the host has sent, in order,  *)
(* without a gap and without repetition, however segments are lost and     *)
(* sent again, whenever the sketch reads, and also when the connection is  *)
(* stopped because the slot is full, restarted and closed by the host.     *)
ReadsStream == \A p \in Peers : read[p] = [k \in 1 .. Len(read[p]) |-> k]

(* And what a host receives is what the sketch has written for it, though  *)
(* blocks are filled up while others are under way, are offered again for  *)
(* each retransmission, and are eaten when an acknowledgement arrives.     *)
WritesStream ==
  \A p \in Peers : received[p] = [k \in 1 .. Len(received[p]) |-> <<p, k>>] /\ Len(received[p]) <= written[p]

(* "don't close connection unless all outgoing packets are sent"           *)
(* (UIPClient.cpp:449): once stop() has closed the connection the host has *)
(* received everything that was written.                                   *)
CloseDelivers ==
  \A i \in Conns : conn[i].st \in {"FIN_WAIT_1", "FIN_WAIT_2", "CLOSING", "TIME_WAIT"} =>
    Len(received[conn[i].peer]) = written[conn[i].peer]

(* No step loses a block of the packet memory or makes one up, with one    *)
(* exception: a slot is given to a new connection with blocks in it that a *)
(* UIPClient wrote when its connection was gone.                           *)
Handles(one) == ({"in"} \X DOMAIN one.in) \union ({"out"} \X DOMAIN one.out)
Held(slots) == Cardinality(UNION {{s} \X Handles(slots[s]) : s \in Conns})
Reused(s) == ~InUse(slot[s]) /\ slot[s].out # <<>> /\ InUse(slot'[s])
BlocksKept ==
  [][free' + Held(slot') = free + Held(slot) \/ \E s \in Conns : Reused(s)]_vars

(* What is outstanding does not stay so: it is acknowledged, or the        *)
(* connection given up, also when the connection is stopped and whatever   *)
(* the host does.                                                          *)
Resolves == \A i \in Conns : conn[i].len > 0 ~> conn[i].len = 0

(* connect returns, when the host answers, refuses, resets or is silent.   *)
ConnectEnds == call.op = "connect" ~> call.op # "connect"

(* A connection that is being made or closed gets there: no state of the   *)
(* handshakes keeps a uip_conn (there are few) for ever.                   *)
ConnectionsEnd ==
  \A i \in Conns : conn[i].st \notin {"CLOSED", "ESTABLISHED"} ~> conn[i].st \in {"CLOSED", "ESTABLISHED"}

(***************************************************************************)
(* What the documentation says, and the code does not do.                  *)
(***************************************************************************)

(* UIP_ATTEMPTS_ON_WRITE: "set to -1 to block until connection is closed by*)
(* timeout" (uipethernet-conf.h:15): a write does not block for ever.      *)
WriteReturns == call.op = "write" ~> call.op # "write"
===============================================================================
