----------------------------- MODULE UipTcp_proofs -----------------------------
(***************************************************************************)
(* Theorems about UipTcp, in three parts.                                  *)
(*                                                                         *)
(* Blocks: no step loses a block of the packet memory or makes one up      *)
(* (NoBlockLost), from the inductive invariant SlotInv (SlotsInOrder).     *)
(* uipclient_appcall is taken stage by stage, each with a lemma that says  *)
(* what it does to the slot, up to AppCallIs.  A step of uIP is then an    *)
(* effect v on one connection (Stepped): the effect of the call (Moves),   *)
(* and what is outstanding after it (InFlight).                            *)
(*                                                                         *)
(* Streams: a host gets what was written for it (HostsGetWhatIsWritten),   *)
(* all of it before stop() closes the connection (CloseWaitsForAll), from  *)
(* StreamInv (StreamsAgree): the blocks of a slot are a chain of bytes     *)
(* that starts where the connection is (Chain), the host is at one end of  *)
(* what is outstanding (SyncedOK), and what is under way to it is old or   *)
(* the very segment that is outstanding (SegOK, Payload).  The stages of   *)
(* the call are taken once more for the chain (up to CallStreams), then    *)
(* each step of uIP (Flows), of the hosts (HostMoves) and of the sketch.   *)
(*                                                                         *)
(* What the sketch reads: with one connection, what read() returns is what *)
(* the host has sent, in order (ReadsInOrder, EnoughMemoryReadsInOrder),   *)
(* from ReadsInv: what is under way carries the bytes its number says      *)
(* (GivenOK), the blocks of the slot go on from the last byte read         *)
(* (Unread), and a slot that is full has stopped its connection (Fills).   *)
(* The stages of the call are taken for that (up to CallTakes), then each  *)
(* step of uIP (Gains), and with RoomInv the blocks there are.             *)
(***************************************************************************)
EXTENDS UipTcp, FiniteSetTheorems, WellFoundedInduction, TLAPS

(***************************************************************************)
(* Types.  The records that EXCEPT builds are described field by field.    *)
(***************************************************************************)
Byte == (Peers \union {Nobody}) \X Nat
Block == Seq(Byte)
Flags == SUBSET {"SYN", "ACK", "FIN", "RST"}
SegRec == [conn : Nat, flags : Flags, seq : Nat, data : Block, ack : Nat]
Packets == [from : Peers, seg : SegRec]

SlotShape(o) ==
  /\ DOMAIN o = {"state", "in", "out", "room", "lport"}
  /\ o.in \in Seq(Block) /\ o.out \in Seq(Block) /\ o.room \in Nat

ConnShape(c) ==
  /\ DOMAIN c = {"st", "stopped", "peer", "iss", "snd", "len", "rcv", "nrtx", "app", "lport"}
  /\ c.peer \in Peers \union {Nobody} /\ c.iss \in Nat /\ c.snd \in Nat /\ c.len \in Nat /\ c.rcv \in Nat
  /\ c.app \in Conns \union {NoSlot}

(* What holds of every slot: a slot that is not used has nothing to read,  *)
(* nor has one that is being closed; no block is empty, and there is room  *)
(* only in a block.                                                        *)
Filled(blocks) == \A k \in 1 .. Len(blocks) : blocks[k] # <<>>
SlotOK(o) ==
  /\ SlotShape(o)
  /\ o.state = {} \/ "CONNECTED" \in o.state
  /\ o.in # <<>> => "CONNECTED" \in o.state /\ "CLOSE" \notin o.state
  /\ o.out = <<>> => o.room = 0
  /\ Filled(o.in) /\ Filled(o.out)

Serves(o) == "CONNECTED" \in o.state /\ "REMOTECLOSED" \notin o.state

Effect(w) ==
  /\ DOMAIN w = {"c", "slot", "free", "flags", "send", "kept"}
  /\ ConnShape(w.c) /\ w.free \in Nat /\ w.send \in Block /\ w.kept \in SUBSET Packets
  /\ DOMAIN w.slot = Conns /\ \A t \in Conns : SlotOK(w.slot[t])

(* A call for a connection that has a slot.                                *)
Ready(w) == Effect(w) /\ w.c.app \in Conns /\ Serves(Own(w))

(* The blocks a slot holds, and a connection apart from what the           *)
(* application may change.                                                 *)
Units(o) == Len(o.in) + Len(o.out)
SameConn(c, d) ==
  /\ c.st = d.st /\ c.peer = d.peer /\ c.iss = d.iss /\ c.snd = d.snd /\ c.len = d.len /\ c.rcv = d.rcv
  /\ c.nrtx = d.nrtx /\ c.lport = d.lport

(* From w to r only slot s has changed, and no block is lost.              *)
Touches(r, w, s) ==
  /\ Effect(r) /\ SameConn(r.c, w.c)
  /\ \A t \in Conns \ {s} : r.slot[t] = w.slot[t]
  /\ r.free + Units(r.slot[s]) = w.free + Units(w.slot[s])

(***************************************************************************)
(* The stages of uipclient_appcall                                         *)
(***************************************************************************)
LEMMA TailFilled ==
  ASSUME NEW S, NEW b \in Seq(S), b # <<>>
  PROVE  /\ Tail(b) \in Seq(S) /\ Len(b) > 0 /\ Len(Tail(b)) = Len(b) - 1
         /\ \A k \in 1 .. Len(Tail(b)) : k + 1 \in 1 .. Len(b) /\ Tail(b)[k] = b[k + 1]
         /\ Filled(b) => Filled(Tail(b))
         /\ Tail(b) = <<>> => Len(b) = 1
<1>1. Tail(b) \in Seq(S) /\ Len(b) > 0 /\ Len(Tail(b)) = Len(b) - 1
  OBVIOUS
<1>2. \A k \in 1 .. Len(Tail(b)) : k + 1 \in 1 .. Len(b) /\ Tail(b)[k] = b[k + 1]
  OBVIOUS
<1>3. Filled(b) => Filled(Tail(b))
  BY <1>2 DEF Filled
<1>4. ASSUME Tail(b) = <<>> PROVE Len(Tail(b)) = 0
  <2>1. Len(<<>>) = 0
    OBVIOUS
  <2> QED BY <1>4, <2>1, Zenon
<1>5. Len(b) \in Nat
  OBVIOUS
<1> QED BY <1>1, <1>2, <1>3, <1>4, <1>5

LEMMA AppendFilled ==
  ASSUME NEW S, NEW b \in Seq(S), NEW e \in S, e # <<>>, Filled(b)
  PROVE  Append(b, e) \in Seq(S) /\ Len(Append(b, e)) = Len(b) + 1 /\ Filled(Append(b, e)) /\ Append(b, e) # <<>>
<1>1. Append(b, e) \in Seq(S) /\ Len(Append(b, e)) = Len(b) + 1 /\ Len(b) \in Nat
  OBVIOUS
<1>2. \A k \in 1 .. Len(b) + 1 : Append(b, e)[k] = IF k = Len(b) + 1 THEN e ELSE b[k]
  OBVIOUS
<1>3. \A k \in 1 .. Len(b) + 1 : k = Len(b) + 1 \/ k \in 1 .. Len(b)
  BY <1>1
<1>4. Filled(Append(b, e))
  BY <1>1, <1>2, <1>3 DEF Filled
<1> QED BY <1>1, <1>4

(* An effect that differs from w in what is listed.                        *)
LEMMA Builds ==
  ASSUME NEW w, Effect(w), NEW r, NEW s \in Conns,
         DOMAIN r = DOMAIN w, DOMAIN r.slot = Conns,
         ConnShape(r.c), r.free \in Nat, r.send \in Block, r.kept \in SUBSET Packets,
         SlotOK(r.slot[s]), \A t \in Conns \ {s} : r.slot[t] = w.slot[t]
  PROVE  Effect(r)
BY DEF Effect

LEMMA AckedIs ==
  ASSUME NEW w, Ready(w)
  PROVE  LET r == Acked(w)
             s == w.c.app
         IN  /\ Touches(r, w, s) /\ Ready(r)
             /\ r.c = w.c /\ r.flags = w.flags /\ r.send = w.send
             /\ r.slot[s].state = w.slot[s].state
             /\ r.slot[s].out = IF "ACKDATA" \in w.flags /\ w.slot[s].out # <<>> THEN Tail(w.slot[s].out) ELSE w.slot[s].out
             /\ w.slot[s].room = 0 => r.slot[s].room = 0
<1> DEFINE r == Acked(w)
           s == w.c.app
           o == w.slot[s]
<1>1. s \in Conns /\ SlotOK(o) /\ Effect(w) /\ Serves(o) /\ Own(w) = o
  BY DEF Ready, Effect, Own
<1>2. CASE ~("ACKDATA" \in w.flags /\ o.out # <<>>)
  <2>1. r = w
    BY <1>2 DEF Acked, Own
  <2> QED BY <2>1, <1>1, <1>2 DEF Touches, SameConn, Ready
<1>3. CASE "ACKDATA" \in w.flags /\ o.out # <<>>
  <2>1. /\ DOMAIN r = DOMAIN w /\ DOMAIN r.slot = Conns /\ DOMAIN r.slot[s] = DOMAIN o
        /\ r.c = w.c /\ r.flags = w.flags /\ r.send = w.send /\ r.kept = w.kept /\ r.free = w.free + 1
        /\ \A t \in Conns \ {s} : r.slot[t] = w.slot[t]
    BY <1>1, <1>3 DEF Acked, Own, Effect, SlotOK, SlotShape
  <2>2. /\ r.slot[s].state = o.state /\ r.slot[s].in = o.in /\ r.slot[s].lport = o.lport
        /\ r.slot[s].out = Tail(o.out)
        /\ r.slot[s].room = IF Len(o.out) = 1 THEN 0 ELSE o.room
    BY <1>1, <1>3 DEF Acked, Own, Effect, SlotOK, SlotShape
  <2>3. /\ Tail(o.out) \in Seq(Block) /\ Len(Tail(o.out)) = Len(o.out) - 1 /\ Filled(Tail(o.out)) /\ Len(o.out) > 0
        /\ Tail(o.out) = <<>> => Len(o.out) = 1
    BY <1>1, <1>3, TailFilled DEF SlotOK, SlotShape
  <2> HIDE DEF r, s, o
  <2>4. SlotOK(r.slot[s])
    BY <1>1, <2>1, <2>2, <2>3 DEF SlotOK, SlotShape
  <2>5. Effect(r)
    BY <1>1, <2>1, <2>4, Builds DEF Effect
  <2>6. r.free + Units(r.slot[s]) = w.free + Units(o)
    BY <1>1, <2>1, <2>2, <2>3 DEF Units, Effect, SlotOK, SlotShape
  <2>7. Serves(r.slot[s])
    BY <1>1, <2>2 DEF Serves
  <2>8. r.c.app = s /\ SameConn(r.c, w.c)
    BY <2>1 DEF s, SameConn
  <2>9. Touches(r, w, s) /\ Ready(r)
    BY <1>1, <2>1, <2>5, <2>6, <2>7, <2>8 DEF Touches, Ready, Own, o
  <2> QED BY <1>1, <1>3, <2>1, <2>2, <2>9 DEF r, s, o
<1> QED BY <1>2, <1>3

LEMMA StoredIs ==
  ASSUME NEW w, Ready(w), NEW packet \in Packets
  PROVE  LET r == Stored(w, packet)
             s == w.c.app
         IN  /\ Touches(r, w, s) /\ Ready(r)
             /\ r.c.app = s /\ r.flags = w.flags /\ r.send = w.send
             /\ r.slot[s].state = w.slot[s].state /\ r.slot[s].out = w.slot[s].out /\ r.slot[s].room = w.slot[s].room
<1> DEFINE r == Stored(w, packet)
           s == w.c.app
           o == w.slot[s]
           data == packet.seg.data
<1>1. s \in Conns /\ SlotOK(o) /\ Effect(w) /\ Serves(o) /\ Own(w) = o /\ data \in Block
  BY DEF Ready, Effect, Own, Packets, SegRec
<1>2. CASE data = <<>> \/ Refuses(o)
  <2>1. r = w
    BY <1>2 DEF Stored, Own
  <2> QED BY <2>1, <1>1 DEF Touches, SameConn
<1>3. CASE ~(data = <<>> \/ Refuses(o)) /\ Len(o.in) < NumPackets /\ w.free > 0
  <2>1. /\ DOMAIN r = DOMAIN w /\ DOMAIN r.slot = Conns /\ DOMAIN r.slot[s] = DOMAIN o
        /\ r.flags = w.flags /\ r.send = w.send /\ r.kept = w.kept /\ r.free = w.free - 1
        /\ \A t \in Conns \ {s} : r.slot[t] = w.slot[t]
    BY <1>1, <1>3 DEF Stored, Own, Effect, SlotOK, SlotShape
  <2>2. /\ r.slot[s].state = o.state /\ r.slot[s].in = Append(o.in, data) /\ r.slot[s].lport = o.lport
        /\ r.slot[s].out = o.out /\ r.slot[s].room = o.room
    BY <1>1, <1>3 DEF Stored, Own, Effect, SlotOK, SlotShape
  <2>3. ConnShape(r.c) /\ SameConn(r.c, w.c) /\ r.c.app = s
    BY <1>1, <1>3 DEF Stored, Own, Effect, ConnShape, SameConn
  <2>4. Append(o.in, data) \in Seq(Block) /\ Len(Append(o.in, data)) = Len(o.in) + 1 /\ Filled(Append(o.in, data))
    BY <1>1, <1>3, AppendFilled DEF SlotOK, SlotShape
  <2>5. "CONNECTED" \in o.state /\ "CLOSE" \notin o.state
    BY <1>1, <1>3 DEF Serves, Refuses
  <2>6. w.free \in Nat /\ w.free - 1 \in Nat
    BY <1>1, <1>3 DEF Effect
  <2> HIDE DEF r, s, o, data
  <2>7. SlotOK(r.slot[s])
    BY <1>1, <2>1, <2>2, <2>4, <2>5 DEF SlotOK, SlotShape
  <2>8. Effect(r)
    BY <1>1, <2>1, <2>3, <2>6, <2>7, Builds DEF Effect
  <2>9. r.free + Units(r.slot[s]) = w.free + Units(o)
    BY <1>1, <2>1, <2>2, <2>4, <2>6 DEF Units, SlotOK, SlotShape
  <2>10. Serves(r.slot[s])
    BY <1>1, <2>2 DEF Serves
  <2>11. Touches(r, w, s) /\ Ready(r)
    BY <1>1, <2>1, <2>3, <2>8, <2>9, <2>10 DEF Touches, Ready, Own, o
  <2> QED BY <2>1, <2>2, <2>3, <2>11 DEF r, s, o
<1>4. CASE ~(data = <<>> \/ Refuses(o)) /\ ~(Len(o.in) < NumPackets /\ w.free > 0)
  <2>1. /\ DOMAIN r = DOMAIN w /\ r.slot = w.slot
        /\ r.flags = w.flags /\ r.send = w.send /\ r.kept = {packet} /\ r.free = w.free
    BY <1>1, <1>4 DEF Stored, Own, Effect
  <2>2. ConnShape(r.c) /\ SameConn(r.c, w.c) /\ r.c.app = s
    BY <1>1, <1>4 DEF Stored, Own, Effect, ConnShape, SameConn
  <2> HIDE DEF r
  <2>3. Effect(r)
    BY <1>1, <2>1, <2>2 DEF Effect
  <2>4. Touches(r, w, s) /\ Ready(r)
    BY <1>1, <2>1, <2>2, <2>3 DEF Touches, Ready, Own
  <2> QED BY <2>1, <2>2, <2>4 DEF r
<1> QED BY <1>2, <1>3, <1>4

LEMMA RestartedIs ==
  ASSUME NEW w, Ready(w)
  PROVE  LET r == Restarted(w)
             s == w.c.app
         IN  /\ Touches(r, w, s) /\ Ready(r)
             /\ r.c.app = s /\ r.flags \in {w.flags, w.flags \union {"NEWDATA"}} /\ r.send = w.send
             /\ r.slot[s].state = w.slot[s].state \ {"RESTART"}
             /\ r.slot[s].out = w.slot[s].out /\ r.slot[s].room = w.slot[s].room
<1> DEFINE r == Restarted(w)
           s == w.c.app
           o == w.slot[s]
<1>1. s \in Conns /\ SlotOK(o) /\ Effect(w) /\ Serves(o) /\ Own(w) = o
  BY DEF Ready, Effect, Own
<1>2. CASE "RESTART" \notin o.state
  <2>1. r = w /\ o.state = o.state \ {"RESTART"}
    BY <1>2 DEF Restarted, Own
  <2> QED BY <2>1, <1>1 DEF Touches, SameConn
<1>3. CASE "RESTART" \in o.state
  <2>1. /\ DOMAIN r = DOMAIN w /\ DOMAIN r.slot = Conns /\ DOMAIN r.slot[s] = DOMAIN o
        /\ r.flags = w.flags \union {"NEWDATA"} /\ r.send = w.send /\ r.kept = w.kept /\ r.free = w.free
        /\ \A t \in Conns \ {s} : r.slot[t] = w.slot[t]
    BY <1>1, <1>3 DEF Restarted, Own, Effect, SlotOK, SlotShape
  <2>2. /\ r.slot[s].state = o.state \ {"RESTART"} /\ r.slot[s].in = o.in /\ r.slot[s].lport = o.lport
        /\ r.slot[s].out = o.out /\ r.slot[s].room = o.room
    BY <1>1, <1>3 DEF Restarted, Own, Effect, SlotOK, SlotShape
  <2>3. ConnShape(r.c) /\ SameConn(r.c, w.c) /\ r.c.app = s
    BY <1>1, <1>3 DEF Restarted, Own, Effect, ConnShape, SameConn
  <2>5. "CONNECTED" \in r.slot[s].state /\ ("CLOSE" \notin o.state => "CLOSE" \notin r.slot[s].state)
    BY <1>1, <2>2 DEF Serves
  <2> HIDE DEF r, s, o
  <2>7. SlotOK(r.slot[s])
    BY <1>1, <2>1, <2>2, <2>5 DEF SlotOK, SlotShape
  <2>8. Effect(r)
    BY <1>1, <2>1, <2>3, <2>7, Builds DEF Effect
  <2>9. r.free + Units(r.slot[s]) = w.free + Units(o)
    BY <1>1, <2>1, <2>2 DEF Units
  <2>10. Serves(r.slot[s])
    BY <1>1, <2>2 DEF Serves
  <2>11. Touches(r, w, s) /\ Ready(r)
    BY <1>1, <2>1, <2>3, <2>8, <2>9, <2>10 DEF Touches, Ready, Own, o
  <2> QED BY <2>1, <2>2, <2>3, <2>11 DEF r, s, o
<1> QED BY <1>2, <1>3

LEMMA ClosedIs ==
  ASSUME NEW w, Ready(w)
  PROVE  LET r == Closed(w)
             s == w.c.app
         IN  /\ Touches(r, w, s)
             /\ r.c.app = NoSlot /\ r.c.stopped = w.c.stopped /\ r.flags = w.flags /\ r.send = w.send
             /\ r.slot[s].out = <<>>
<1> DEFINE r == Closed(w)
           s == w.c.app
           o == w.slot[s]
<1>1. s \in Conns /\ SlotOK(o) /\ Effect(w) /\ Serves(o) /\ Own(w) = o
  BY DEF Ready, Effect, Own
<1>2. /\ DOMAIN r = DOMAIN w /\ DOMAIN r.slot = Conns /\ DOMAIN r.slot[s] = DOMAIN o
      /\ r.flags = w.flags /\ r.send = w.send /\ r.kept = w.kept /\ r.free = w.free + Len(o.out)
      /\ \A t \in Conns \ {s} : r.slot[t] = w.slot[t]
  BY <1>1 DEF Closed, Own, Effect, SlotOK, SlotShape
<1>3. /\ r.slot[s].state = IF o.in # <<>> THEN o.state \union {"REMOTECLOSED"} ELSE {}
      /\ r.slot[s].lport = IF o.in # <<>> THEN w.c.lport ELSE o.lport
      /\ r.slot[s].in = o.in /\ r.slot[s].out = <<>> /\ r.slot[s].room = 0
  BY <1>1 DEF Closed, Own, Effect, SlotOK, SlotShape
<1>4. ConnShape(r.c) /\ SameConn(r.c, w.c) /\ r.c.app = NoSlot /\ r.c.stopped = w.c.stopped
  BY <1>1 DEF Closed, Own, Effect, ConnShape, SameConn
<1>5. /\ r.slot[s].state = {} \/ "CONNECTED" \in r.slot[s].state
      /\ o.in # <<>> => "CONNECTED" \in r.slot[s].state /\ "CLOSE" \notin r.slot[s].state
  <2>1. CASE o.in # <<>>
    <3>1. "CONNECTED" \in o.state /\ "CLOSE" \notin o.state
      BY <1>1, <2>1 DEF SlotOK
    <3> HIDE DEF r, s, o
    <3> QED BY <1>3, <2>1, <3>1
  <2>2. CASE o.in = <<>>
    BY <1>3, <2>2
  <2> QED BY <2>1, <2>2
<1>6. <<>> \in Seq(Block) /\ Len(<<>>) = 0 /\ Filled(<<>>)
  BY DEF Filled
<1>7. o.out \in Seq(Block) /\ o.in \in Seq(Block) /\ w.free \in Nat /\ r.free \in Nat
  BY <1>1, <1>2 DEF SlotOK, SlotShape, Effect
<1> HIDE DEF r, s, o
<1>8. SlotOK(r.slot[s])
  BY <1>1, <1>2, <1>3, <1>5, <1>6 DEF SlotOK, SlotShape
<1>9. Effect(r)
  BY <1>1, <1>2, <1>4, <1>7, <1>8, Builds DEF Effect
<1>10. r.free + Units(r.slot[s]) = w.free + Units(o)
  <2>1. Len(r.slot[s].out) = 0 /\ Len(r.slot[s].in) = Len(o.in)
    BY <1>3, <1>6, Zenon
  <2>2. Units(r.slot[s]) = Len(o.in) + 0 /\ Units(o) = Len(o.in) + Len(o.out)
    BY <2>1 DEF Units
  <2>3. r.free = w.free + Len(o.out)
    BY <1>2
  <2>4. Len(o.in) \in Nat /\ Len(o.out) \in Nat /\ w.free \in Nat
    BY <1>7
  <2>5. \A x, y, z \in Nat : (z + y) + (x + 0) = z + (x + y)
    OBVIOUS
  <2>6. (w.free + Len(o.out)) + (Len(o.in) + 0) = w.free + (Len(o.in) + Len(o.out))
    BY <2>4, <2>5, Zenon
  <2> QED BY <2>2, <2>3, <2>6, Zenon
<1> QED BY <1>2, <1>3, <1>4, <1>9, <1>10 DEF Touches, r, s, o

LEMMA OfferedIs ==
  ASSUME NEW w, Ready(w), Own(w).out # <<>>
  PROVE  LET r == Offered(w)
             s == w.c.app
         IN  /\ Touches(r, w, s) /\ Ready(r)
             /\ r.c = w.c /\ r.flags = w.flags /\ r.send = Head(w.slot[s].out)
             /\ r.slot[s].state = w.slot[s].state
             /\ r.slot[s].out = w.slot[s].out
             /\ Len(w.slot[s].out) = 1 => r.slot[s].room = 0
<1> DEFINE r == Offered(w)
           s == w.c.app
           o == w.slot[s]
<1>1. s \in Conns /\ SlotOK(o) /\ Effect(w) /\ Serves(o) /\ Own(w) = o
  BY DEF Ready, Effect, Own
<1>2. Head(o.out) \in Block /\ Head(o.out) # <<>>
  <2>1. o.out \in Seq(Block) /\ o.out # <<>>
    BY <1>1 DEF SlotOK, SlotShape
  <2>2. 1 \in 1 .. Len(o.out) /\ Head(o.out) = o.out[1] /\ o.out[1] \in Block
    BY <2>1
  <2> QED BY <2>2, <1>1 DEF SlotOK, Filled
<1>3. /\ DOMAIN r = DOMAIN w /\ DOMAIN r.slot = Conns /\ DOMAIN r.slot[s] = DOMAIN o
      /\ r.c = w.c /\ r.flags = w.flags /\ r.send = Head(o.out) /\ r.kept = w.kept /\ r.free = w.free
      /\ \A t \in Conns \ {s} : r.slot[t] = w.slot[t]
  BY <1>1 DEF Offered, Own, Effect, SlotOK, SlotShape
<1>4. /\ r.slot[s].state = o.state /\ r.slot[s].in = o.in /\ r.slot[s].lport = o.lport
      /\ r.slot[s].out = o.out
      /\ r.slot[s].room = IF Len(o.out) = 1 THEN 0 ELSE o.room
  BY <1>1, <1>2 DEF Offered, Own, Effect, SlotOK, SlotShape
<1>5. o.out # <<>>
  BY <1>1
<1> HIDE DEF r, s, o
<1>6. SlotOK(r.slot[s])
  BY <1>1, <1>3, <1>4, <1>5 DEF SlotOK, SlotShape
<1>7. Effect(r)
  BY <1>1, <1>2, <1>3, <1>6, Builds DEF Effect
<1>8. r.free + Units(r.slot[s]) = w.free + Units(o)
  BY <1>3, <1>4 DEF Units
<1>9. Serves(r.slot[s]) /\ r.c.app = s /\ SameConn(r.c, w.c)
  BY <1>1, <1>3, <1>4 DEF Serves, SameConn, s
<1>10. Touches(r, w, s) /\ Ready(r)
  BY <1>1, <1>3, <1>7, <1>8, <1>9 DEF Touches, Ready, Own, o
<1> QED BY <1>3, <1>4, <1>10 DEF r, s, o

(* Either nothing but the stopping of the connection happens, or the       *)
(* connection is closed and its slot freed.                                *)
LEMMA ClosedWhenSentIs ==
  ASSUME NEW w, Ready(w)
  PROVE  LET r == ClosedWhenSent(w)
             s == w.c.app
         IN  /\ Touches(r, w, s)
             /\ r.send = w.send /\ r.slot[s].out = w.slot[s].out
             /\ \/ Ready(r) /\ r.c.app = s /\ r.flags = w.flags /\ r.slot[s] = w.slot[s]
                \/ /\ r.c.app = NoSlot /\ r.flags = {"CLOSE"} /\ w.slot[s].out = <<>>
                   /\ "CLOSE" \in w.slot[s].state
<1> DEFINE r == ClosedWhenSent(w)
           s == w.c.app
           o == w.slot[s]
<1>1. s \in Conns /\ SlotOK(o) /\ Effect(w) /\ Serves(o) /\ Own(w) = o
  BY DEF Ready, Effect, Own
<1>2. CASE "CLOSE" \notin o.state
  <2>1. r = w
    BY <1>2 DEF ClosedWhenSent, Own
  <2> QED BY <2>1, <1>1 DEF Touches, SameConn
<1>3. CASE "CLOSE" \in o.state /\ o.out = <<>>
  <2>1. /\ DOMAIN r = DOMAIN w /\ DOMAIN r.slot = Conns /\ DOMAIN r.slot[s] = DOMAIN o
        /\ r.flags = {"CLOSE"} /\ r.send = w.send /\ r.kept = w.kept /\ r.free = w.free
        /\ \A t \in Conns \ {s} : r.slot[t] = w.slot[t]
    BY <1>1, <1>3 DEF ClosedWhenSent, Own, Effect, SlotOK, SlotShape
  <2>2. /\ r.slot[s].state = {} /\ r.slot[s].in = o.in /\ r.slot[s].lport = o.lport
        /\ r.slot[s].out = o.out /\ r.slot[s].room = o.room
    BY <1>1, <1>3 DEF ClosedWhenSent, Own, Effect, SlotOK, SlotShape
  <2>3. ConnShape(r.c) /\ SameConn(r.c, w.c) /\ r.c.app = NoSlot
    BY <1>1, <1>3 DEF ClosedWhenSent, Own, Effect, ConnShape, SameConn
  <2>4. o.in = <<>>
    BY <1>1, <1>3 DEF SlotOK
  <2> HIDE DEF r, s, o
  <2>7. SlotOK(r.slot[s])
    BY <1>1, <2>1, <2>2, <2>4 DEF SlotOK, SlotShape
  <2>8. Effect(r)
    BY <1>1, <2>1, <2>3, <2>7, Builds DEF Effect
  <2>9. r.free + Units(r.slot[s]) = w.free + Units(o)
    BY <1>1, <2>1, <2>2 DEF Units
  <2> QED BY <1>1, <1>3, <2>1, <2>2, <2>3, <2>8, <2>9 DEF Touches, r, s, o
<1>4. CASE "CLOSE" \in o.state /\ o.out # <<>>
  <2>1. /\ DOMAIN r = DOMAIN w /\ r.slot = w.slot
        /\ r.flags = w.flags /\ r.send = w.send /\ r.kept = w.kept /\ r.free = w.free
    BY <1>1, <1>4 DEF ClosedWhenSent, Own, Effect
  <2>2. ConnShape(r.c) /\ SameConn(r.c, w.c) /\ r.c.app = s
    BY <1>1, <1>4 DEF ClosedWhenSent, Own, Effect, ConnShape, SameConn
  <2> HIDE DEF r
  <2>3. Effect(r)
    BY <1>1, <2>1, <2>2 DEF Effect
  <2>4. Touches(r, w, s) /\ Ready(r)
    BY <1>1, <2>1, <2>2, <2>3 DEF Touches, Ready, Own
  <2> QED BY <2>1, <2>2, <2>4 DEF r
<1> QED BY <1>2, <1>3, <1>4

(***************************************************************************)
(* uipclient_appcall                                                       *)
(***************************************************************************)
(* The blocks that are left when the acknowledged one has been eaten, and  *)
(* what a call does to its slot s: it drops everything, offers the first   *)
(* block, closes the connection, or leaves the output alone.               *)
Remaining(w) == IF "ACKDATA" \in w.flags /\ Own(w).out # <<>> THEN Tail(Own(w).out) ELSE Own(w).out

Drops(r, w, s) == w.flags \intersect {"CLOSE", "TIMEDOUT"} # {} /\ r.c.app = NoSlot /\ r.slot[s].out = <<>> /\ r.send = w.send
Offers(r, w, s) ==
  /\ r.c.app = s /\ "CLOSE" \notin r.flags /\ w.flags \intersect {"POLL", "REXMIT"} # {}
  /\ Remaining(w) # <<>> /\ r.send = Head(Remaining(w)) /\ (Len(Remaining(w)) = 1 => r.slot[s].room = 0)
Closes(r, w, s) ==
  r.c.app = NoSlot /\ r.flags = {"CLOSE"} /\ Remaining(w) = <<>> /\ "CLOSE" \in Own(w).state /\ r.send = w.send
Waits(r, w, s) ==
  r.c.app = s /\ "CLOSE" \notin r.flags /\ r.send = w.send /\ (Own(w).room = 0 => r.slot[s].room = 0)

Outcome(r, w, s) ==
  \/ Drops(r, w, s)
  \/ /\ w.flags \intersect {"CLOSE", "TIMEDOUT"} = {} /\ r.slot[s].out = Remaining(w)
     /\ Offers(r, w, s) \/ Closes(r, w, s) \/ Waits(r, w, s)

LEMMA TouchesTwice ==
  ASSUME NEW v, NEW w, NEW r, NEW s \in Conns, Effect(w), Touches(v, w, s), Touches(r, v, s)
  PROVE  Touches(r, w, s)
<1>1. \A t \in Conns \ {s} : r.slot[t] = w.slot[t]
  BY DEF Touches
<1>2. SameConn(r.c, w.c)
  BY DEF Touches, SameConn
<1>3. r.free + Units(r.slot[s]) = w.free + Units(w.slot[s])
  BY DEF Touches
<1> QED BY <1>1, <1>2, <1>3 DEF Touches

LEMMA SendOrCloseIs ==
  ASSUME NEW v, Ready(v), NEW r, r = SendOrClose(v), "CLOSE" \notin v.flags
  PROVE  LET s == v.c.app
         IN  /\ Touches(r, v, s) /\ r.slot[s].out = v.slot[s].out
             /\ \/ /\ Ready(r) /\ r.c.app = s /\ r.flags = v.flags /\ v.slot[s].out # <<>>
                   /\ v.flags \intersect {"POLL", "REXMIT"} # {}
                   /\ r.send = Head(v.slot[s].out) /\ (Len(v.slot[s].out) = 1 => r.slot[s].room = 0)
                \/ /\ r.c.app = NoSlot /\ r.flags = {"CLOSE"} /\ v.slot[s].out = <<>>
                   /\ "CLOSE" \in v.slot[s].state /\ r.send = v.send
                \/ /\ Ready(r) /\ r.c.app = s /\ r.flags = v.flags /\ r.send = v.send
                   /\ (v.slot[s].room = 0 => r.slot[s].room = 0)
<1>1. CASE v.flags \intersect {"POLL", "REXMIT"} # {} /\ Own(v).out # <<>>
  <2>1. r = Offered(v)
    BY <1>1 DEF SendOrClose
  <2> QED BY <1>1, <2>1, OfferedIs DEF Own
<1>2. CASE ~(v.flags \intersect {"POLL", "REXMIT"} # {} /\ Own(v).out # <<>>)
  <2>1. r = ClosedWhenSent(v)
    BY <1>2 DEF SendOrClose
  <2> QED BY <2>1, ClosedWhenSentIs
<1> QED BY <1>1, <1>2

LEMMA EventIs ==
  ASSUME NEW w, Ready(w), NEW r, r = Event(w)
  PROVE  LET s == w.c.app
         IN  Touches(r, w, s) /\ Outcome(r, w, s) /\ (r.c.app = s => Ready(r))
<1> DEFINE s == w.c.app
<1>1. s \in Conns /\ s # NoSlot /\ Effect(w)
  BY SlotAssumption DEF Ready, NoSlot
<1>2. CASE w.flags \intersect {"CLOSE", "TIMEDOUT"} # {}
  <2>1. r = Closed(w)
    BY <1>2 DEF Event
  <2> QED BY <1>1, <1>2, <2>1, ClosedIs DEF Outcome, Drops
<1>3. CASE w.flags \intersect {"CLOSE", "TIMEDOUT"} = {}
  <2> DEFINE v == Acked(w)
  <2>1. r = SendOrClose(v)
    BY <1>3 DEF Event, Then
  <2>2. /\ Touches(v, w, s) /\ Ready(v) /\ v.c = w.c /\ v.flags = w.flags /\ v.send = w.send
        /\ v.slot[s].state = w.slot[s].state /\ v.slot[s].out = Remaining(w)
        /\ w.slot[s].room = 0 => v.slot[s].room = 0
    BY AckedIs DEF Remaining, Own
  <2>3. "CLOSE" \notin v.flags
    BY <1>3, <2>2
  <2> HIDE DEF v, s
  <2>4. v.c.app = s /\ w.c.app = s
    BY <2>2 DEF s
  <2>5. Touches(r, v, s) /\ r.slot[s].out = Remaining(w)
    BY <2>1, <2>2, <2>3, <2>4, SendOrCloseIs
  <2>6. \/ Ready(r) /\ r.c.app = s /\ Offers(r, w, s)
        \/ r.c.app = NoSlot /\ Closes(r, w, s)
        \/ Ready(r) /\ r.c.app = s /\ Waits(r, w, s)
    BY <2>1, <2>2, <2>3, <2>4, SendOrCloseIs DEF Offers, Closes, Waits, Own
  <2>7. Touches(r, w, s)
    BY <1>1, <2>2, <2>5, TouchesTwice
  <2> QED BY <1>1, <1>3, <2>4, <2>5, <2>6, <2>7 DEF Outcome
<1> QED BY <1>2, <1>3

(* A finite set of numbers has a least one: of the sets {j \in S : j <= i} *)
(* one is a strict subset of no other.                                     *)
LEMMA MinIn == ASSUME NEW S \in SUBSET Conns, S # {} PROVE Min(S) \in S
<1> DEFINE Below(i) == {j \in S : j <= i}
           Belows == {Below(i) : i \in S}
           R == StrictSubsetOrdering(S)
<1>1. IsWellFoundedOn(R, SUBSET S)
  <2>1. IsFiniteSet(S)
    BY SlotAssumption, FS_Subset
  <2> QED BY <2>1, FS_FiniteSubsetsOfFinite, FS_StrictSubsetOrderingWellFounded
<1>2. Belows \subseteq SUBSET S /\ Belows # {} /\ S \subseteq Nat
  BY SlotAssumption
<1> HIDE DEF R
<1>3. PICK B \in Belows : \A C \in Belows : <<C, B>> \notin R
  BY <1>1, <1>2, WFMin
<1>4. PICK i \in S : B = Below(i)
  BY <1>3
<1>5. ASSUME NEW j \in S, j < i PROVE FALSE
  <2>1. i \in Below(i) /\ i \notin Below(j) /\ Below(j) \subseteq Below(i)
    <3>1. i \in Nat /\ j \in Nat /\ i <= i /\ ~(i <= j) /\ \A x \in S : x <= j => x <= i
      BY <1>5, <1>2
    <3> QED BY <3>1
  <2>2. Below(j) \in Belows /\ Below(j) \in SUBSET S /\ Below(i) \in SUBSET S
    OBVIOUS
  <2>3. <<Below(j), Below(i)>> \in R
    BY <2>1, <2>2 DEF R, StrictSubsetOrdering
  <2> QED BY <1>3, <1>4, <2>2, <2>3
<1>6. \A j \in S : i =< j
  BY <1>2, <1>5
<1> QED BY <1>6 DEF Min

LEMMA AttachedIs ==
  ASSUME NEW w, Effect(w)
  PROVE  LET r == Attached(w)
         IN  \/ r = w
             \/ \E s \in Conns :
                  /\ w.c.app = NoSlot /\ "CONNECTED" \in w.flags /\ ~InUse(w.slot[s])
                  /\ Ready(r) /\ SameConn(r.c, w.c) /\ r.c.app = s /\ r.flags = w.flags /\ r.send = w.send
                  /\ r.slot[s] = NewSlot /\ r.free = w.free
                  /\ \A t \in Conns \ {s} : r.slot[t] = w.slot[t]
<1> DEFINE r == Attached(w)
           s == Min(FreeSlots(w))
<1>1. CASE ~(w.c.app = NoSlot /\ "CONNECTED" \in w.flags /\ FreeSlots(w) # {})
  BY <1>1 DEF Attached
<1>2. CASE w.c.app = NoSlot /\ "CONNECTED" \in w.flags /\ FreeSlots(w) # {}
  <2>1. s \in Conns /\ ~InUse(w.slot[s])
    <3>1. FreeSlots(w) \in SUBSET Conns
      BY DEF FreeSlots
    <3>2. s \in FreeSlots(w)
      BY <1>2, <3>1, MinIn
    <3> QED BY <3>2 DEF FreeSlots
  <2> HIDE DEF s
  <2>2. r = [w EXCEPT !.c.app = s, !.slot[s] = NewSlot]
    BY <1>2 DEF Attached, s
  <2>3. /\ DOMAIN r = DOMAIN w /\ DOMAIN r.slot = Conns
        /\ r.flags = w.flags /\ r.send = w.send /\ r.kept = w.kept /\ r.free = w.free
        /\ r.slot[s] = NewSlot /\ \A t \in Conns \ {s} : r.slot[t] = w.slot[t]
    BY <2>1, <2>2 DEF Effect
  <2>4. ConnShape(r.c) /\ SameConn(r.c, w.c) /\ r.c.app = s
    BY <2>1, <2>2 DEF Effect, ConnShape, SameConn
  <2>5. SlotOK(NewSlot) /\ Serves(NewSlot)
    BY DEF NewSlot, SlotOK, SlotShape, Filled, Serves
  <2> HIDE DEF r
  <2>6. Effect(r)
    BY <2>1, <2>3, <2>4, <2>5, Builds DEF Effect
  <2>7. Ready(r)
    BY <2>1, <2>3, <2>4, <2>5, <2>6 DEF Ready, Own
  <2> QED BY <1>2, <2>1, <2>3, <2>4, <2>7 DEF r
<1> QED BY <1>1, <1>2

(* The stages for a connection that has a slot.                            *)
Handled(w, new) == Event(Restarted(IF new = {} THEN w ELSE Stored(w, CHOOSE packet \in new : TRUE)))

LEMMA HandledIs ==
  ASSUME NEW w, Ready(w), NEW new \in SUBSET Packets, NEW r, r = Handled(w, new)
  PROVE  LET s == w.c.app
         IN  Touches(r, w, s) /\ Outcome(r, w, s) /\ (r.c.app = s => Ready(r))
<1> DEFINE s == w.c.app
           v == IF new = {} THEN w ELSE Stored(w, CHOOSE packet \in new : TRUE)
           u == Restarted(v)
<1>1. s \in Conns /\ Effect(w)
  BY DEF Ready
<1>2. /\ Touches(v, w, s) /\ Ready(v) /\ v.c.app = s /\ v.flags = w.flags /\ v.send = w.send
      /\ v.slot[s].state = w.slot[s].state /\ v.slot[s].out = w.slot[s].out /\ v.slot[s].room = w.slot[s].room
  <2>1. CASE new = {}
    BY <1>1, <2>1 DEF Touches, SameConn
  <2>2. CASE new # {}
    <3>1. (CHOOSE packet \in new : TRUE) \in Packets
      BY <2>2
    <3> QED BY <2>2, <3>1, StoredIs
  <2> QED BY <2>1, <2>2
<1> HIDE DEF v
<1>3. /\ Touches(u, v, s) /\ Ready(u) /\ u.c.app = s /\ u.flags \in {v.flags, v.flags \union {"NEWDATA"}}
      /\ u.send = v.send /\ u.slot[s].state = v.slot[s].state \ {"RESTART"}
      /\ u.slot[s].out = v.slot[s].out /\ u.slot[s].room = v.slot[s].room
  BY <1>2, RestartedIs
<1>4. r = Event(u)
  BY DEF Handled, v
<1> HIDE DEF u, s
<1>5. Touches(r, u, s) /\ Outcome(r, u, s) /\ (r.c.app = s => Ready(r))
  BY <1>3, <1>4, EventIs
<1>6. Touches(r, w, s)
  BY <1>1, <1>2, <1>3, <1>5, TouchesTwice
<1>7. /\ "CLOSE" \in u.flags <=> "CLOSE" \in w.flags
      /\ "TIMEDOUT" \in u.flags <=> "TIMEDOUT" \in w.flags
      /\ "ACKDATA" \in u.flags <=> "ACKDATA" \in w.flags
      /\ "POLL" \in u.flags <=> "POLL" \in w.flags
      /\ "REXMIT" \in u.flags <=> "REXMIT" \in w.flags
      /\ "CLOSE" \in u.slot[s].state => "CLOSE" \in w.slot[s].state
  BY <1>2, <1>3
<1>8. Own(u) = u.slot[s] /\ Own(w) = w.slot[s]
  BY <1>3 DEF Own, s
<1>9. Remaining(u) = Remaining(w)
  BY <1>2, <1>3, <1>7, <1>8 DEF Remaining
<1>10. w.flags \intersect {"CLOSE", "TIMEDOUT"} = {} <=> u.flags \intersect {"CLOSE", "TIMEDOUT"} = {}
  BY <1>7
<1>11. Outcome(r, w, s)
  <2>1. CASE Drops(r, u, s)
    BY <1>2, <1>3, <1>10, <2>1 DEF Outcome, Drops
  <2>2. CASE ~Drops(r, u, s)
    <3>1. u.flags \intersect {"CLOSE", "TIMEDOUT"} = {} /\ r.slot[s].out = Remaining(u)
      BY <1>5, <2>2 DEF Outcome
    <3>2. CASE Offers(r, u, s)
      BY <1>7, <1>9, <1>10, <3>1, <3>2 DEF Outcome, Offers
    <3>3. CASE Closes(r, u, s)
      BY <1>2, <1>3, <1>7, <1>8, <1>9, <1>10, <3>1, <3>3 DEF Outcome, Closes
    <3>4. CASE Waits(r, u, s)
      BY <1>2, <1>3, <1>8, <1>9, <1>10, <3>1, <3>4 DEF Outcome, Waits
    <3> QED BY <1>5, <2>2, <3>2, <3>3, <3>4 DEF Outcome
  <2> QED BY <2>1, <2>2
<1> QED BY <1>5, <1>6, <1>11 DEF s

(* A call finds a connection that has no slot and gets none, one that gets *)
(* slot s, or one that has it.                                             *)
Nothing(r, w) == r = w /\ w.c.app = NoSlot
Fresh(r, w, s) ==
  /\ w.c.app = NoSlot /\ "CONNECTED" \in w.flags /\ ~InUse(w.slot[s])
  /\ r.c.app = s /\ r.slot[s].out = <<>> /\ r.free + Units(r.slot[s]) = w.free
  /\ "CLOSE" \notin r.flags /\ r.send = w.send
Has(r, w, s) ==
  w.c.app = s /\ r.free + Units(r.slot[s]) = w.free + Units(w.slot[s]) /\ Outcome(r, w, s)

Called(r, w) ==
  /\ Effect(r) /\ SameConn(r.c, w.c)
  /\ \/ Nothing(r, w)
     \/ \E s \in Conns :
          /\ \A t \in Conns \ {s} : r.slot[t] = w.slot[t]
          /\ r.c.app \in {NoSlot, s} /\ (r.c.app = s => Serves(r.slot[s]))
          /\ Fresh(r, w, s) \/ Has(r, w, s)

LEMMA AppCallIs ==
  ASSUME NEW w, Effect(w), w.c.app # NoSlot => Serves(Own(w)), NEW new \in SUBSET Packets,
         "CONNECTED" \in w.flags => w.flags \intersect {"CLOSE", "TIMEDOUT"} = {}
  PROVE  Called(AppCall(w, new), w)
<1> DEFINE v == Attached(w)
           r == AppCall(w, new)
<1>1. r = IF v.c.app = NoSlot THEN v ELSE Handled(v, new)
  BY DEF AppCall, Then, Handled
<1>2. w.c.app \in Conns \union {NoSlot} /\ NoSlot \notin Conns
  BY SlotAssumption DEF Effect, ConnShape, NoSlot
<1>3. CASE v = w /\ w.c.app = NoSlot
  BY <1>1, <1>3 DEF Called, Nothing, SameConn
<1>4. CASE v = w /\ w.c.app # NoSlot
  <2> DEFINE s == w.c.app
  <2>1. Ready(w) /\ s \in Conns /\ r = Handled(w, new)
    BY <1>1, <1>2, <1>4 DEF Ready
  <2> HIDE DEF r
  <2>2. Touches(r, w, s) /\ Outcome(r, w, s) /\ (r.c.app = s => Ready(r))
    BY <2>1, HandledIs
  <2>3. r.c.app \in {NoSlot, s}
    BY <2>2 DEF Outcome, Drops, Offers, Closes, Waits
  <2>4. r.c.app = s => Serves(r.slot[s])
    BY <2>2 DEF Ready, Own
  <2> HIDE DEF s
  <2>5. Effect(r) /\ SameConn(r.c, w.c) /\ (\A t \in Conns \ {s} : r.slot[t] = w.slot[t]) /\ Has(r, w, s)
    BY <2>2 DEF Touches, Has, s
  <2> QED BY <2>1, <2>3, <2>4, <2>5 DEF Called, r
<1>5. CASE v # w
  <2>1. PICK s \in Conns :
          /\ w.c.app = NoSlot /\ "CONNECTED" \in w.flags /\ ~InUse(w.slot[s])
          /\ Ready(v) /\ SameConn(v.c, w.c) /\ v.c.app = s /\ v.flags = w.flags /\ v.send = w.send
          /\ v.slot[s] = NewSlot /\ v.free = w.free
          /\ \A t \in Conns \ {s} : v.slot[t] = w.slot[t]
    BY <1>5, AttachedIs
  <2>2. r = Handled(v, new)
    BY <1>1, <1>2, <2>1
  <2> HIDE DEF r, v
  <2>3. Touches(r, v, s) /\ Outcome(r, v, s) /\ (r.c.app = s => Ready(r))
    BY <2>1, <2>2, HandledIs
  <2>4. Own(v) = NewSlot /\ NewSlot.out = <<>> /\ "CLOSE" \notin NewSlot.state /\ NewSlot.in = <<>>
    BY <2>1 DEF Own, NewSlot
  <2>5. Remaining(v) = <<>>
    BY <2>4 DEF Remaining
  <2>6. v.flags \intersect {"CLOSE", "TIMEDOUT"} = {}
    BY <2>1
  <2>7. r.slot[s].out = <<>> /\ r.c.app = s /\ "CLOSE" \notin r.flags /\ r.send = w.send
    BY <2>1, <2>3, <2>4, <2>5, <2>6 DEF Outcome, Drops, Offers, Closes, Waits
  <2>8. r.free + Units(r.slot[s]) = w.free
    <3>1. r.free + Units(r.slot[s]) = w.free + Units(NewSlot)
      BY <2>1, <2>3 DEF Touches
    <3>2. Units(NewSlot) = 0 /\ w.free \in Nat
      BY DEF Units, NewSlot, Effect
    <3> QED BY <3>1, <3>2
  <2>9. Serves(r.slot[s])
    BY <2>3, <2>7 DEF Ready, Own
  <2>10. Effect(r) /\ SameConn(r.c, w.c) /\ (\A t \in Conns \ {s} : r.slot[t] = w.slot[t])
    BY <2>1, <2>3 DEF Touches, SameConn
  <2>11. Fresh(r, w, s)
    BY <2>1, <2>7, <2>8 DEF Fresh
  <2> QED BY <2>7, <2>9, <2>10, <2>11 DEF Called, r
<1> QED BY <1>3, <1>4, <1>5

(***************************************************************************)
(* The blocks that the slots hold                                          *)
(***************************************************************************)
LEMMA UnitsAre ==
  ASSUME NEW o, SlotOK(o), NEW s
  PROVE  LET H == {s} \X Handles(o)
         IN  IsFiniteSet(H) /\ Cardinality(H) = Units(o) /\ Units(o) \in Nat
<1> DEFINE In == {"in"} \X (1 .. Len(o.in))
           Out == {"out"} \X (1 .. Len(o.out))
<1>1. o.in \in Seq(Block) /\ o.out \in Seq(Block)
  BY DEF SlotOK, SlotShape
<1>2. Len(o.in) \in Nat /\ Len(o.out) \in Nat /\ DOMAIN o.in = 1 .. Len(o.in) /\ DOMAIN o.out = 1 .. Len(o.out)
  BY <1>1
<1>3. Handles(o) = In \union Out /\ In \intersect Out = {}
  BY <1>2 DEF Handles
<1>4. \A n \in Nat : IsFiniteSet(1 .. n) /\ Cardinality(1 .. n) = n
  <2> TAKE n \in Nat
  <2>1. Cardinality(1 .. n) = (IF 1 > n THEN 0 ELSE n - 1 + 1) /\ IsFiniteSet(1 .. n)
    BY FS_Interval
  <2> QED BY <2>1
<1>5. \A x : \A S : IsFiniteSet(S) => IsFiniteSet({x} \X S) /\ Cardinality({x} \X S) = Cardinality(S)
  <2> TAKE x, S
  <2> HAVE IsFiniteSet(S)
  <2>1. IsFiniteSet({x}) /\ Cardinality({x}) = 1
    BY FS_Singleton
  <2>2. IsFiniteSet({x} \X S) /\ Cardinality({x} \X S) = Cardinality({x}) * Cardinality(S)
    BY <2>1, FS_Product
  <2>3. Cardinality(S) \in Nat
    BY FS_CardinalityType
  <2> QED BY <2>1, <2>2, <2>3
<1>6. /\ IsFiniteSet(In) /\ Cardinality(In) = Len(o.in)
      /\ IsFiniteSet(Out) /\ Cardinality(Out) = Len(o.out)
  BY <1>2, <1>4, <1>5
<1> HIDE DEF In, Out
<1>7. IsFiniteSet(Handles(o)) /\ Cardinality(Handles(o)) = Units(o)
  <2>1. IsFiniteSet(In \union Out) /\ Cardinality(In \union Out) = Cardinality(In) + Cardinality(Out) - Cardinality(In \intersect Out)
    BY <1>6, FS_Union
  <2>2. Cardinality(In \intersect Out) = 0
    BY <1>3, FS_EmptySet
  <2> QED BY <1>2, <1>3, <1>6, <2>1, <2>2 DEF Units
<1>8. Units(o) \in Nat
  <2>1. \A x, y \in Nat : x + y \in Nat
    OBVIOUS
  <2> QED BY <1>2, <2>1, Zenon DEF Units
<1> QED BY <1>5, <1>7, <1>8

LEMMA HeldIs ==
  ASSUME NEW a, \A t \in Conns : SlotOK(a[t]), NEW s \in Conns
  PROVE  LET Rest == UNION {{t} \X Handles(a[t]) : t \in Conns \ {s}}
         IN  IsFiniteSet(Rest) /\ Held(a) = Cardinality(Rest) + Units(a[s])
<1> DEFINE H == [t \in Conns \ {s} |-> {t} \X Handles(a[t])]
           All == {{t} \X Handles(a[t]) : t \in Conns \ {s}}
           Rest == UNION All
           Own_s == {s} \X Handles(a[s])
<1>1. IsFiniteSet(All)
  <2>1. IsFiniteSet(Conns \ {s})
    BY SlotAssumption, FS_Subset
  <2>2. H \in Surjection(Conns \ {s}, All)
    BY DEF Surjection
  <2> HIDE DEF H, All
  <2> QED BY <2>1, <2>2, FS_Surjection
<1>2. \A T \in All : IsFiniteSet(T)
  BY UnitsAre
<1>3. IsFiniteSet(Rest)
  BY <1>1, <1>2, FS_UNION
<1>4. IsFiniteSet(Own_s) /\ Cardinality(Own_s) = Units(a[s]) /\ Units(a[s]) \in Nat
  BY UnitsAre
<1>5. UNION {{t} \X Handles(a[t]) : t \in Conns} = Rest \union Own_s
  OBVIOUS
<1>6. Rest \intersect Own_s = {}
  OBVIOUS
<1> HIDE DEF Rest, Own_s
<1>7. Cardinality(Rest \union Own_s) = Cardinality(Rest) + Cardinality(Own_s) - Cardinality(Rest \intersect Own_s)
  BY <1>3, <1>4, FS_Union
<1>8. Cardinality(Rest \intersect Own_s) = 0 /\ Cardinality(Rest) \in Nat
  BY <1>3, <1>6, FS_EmptySet, FS_CardinalityType
<1>9. Held(a) = Cardinality(Rest) + Units(a[s])
  <2>1. Held(a) = Cardinality(Rest \union Own_s)
    BY <1>5, Zenon DEF Held
  <2> QED BY <1>4, <1>7, <1>8, <2>1
<1> QED BY <1>3, <1>9 DEF Rest

(* When one slot changes, what is held changes by what it holds.           *)
LEMMA HeldChanges ==
  ASSUME NEW a, NEW b, NEW s \in Conns, \A t \in Conns : SlotOK(a[t]) /\ SlotOK(b[t]),
         \A t \in Conns \ {s} : b[t] = a[t]
  PROVE  Held(b) + Units(a[s]) = Held(a) + Units(b[s]) /\ Held(a) \in Nat /\ Held(b) \in Nat
<1> DEFINE Rest(f) == UNION {{t} \X Handles(f[t]) : t \in Conns \ {s}}
<1>1. Rest(a) = Rest(b)
  OBVIOUS
<1>2. IsFiniteSet(Rest(a)) /\ Held(a) = Cardinality(Rest(a)) + Units(a[s])
  BY HeldIs
<1>3. IsFiniteSet(Rest(b)) /\ Held(b) = Cardinality(Rest(b)) + Units(b[s])
  BY HeldIs
<1>4. Units(a[s]) \in Nat /\ Units(b[s]) \in Nat
  BY UnitsAre
<1> HIDE DEF Rest
<1>5. Cardinality(Rest(a)) \in Nat
  BY <1>2, FS_CardinalityType
<1> QED BY <1>1, <1>2, <1>3, <1>4, <1>5

(***************************************************************************)
(* The types of the state, and who uses which slot                         *)
(***************************************************************************)
PeerShape(q) ==
  DOMAIN q = {"st", "conn", "una", "rcv", "eof"} /\ q.conn \in Nat /\ q.una \in Nat /\ q.rcv \in Nat

NetTypes ==
  /\ toUs \in [Peers -> SUBSET SegRec] /\ toPeer \in [Peers -> SUBSET SegRec]
  /\ DOMAIN peer = Peers /\ (\A p \in Peers : PeerShape(peer[p]))
  /\ received \in [Peers -> Block]

UipTypes ==
  /\ DOMAIN conn = Conns /\ \A i \in Conns : ConnShape(conn[i])
  /\ DOMAIN slot = Conns /\ \A t \in Conns : SlotOK(slot[t])
  /\ free \in Nat /\ in_packet \in SUBSET Packets /\ opened \in Nat

CallTypes == {NoCall} \union [op : {"connect"}, conn : Conns] \union [op : {"write"}, left : 1 .. DataLen]
SketchTypes ==
  /\ client \in Conns \union {NoSlot} /\ call \in CallTypes /\ (call.op = "write" => client # NoSlot)
  /\ written \in [Peers \union {Nobody} -> Nat]

(* A slot that a connection uses is open, and no other one uses it.        *)
Owners ==
  /\ \A i \in Conns : conn[i].app # NoSlot => Serves(slot[conn[i].app])
  /\ \A i, j \in Conns : conn[i].app = conn[j].app /\ conn[i].app # NoSlot => i = j

(* What an established connection has outstanding is the first block of its*)
(* slot, all of it; if that is the only block nothing is added to it.      *)
InFlight(c, slots) ==
  c.st = "ESTABLISHED" /\ c.len > 0 =>
    /\ c.app # NoSlot /\ slots[c.app].out # <<>> /\ c.len = Len(Head(slots[c.app].out))
    /\ Len(slots[c.app].out) = 1 => slots[c.app].room = 0

SlotInv == NetTypes /\ UipTypes /\ SketchTypes /\ Owners /\ \A i \in Conns : InFlight(conn[i], slot)

(***************************************************************************)
(* Steps of the hosts and the network                                      *)
(***************************************************************************)
LEMMA SentIn == ASSUME NEW under, NEW m, NEW e \in Sent(under, m) PROVE e \subseteq under \union {m}
BY DEF Sent

LEMMA FlagSets ==
  /\ {} \in Flags /\ {"SYN"} \in Flags /\ {"SYN", "ACK"} \in Flags /\ {"ACK"} \in Flags
  /\ {"ACK", "FIN"} \in Flags /\ {"FIN", "ACK"} \in Flags /\ {"RST"} \in Flags /\ {"RST", "ACK"} \in Flags
BY DEF Flags

LEMMA SegmentType ==
  ASSUME NEW c \in Nat, NEW f \in Flags, NEW s \in Nat, NEW d \in Block, NEW a \in Nat
  PROVE  /\ Segment(c, f, s, d, a) \in SegRec
         /\ Segment(c, f, s, d, a).conn = c /\ Segment(c, f, s, d, a).flags = f /\ Segment(c, f, s, d, a).seq = s
         /\ Segment(c, f, s, d, a).data = d /\ Segment(c, f, s, d, a).ack = a
BY DEF Segment, SegRec

LEMMA NoBytesType == <<>> \in Block
BY DEF Block

(* A host's segment is well formed when its new state is.                  *)
LEMMA FromPeerType ==
  ASSUME NEW p \in Peers, NEW f \in Flags, NEW d \in Block, PeerShape(peer'[p])
  PROVE  FromPeer(p, f, d) \in SegRec
BY SegmentType DEF FromPeer, PeerShape

LEMMA PeerSendsType ==
  ASSUME NetTypes, NEW p \in Peers, NEW m \in SegRec, PeerSends(p, m)
  PROVE  toUs' \in [Peers -> SUBSET SegRec]
<1>1. PICK under \in Sent(toUs[p], m) : toUs' = [toUs EXCEPT ![p] = under]
  BY DEF PeerSends
<1>2. under \in SUBSET SegRec
  BY <1>1, SentIn DEF NetTypes
<1> QED BY <1>1, <1>2 DEF NetTypes

LEMMA DataType ==
  ASSUME NEW p \in Peers, NEW u \in Nat, NEW n \in Nat
  PROVE  [i \in 1 .. n |-> <<p, u + i - 1>>] \in Block
<1>1. \A i \in 1 .. n : <<p, u + i - 1>> \in Byte
  BY DEF Byte
<1> QED BY <1>1 DEF Block

LEMMA PeerTypesStep ==
  ASSUME NetTypes, NEW p \in Peers, PeerStep(p)
  PROVE  NetTypes'
<1>1. CASE Connects(p)
  <2>1. peer' = [peer EXCEPT ![p].st = "synsent"] /\ PeerSends(p, FromPeer(p, {"SYN"}, <<>>)) /\ UNCHANGED <<toPeer, received>>
    BY <1>1 DEF Connects
  <2>2. DOMAIN peer' = Peers /\ \A q \in Peers : PeerShape(peer'[q])
    BY <2>1 DEF NetTypes, PeerShape
  <2>3. toUs' \in [Peers -> SUBSET SegRec]
    BY <2>1, <2>2, PeerSendsType, FromPeerType, FlagSets, NoBytesType
  <2> QED BY <2>1, <2>2, <2>3 DEF NetTypes
<1>2. CASE PeerSendsData(p)
  <2>1. PICK n \in 0 .. MaxSegment, fin \in BOOLEAN : SendsData(p, n, fin)
    BY <1>2 DEF PeerSendsData
  <2> DEFINE f == IF fin THEN {"ACK", "FIN"} ELSE {"ACK"}
             d == [i \in 1 .. n |-> <<p, peer[p].una + i - 1>>]
  <2>2. UNCHANGED <<toPeer, peer, received>> /\ PeerSends(p, FromPeer(p, f, d))
    BY <2>1 DEF SendsData
  <2>3. d \in Block
    BY DataType, PeerAssumption DEF NetTypes, PeerShape
  <2>4. f \in Flags
    BY FlagSets
  <2> HIDE DEF f, d
  <2>5. PeerShape(peer'[p])
    BY <2>2 DEF NetTypes
  <2>6. toUs' \in [Peers -> SUBSET SegRec]
    BY <2>2, <2>3, <2>4, <2>5, PeerSendsType, FromPeerType
  <2> QED BY <2>2, <2>6 DEF NetTypes
<1>3. CASE ResetsConnection(p)
  <2>1. peer' = [peer EXCEPT ![p].st = "dead"] /\ PeerSends(p, FromPeer(p, {"RST"}, <<>>)) /\ UNCHANGED <<toPeer, received>>
    BY <1>3 DEF ResetsConnection
  <2>2. DOMAIN peer' = Peers /\ \A q \in Peers : PeerShape(peer'[q])
    BY <2>1 DEF NetTypes, PeerShape
  <2>3. toUs' \in [Peers -> SUBSET SegRec]
    BY <2>1, <2>2, PeerSendsType, FromPeerType, FlagSets, NoBytesType
  <2> QED BY <2>1, <2>2, <2>3 DEF NetTypes
<1>4. CASE Loses(p)
  BY <1>4 DEF Loses, NetTypes
<1>5. ASSUME NEW m \in toPeer[p], GetsSyn(p, m) \/ GetsSynAck(p, m) \/ GetsReset(p, m) \/ GetsSegment(p, m) \/ GetsOther(p, m)
      PROVE  NetTypes'
  <2>1. m \in SegRec
    BY DEF NetTypes
  <2>2. ASSUME NEW new, PeerShape(new), Takes(p, m, new)
        PROVE  toPeer' \in [Peers -> SUBSET SegRec] /\ DOMAIN peer' = Peers /\ \A q \in Peers : PeerShape(peer'[q])
    BY <2>2 DEF Takes, NetTypes
  <2>3. ASSUME NEW f \in Flags, PeerShape(peer'[p]), Answers(p, f)
        PROVE  toUs' \in [Peers -> SUBSET SegRec]
    BY <2>3, PeerSendsType, FromPeerType, NoBytesType DEF Answers
  <2>4. CASE GetsSyn(p, m)
    <3> DEFINE new == [peer[p] EXCEPT !.st = "synrcvd", !.conn = m.conn, !.rcv = 1]
    <3>1. PeerShape(new)
      BY <2>1 DEF NetTypes, PeerShape, SegRec
    <3>2. Takes(p, m, new) /\ Answers(p, {"SYN", "ACK"}) /\ UNCHANGED received
      BY <2>4 DEF GetsSyn
    <3> HIDE DEF new
    <3> QED BY <2>2, <2>3, <3>1, <3>2, FlagSets DEF NetTypes
  <2>5. CASE GetsSynAck(p, m)
    <3> DEFINE new == [peer[p] EXCEPT !.st = "est", !.conn = m.conn, !.una = 1, !.rcv = 1]
    <3>1. PeerShape(new)
      BY <2>1 DEF NetTypes, PeerShape, SegRec
    <3>2. Takes(p, m, new) /\ Answers(p, {"ACK"}) /\ UNCHANGED received
      BY <2>5 DEF GetsSynAck
    <3> HIDE DEF new
    <3> QED BY <2>2, <2>3, <3>1, <3>2, FlagSets DEF NetTypes
  <2>6. CASE GetsReset(p, m)
    <3> DEFINE new == [peer[p] EXCEPT !.st = "dead"]
    <3>1. PeerShape(new)
      BY DEF NetTypes, PeerShape
    <3>2. Takes(p, m, new) /\ UNCHANGED <<toUs, received>>
      BY <2>6 DEF GetsReset
    <3> HIDE DEF new
    <3> QED BY <2>2, <3>1, <3>2 DEF NetTypes
  <2>7. CASE GetsSegment(p, m)
    <3> DEFINE inOrder == m.seq = peer[p].rcv /\ "SYN" \notin m.flags
               fin == IF "FIN" \in m.flags THEN 1 ELSE 0
               new == [peer[p] EXCEPT
                           !.st = "est",
                           !.una = IF m.ack > @ THEN m.ack ELSE @,
                           !.rcv = IF inOrder THEN @ + Len(m.data) + fin ELSE @,
                           !.eof = @ \/ (inOrder /\ fin = 1)]
    <3>1. PeerShape(new)
      <4>1. m.ack \in Nat /\ m.data \in Block /\ PeerShape(peer[p])
        BY <2>1 DEF SegRec, NetTypes
      <4>2. DOMAIN new = DOMAIN peer[p] /\ new.conn = peer[p].conn /\ new.una \in {m.ack, peer[p].una}
            /\ new.rcv \in {peer[p].rcv, peer[p].rcv + Len(m.data) + fin}
        BY <4>1 DEF PeerShape
      <4>3. Len(m.data) \in Nat /\ fin \in Nat
        BY <4>1 DEF Block
      <4> HIDE DEF new, fin
      <4>4. peer[p].rcv + Len(m.data) + fin \in Nat
        BY <4>1, <4>3 DEF PeerShape
      <4> QED BY <4>1, <4>2, <4>4 DEF PeerShape
    <3>2. /\ Takes(p, m, new) /\ received' = [received EXCEPT ![p] = IF inOrder THEN @ \o m.data ELSE @]
          /\ Answers(p, {"ACK"}) \/ UNCHANGED toUs
      BY <2>7 DEF GetsSegment
    <3>3. received' \in [Peers -> Block]
      <4>1. m.data \in Block /\ received[p] \in Block
        BY <2>1 DEF SegRec, NetTypes
      <4>2. received[p] \o m.data \in Block
        BY <4>1 DEF Block
      <4> HIDE DEF inOrder
      <4> QED BY <3>2, <4>1, <4>2 DEF NetTypes
    <3> HIDE DEF new
    <3> QED BY <2>2, <2>3, <3>1, <3>2, <3>3, FlagSets DEF NetTypes
  <2>8. CASE GetsOther(p, m)
    <3>1. Takes(p, m, peer[p]) /\ UNCHANGED <<toUs, received>> /\ PeerShape(peer[p])
      BY <2>8 DEF GetsOther, NetTypes
    <3> QED BY <2>2, <3>1 DEF NetTypes
  <2> QED BY <1>5, <2>4, <2>5, <2>6, <2>7, <2>8
<1> QED BY <1>1, <1>2, <1>3, <1>4, <1>5 DEF PeerStep, Gets

(***************************************************************************)
(* Steps of uIP                                                            *)
(***************************************************************************)
LEMMA AfterAckIs ==
  ASSUME NEW c, ConnShape(c), NEW m
  PROVE  LET r == AfterAck(c, m)
         IN  /\ ConnShape(r) /\ r.app = c.app /\ r.st = c.st /\ r.peer = c.peer /\ r.iss = c.iss /\ r.rcv = c.rcv
             /\ r.stopped = c.stopped /\ r.lport = c.lport
             /\ r.snd = IF Acks(c, m) THEN c.snd + c.len ELSE c.snd
             /\ r.len = IF Acks(c, m) THEN 0 ELSE c.len
BY DEF AfterAck, ConnShape

LEMMA AdvancedIs ==
  ASSUME NEW c, ConnShape(c), NEW n \in Nat
  PROVE  LET r == Advanced(c, n)
         IN  /\ ConnShape(r) /\ r.app = c.app /\ r.st = c.st /\ r.peer = c.peer /\ r.iss = c.iss /\ r.rcv = c.rcv + n
             /\ r.stopped = c.stopped /\ r.lport = c.lport /\ r.snd = c.snd /\ r.len = c.len
BY DEF Advanced, ConnShape

LEMMA WithFinIs ==
  ASSUME NEW c, ConnShape(c), NEW state
  PROVE  /\ ConnShape(WithFin(c, state)) /\ WithFin(c, state).app = c.app /\ WithFin(c, state).st = state
         /\ WithFin(c, state).peer = c.peer /\ WithFin(c, state).iss = c.iss /\ WithFin(c, state).rcv = c.rcv
         /\ ~WithFin(c, state).stopped /\ WithFin(c, state).lport = c.lport
         /\ WithFin(c, state).snd = c.snd /\ WithFin(c, state).len = 1
BY DEF WithFin, ConnShape

LEMMA ClosedConnIs ==
  ASSUME NEW app \in Conns \union {NoSlot}, NEW lport
  PROVE  LET r == ClosedConn(app, lport)
         IN  ConnShape(r) /\ r.app = app /\ r.st = "CLOSED" /\ r.peer = Nobody /\ r.len = 0 /\ ~r.stopped
BY DEF ClosedConn, ConnShape

LEMMA ReplyType ==
  ASSUME NEW c, ConnShape(c), NEW f \in Flags, NEW d \in Block
  PROVE  Reply(c, f, d) \in SUBSET SegRec
BY SegmentType DEF Reply, ConnShape

(* An effect that differs from v in the connection only, and not in its    *)
(* slot: the further steps after the call of the application.              *)
Follows(u, v) ==
  /\ Effect(u) /\ u.slot = v.slot /\ u.free = v.free /\ u.c.app = v.c.app /\ u.flags = v.flags
  /\ u.send = v.send /\ u.kept = v.kept

LEMMA WithConn ==
  ASSUME NEW v, Effect(v), NEW c, ConnShape(c), c.app = v.c.app
  PROVE  Follows([v EXCEPT !.c = c], v) /\ [v EXCEPT !.c = c].c = c
<1> DEFINE u == [v EXCEPT !.c = c]
<1>1. /\ DOMAIN u = DOMAIN v /\ u.c = c /\ u.slot = v.slot /\ u.free = v.free /\ u.flags = v.flags
      /\ u.send = v.send /\ u.kept = v.kept
  BY DEF Effect
<1> HIDE DEF u
<1>2. Effect(u)
  BY <1>1 DEF Effect
<1>3. Follows(u, v) /\ u.c = c
  BY <1>1, <1>2 DEF Follows
<1> QED BY <1>3 DEF u

(* The names of the effects that AppSend builds.                           *)
Finned(w, st) == [w EXCEPT !.c = WithFin(@, st)]
Sending(v) == [v EXCEPT !.c.len = IF v.send # <<>> /\ @ = 0 THEN Len(v.send) ELSE @, !.c.nrtx = 0]

LEMMA FinnedIs ==
  ASSUME NEW w, Effect(w), NEW state
  PROVE  LET u == Finned(w, state)
         IN  /\ Follows(u, w) /\ ConnShape(u.c) /\ u.c.st = state /\ u.c.peer = w.c.peer /\ u.c.iss = w.c.iss
             /\ u.c.snd = w.c.snd /\ u.c.rcv = w.c.rcv /\ ~u.c.stopped /\ u.c.lport = w.c.lport /\ u.c.len = 1
<1> DEFINE u == Finned(w, state)
<1>1. ConnShape(w.c)
  BY DEF Effect
<1>2. ConnShape(WithFin(w.c, state)) /\ WithFin(w.c, state).app = w.c.app
  BY <1>1, WithFinIs
<1>3. Follows(u, w) /\ u.c = WithFin(w.c, state)
  BY <1>2, WithConn DEF Finned
<1> QED BY <1>1, <1>2, <1>3, WithFinIs

LEMMA SendingIs ==
  ASSUME NEW v, Effect(v)
  PROVE  LET u == Sending(v)
         IN  /\ Follows(u, v) /\ u.c.st = v.c.st /\ u.c.peer = v.c.peer /\ u.c.iss = v.c.iss /\ u.c.snd = v.c.snd
             /\ u.c.rcv = v.c.rcv /\ u.c.stopped = v.c.stopped /\ u.c.lport = v.c.lport
             /\ u.c.len = IF v.send # <<>> /\ v.c.len = 0 THEN Len(v.send) ELSE v.c.len
<1> DEFINE u == Sending(v)
           n == IF v.send # <<>> /\ v.c.len = 0 THEN Len(v.send) ELSE v.c.len
<1>1. /\ DOMAIN u = DOMAIN v /\ u.slot = v.slot /\ u.free = v.free /\ u.flags = v.flags
      /\ u.send = v.send /\ u.kept = v.kept
  BY DEF Effect, Sending
<1>2. /\ DOMAIN u.c = DOMAIN v.c /\ u.c.app = v.c.app /\ u.c.st = v.c.st /\ u.c.peer = v.c.peer /\ u.c.iss = v.c.iss
      /\ u.c.snd = v.c.snd /\ u.c.rcv = v.c.rcv /\ u.c.stopped = v.c.stopped /\ u.c.lport = v.c.lport
      /\ u.c.len = n
  BY DEF Effect, Sending, ConnShape
<1>3. n \in Nat
  BY DEF Effect, ConnShape, Block
<1> HIDE DEF u, n
<1>4. ConnShape(u.c)
  BY <1>2, <1>3 DEF ConnShape, Effect
<1>5. Effect(u)
  BY <1>1, <1>4 DEF Effect
<1>6. Follows(u, v)
  BY <1>1, <1>2, <1>5 DEF Follows
<1> QED BY <1>2, <1>6 DEF u, n

LEMMA GoneIs ==
  ASSUME NEW v, Effect(v)
  PROVE  Follows(Gone(v), v) /\ Gone(v).c = IF v.c.stopped THEN v.c ELSE ClosedConn(v.c.app, v.c.lport)
<1>1. CASE v.c.stopped
  BY <1>1 DEF Gone, Then, Follows
<1>2. CASE ~v.c.stopped
  <2>1. Gone(v) = [v EXCEPT !.c = ClosedConn(v.c.app, v.c.lport)]
    BY <1>2 DEF Gone, Then
  <2>2. v.c.app \in Conns \union {NoSlot}
    BY DEF Effect, ConnShape
  <2> DEFINE d == ClosedConn(v.c.app, v.c.lport)
  <2>3. ConnShape(d) /\ d.app = v.c.app
    BY <2>2, ClosedConnIs
  <2> HIDE DEF d
  <2>4. Follows([v EXCEPT !.c = d], v) /\ [v EXCEPT !.c = d].c = d
    BY <2>3, WithConn
  <2> QED BY <1>2, <2>1, <2>4 DEF d
<1> QED BY <1>1, <1>2

LEMMA AppSendIs ==
  ASSUME NEW i, NEW w, AppSend(i, w)
  PROVE  \/ "CLOSE" \in w.flags /\ Done(i, Finned(w, "FIN_WAIT_1"), Reply(Finned(w, "FIN_WAIT_1").c, {"FIN", "ACK"}, <<>>))
         \/ "CLOSE" \notin w.flags /\ Done(i, Sending(w), Output(Sending(w)))
BY DEF AppSend, FinAck, Finned, Sending

LEMMA OutputType ==
  ASSUME NEW v, Effect(v)
  PROVE  (v.send # <<>> => v.c.len <= Len(v.send)) => Output(v) \in SUBSET SegRec
<1> SUFFICES ASSUME v.send # <<>> => v.c.len <= Len(v.send) PROVE Output(v) \in SUBSET SegRec
  OBVIOUS
<1>1. ConnShape(v.c) /\ v.send \in Block /\ v.c.len \in Nat
  BY DEF Effect, ConnShape
<1>2. v.send # <<>> => SubSeq(v.send, 1, v.c.len) \in Block
  <2>1. \A b \in Block : \A n \in Nat : n <= Len(b) => SubSeq(b, 1, n) \in Block
    BY DEF Block
  <2> QED BY <1>1, <2>1
<1> QED BY <1>1, <1>2, ReplyType, FlagSets, NoBytesType DEF Output

(* An effect on connection i that starts from the current state: the slots *)
(* are as they were, or the one of the connection has changed, or a free   *)
(* one is given to it.                                                     *)
Moves(i, v) ==
  /\ Effect(v)
  /\ \/ v.slot = slot /\ v.free = free /\ v.c.app = conn[i].app
     \/ \E s \in Conns :
          /\ \A t \in Conns \ {s} : v.slot[t] = slot[t]
          /\ v.c.app \in {NoSlot, s} /\ (v.c.app = s => Serves(v.slot[s]))
          /\ \/ conn[i].app = s /\ v.free + Units(v.slot[s]) = free + Units(slot[s])
             \/ conn[i].app = NoSlot /\ ~InUse(slot[s]) /\ v.c.app = s /\ v.free + Units(v.slot[s]) = free

Lawful(i, v) == Moves(i, v) /\ InFlight(v.c, v.slot)

Adopts(i, v) == conn' = [conn EXCEPT ![i] = v.c] /\ slot' = v.slot /\ free' = v.free /\ in_packet' = v.kept

Stepped(i) == toPeer' \in [Peers -> SUBSET SegRec] /\ \E v : Lawful(i, v) /\ Adopts(i, v)

LEMMA MovesFollows ==
  ASSUME NEW i, NEW u, NEW v, Moves(i, v), Follows(u, v)
  PROVE  Moves(i, u)
BY DEF Moves, Follows

LEMMA DoneIs ==
  ASSUME NEW i, NEW v, NEW out, Done(i, v, out)
  PROVE  /\ Adopts(i, v)
         /\ \/ toPeer' = toPeer
            \/ \E m \in out : \E under \in Sent(toPeer[conn[i].peer], m) :
                 toPeer' = [toPeer EXCEPT ![conn[i].peer] = under]
BY DEF Done, Adopts

LEMMA ToPeerType ==
  ASSUME NetTypes, NEW q, NEW m \in SegRec, NEW under \in Sent(toPeer[q], m), toPeer' = [toPeer EXCEPT ![q] = under]
  PROVE  toPeer' \in [Peers -> SUBSET SegRec]
<1>1. CASE q \in Peers
  <2>1. under \in SUBSET SegRec
    BY <1>1, SentIn DEF NetTypes
  <2> QED BY <2>1 DEF NetTypes
<1>2. CASE q \notin Peers
  <2>1. toPeer' = toPeer
    BY <1>2 DEF NetTypes
  <2> QED BY <2>1 DEF NetTypes
<1> QED BY <1>1, <1>2

LEMMA DoneStep ==
  ASSUME SlotInv, NEW i, NEW v, Lawful(i, v), NEW out \in SUBSET SegRec, Done(i, v, out)
  PROVE  Stepped(i)
<1>1. toPeer' \in [Peers -> SUBSET SegRec]
  <2>1. toPeer \in [Peers -> SUBSET SegRec] /\ NetTypes
    BY DEF SlotInv, NetTypes
  <2>2. CASE toPeer' = toPeer
    BY <2>1, <2>2
  <2>3. CASE toPeer' # toPeer
    <3>1. PICK m \in out : \E under \in Sent(toPeer[conn[i].peer], m) : toPeer' = [toPeer EXCEPT ![conn[i].peer] = under]
      BY <2>3, DoneIs
    <3>2. m \in SegRec
      OBVIOUS
    <3> QED BY <2>1, <3>1, <3>2, ToPeerType
  <2> QED BY <2>2, <2>3
<1> QED BY <1>1, DoneIs DEF Stepped

(* uip_process starts from a connection with the slot it has had.          *)
LEMMA CallMoves ==
  ASSUME SlotInv, NEW i \in Conns, NEW c, ConnShape(c), c.app = conn[i].app, NEW flags, NEW kept \in SUBSET Packets,
         NEW w, DOMAIN w = {"c", "slot", "free", "flags", "send", "kept"}, w.c = c, w.slot = slot, w.free = free,
         w.flags = flags, w.send = <<>>, w.kept = kept
  PROVE  Moves(i, w) /\ (c.app # NoSlot => Serves(Own(w)))
<1>1. Effect(w)
  BY NoBytesType DEF SlotInv, UipTypes, Effect
<1> QED BY <1>1 DEF Moves, SlotInv, Owners, Own

LEMMA CallIs ==
  ASSUME NEW c, NEW flags
  PROVE  LET w == Call(c, flags)
         IN  /\ DOMAIN w = {"c", "slot", "free", "flags", "send", "kept"} /\ w.c = c /\ w.slot = slot /\ w.free = free
             /\ w.flags = flags /\ w.send = <<>> /\ w.kept = {}
BY DEF Call

LEMMA OnTickIs ==
  ASSUME NEW c, NEW flags
  PROVE  LET w == OnTick(c, flags)
         IN  /\ DOMAIN w = {"c", "slot", "free", "flags", "send", "kept"} /\ w.c = c /\ w.slot = slot /\ w.free = free
             /\ w.flags = flags /\ w.send = <<>> /\ w.kept = in_packet
BY DEF OnTick, Call

LEMMA CallStarts ==
  ASSUME SlotInv, NEW i \in Conns, NEW c, ConnShape(c), c.app = conn[i].app, NEW flags,
         NEW w, w \in {Call(c, flags), OnTick(c, flags)}
  PROVE  /\ Moves(i, w) /\ (c.app # NoSlot => Serves(Own(w)))
         /\ w.c = c /\ w.slot = slot /\ w.free = free /\ w.flags = flags /\ w.send = <<>>
<1>1. in_packet \in SUBSET Packets /\ {} \in SUBSET Packets
  BY DEF SlotInv, UipTypes
<1>2. CASE w = Call(c, flags)
  BY <1>1, <1>2, CallIs, CallMoves
<1>3. CASE w = OnTick(c, flags)
  BY <1>1, <1>3, OnTickIs, CallMoves
<1> QED BY <1>2, <1>3

(* And so does what the application makes of it.                           *)
LEMMA AppCallMoves ==
  ASSUME SlotInv, NEW i \in Conns, NEW c, ConnShape(c), c.app = conn[i].app, NEW flags,
         "CONNECTED" \in flags => flags \intersect {"CLOSE", "TIMEDOUT"} = {},
         NEW w, w \in {Call(c, flags), OnTick(c, flags)}, NEW new \in SUBSET Packets, NEW r, r = AppCall(w, new)
  PROVE  Moves(i, r) /\ Called(r, w)
<1>1. /\ Moves(i, w) /\ (c.app # NoSlot => Serves(Own(w)))
      /\ w.c = c /\ w.slot = slot /\ w.free = free /\ w.flags = flags /\ w.send = <<>>
  BY CallStarts
<1>2. Effect(w)
  BY <1>1 DEF Moves
<1>3. Called(r, w)
  BY <1>1, <1>2, AppCallIs
<1>4. Moves(i, r)
  <2>1. CASE Nothing(r, w)
    BY <1>1, <2>1 DEF Nothing
  <2>2. CASE ~Nothing(r, w)
    <3>1. PICK s \in Conns :
            /\ \A t \in Conns \ {s} : r.slot[t] = w.slot[t]
            /\ r.c.app \in {NoSlot, s} /\ (r.c.app = s => Serves(r.slot[s]))
            /\ Fresh(r, w, s) \/ Has(r, w, s)
      BY <1>3, <2>2 DEF Called
    <3>2. Effect(r)
      BY <1>3 DEF Called
    <3> QED BY <1>1, <3>1, <3>2 DEF Moves, Fresh, Has
  <2> QED BY <2>1, <2>2
<1> QED BY <1>3, <1>4

(* A call for an established connection that is not closed by it: what is  *)
(* outstanding stays so, and only a poll or a retransmission sends.        *)
LEMMA EstablishedCall ==
  ASSUME SlotInv, NEW i \in Conns, NEW c, ConnShape(c), c.app = conn[i].app, c.st = "ESTABLISHED", InFlight(c, slot),
         NEW flags, flags \intersect {"CLOSE", "TIMEDOUT"} = {}, "ACKDATA" \in flags => c.len = 0,
         NEW w, w \in {Call(c, flags), OnTick(c, flags)}, NEW new \in SUBSET Packets, NEW r, r = AppCall(w, new)
  PROVE  /\ r.c.len = c.len /\ r.c.st = "ESTABLISHED" /\ r.send \in Block
         /\ c.len > 0 => "CLOSE" \notin r.flags /\ InFlight(r.c, r.slot) /\ (r.send # <<>> => r.c.len <= Len(r.send))
         /\ r.send # <<>> /\ c.len = 0 =>
              /\ r.c.app # NoSlot /\ r.slot[r.c.app].out # <<>> /\ r.send = Head(r.slot[r.c.app].out)
              /\ Len(r.slot[r.c.app].out) = 1 => r.slot[r.c.app].room = 0
         /\ r.send # <<>> => flags \intersect {"POLL", "REXMIT"} # {}
<1>1. Called(r, w)
  BY AppCallMoves
<1>2. /\ c.app # NoSlot => Serves(Own(w))
      /\ w.c = c /\ w.slot = slot /\ w.flags = flags /\ w.send = <<>>
  BY CallStarts
<1>3. Effect(r) /\ SameConn(r.c, c) /\ c.len \in Nat
  BY <1>1, <1>2 DEF Called, ConnShape
<1>4. CASE Nothing(r, w)
  BY <1>2, <1>3, <1>4 DEF Nothing, SameConn, InFlight, Effect
<1>5. CASE ~Nothing(r, w)
  <2>1. PICK s \in Conns : Fresh(r, w, s) \/ Has(r, w, s)
    BY <1>1, <1>5 DEF Called
  <2>2. s # NoSlot
    BY SlotAssumption DEF NoSlot
  <2>3. CASE Fresh(r, w, s)
    <3>1. c.app = NoSlot /\ r.send = <<>>
      BY <1>2, <2>3 DEF Fresh
    <3>2. c.len = 0
      BY <1>3, <3>1 DEF InFlight
    <3> QED BY <1>3, <3>1, <3>2 DEF SameConn, Effect
  <2>4. CASE Has(r, w, s)
    <3>1. c.app = s /\ Outcome(r, w, s) /\ Own(w) = slot[s]
      BY <1>2, <2>4 DEF Has, Own
    <3>2. ~Drops(r, w, s)
      BY <1>2 DEF Drops
    <3>3. r.slot[s].out = Remaining(w) /\ (Offers(r, w, s) \/ Closes(r, w, s) \/ Waits(r, w, s))
      BY <3>1, <3>2 DEF Outcome
    <3>4. ASSUME c.len > 0
          PROVE  /\ Remaining(w) = slot[s].out /\ slot[s].out # <<>> /\ c.len = Len(Head(slot[s].out))
                 /\ Len(slot[s].out) = 1 => slot[s].room = 0
      BY <1>2, <3>1, <3>4 DEF Remaining, InFlight
    <3>5. CASE Offers(r, w, s)
      BY <1>2, <1>3, <2>2, <3>3, <3>4, <3>5 DEF Offers, SameConn, InFlight, Effect
    <3>6. CASE Closes(r, w, s)
      <4>1. Remaining(w) = <<>> /\ r.send = <<>>
        BY <1>2, <3>6 DEF Closes
      <4>2. c.len = 0
        BY <1>3, <3>4, <4>1
      <4> QED BY <1>3, <4>1, <4>2 DEF SameConn, Effect
    <3>7. CASE Waits(r, w, s)
      <4>1. r.send = <<>> /\ r.c.app = s /\ "CLOSE" \notin r.flags /\ (slot[s].room = 0 => r.slot[s].room = 0)
        BY <1>2, <3>1, <3>7 DEF Waits
      <4> QED BY <1>3, <2>2, <3>3, <3>4, <4>1 DEF SameConn, InFlight, Effect
    <3> QED BY <3>3, <3>5, <3>6, <3>7
  <2> QED BY <2>1, <2>3, <2>4
<1> QED BY <1>4, <1>5

(* AppSend after such a call.                                              *)
LEMMA AppSendStep ==
  ASSUME SlotInv, NEW i \in Conns, NEW c, ConnShape(c), c.app = conn[i].app, c.st = "ESTABLISHED", InFlight(c, slot),
         NEW flags, flags \intersect {"CLOSE", "TIMEDOUT"} = {}, "ACKDATA" \in flags => c.len = 0,
         flags \intersect {"POLL", "REXMIT"} # {} => c.len = 0,
         NEW w, w \in {Call(c, flags), OnTick(c, flags)}, NEW new \in SUBSET Packets, NEW r, r = AppCall(w, new),
         AppSend(i, r)
  PROVE  Stepped(i)
<1>1. Moves(i, r) /\ Effect(r)
  <2>1. Moves(i, r)
    BY AppCallMoves
  <2> QED BY <2>1 DEF Moves
<1>2. /\ r.c.len = c.len /\ r.c.st = "ESTABLISHED" /\ r.send \in Block
      /\ c.len > 0 => "CLOSE" \notin r.flags /\ InFlight(r.c, r.slot) /\ (r.send # <<>> => r.c.len <= Len(r.send))
      /\ r.send # <<>> /\ c.len = 0 =>
           /\ r.c.app # NoSlot /\ r.slot[r.c.app].out # <<>> /\ r.send = Head(r.slot[r.c.app].out)
           /\ Len(r.slot[r.c.app].out) = 1 => r.slot[r.c.app].room = 0
      /\ r.send # <<>> => flags \intersect {"POLL", "REXMIT"} # {}
  BY EstablishedCall
<1>3. CASE "CLOSE" \in r.flags
  <2> DEFINE u == Finned(r, "FIN_WAIT_1")
  <2>1. Done(i, u, Reply(u.c, {"FIN", "ACK"}, <<>>))
    BY <1>3, AppSendIs
  <2>2. Follows(u, r) /\ u.c.st = "FIN_WAIT_1" /\ ConnShape(u.c)
    BY <1>1, FinnedIs
  <2> HIDE DEF u
  <2>5. Lawful(i, u)
    BY <1>1, <2>2, MovesFollows DEF Lawful, InFlight
  <2>6. Reply(u.c, {"FIN", "ACK"}, <<>>) \in SUBSET SegRec
    BY <2>2, ReplyType, FlagSets, NoBytesType
  <2> QED BY <2>1, <2>5, <2>6, DoneStep
<1>4. CASE "CLOSE" \notin r.flags
  <2> DEFINE u == Sending(r)
  <2>1. Done(i, u, Output(u))
    BY <1>4, AppSendIs
  <2>2. Follows(u, r) /\ u.c.st = r.c.st /\ u.c.len = IF r.send # <<>> /\ r.c.len = 0 THEN Len(r.send) ELSE r.c.len
    BY <1>1, SendingIs
  <2> HIDE DEF u
  <2>3. u.slot = r.slot /\ u.c.app = r.c.app /\ u.send = r.send /\ Effect(u) /\ c.len \in Nat
    BY <2>2 DEF Follows, ConnShape
  <2>4. CASE r.send = <<>>
    <3>1. InFlight(u.c, u.slot)
      BY <1>2, <2>2, <2>3, <2>4 DEF InFlight
    <3>2. Output(u) \in SUBSET SegRec
      BY <2>3, <2>4, OutputType
    <3>3. Lawful(i, u)
      BY <1>1, <2>2, <3>1, MovesFollows DEF Lawful
    <3> QED BY <2>1, <3>2, <3>3, DoneStep
  <2>5. CASE r.send # <<>>
    <3>1. c.len = 0 /\ u.c.len = Len(r.send)
      BY <1>2, <2>2, <2>5
    <3>2. InFlight(u.c, u.slot)
      BY <1>2, <2>3, <2>5, <3>1 DEF InFlight
    <3>3. u.c.len <= Len(u.send)
      BY <1>2, <2>3, <3>1 DEF Block
    <3>4. Output(u) \in SUBSET SegRec
      BY <2>3, <3>3, OutputType
    <3>5. Lawful(i, u)
      BY <1>1, <2>2, <3>2, MovesFollows DEF Lawful
    <3> QED BY <2>1, <3>4, <3>5, DoneStep
  <2> QED BY <2>4, <2>5
<1> QED BY <1>3, <1>4

(* Steps that do not call the application, that close the connection with  *)
(* a call, and that send a FIN.                                            *)
LEMMA PlainStep ==
  ASSUME SlotInv, NEW i \in Conns, NEW c, ConnShape(c), c.app = conn[i].app, InFlight(c, slot), NEW flags,
         NEW w, w \in {Call(c, flags), OnTick(c, flags)}, NEW out \in SUBSET SegRec, Done(i, w, out)
  PROVE  Stepped(i)
<1>1. Moves(i, w) /\ w.c = c /\ w.slot = slot
  BY CallStarts
<1>2. Lawful(i, w)
  BY <1>1 DEF Lawful
<1> QED BY <1>2, DoneStep

LEMMA OverStep ==
  ASSUME SlotInv, NEW i \in Conns, NEW r, Moves(i, r), NEW v,
         v = Finned(r, "LAST_ACK") \/ (r.c.st # "ESTABLISHED" /\ (v = r \/ v = Gone(r))), NEW out \in SUBSET SegRec, Done(i, v, out)
  PROVE  Stepped(i)
<1>1. Effect(r)
  BY DEF Moves
<1>2. Moves(i, v) /\ v.c.st # "ESTABLISHED"
  <2>1. CASE r.c.st # "ESTABLISHED" /\ v = r
    BY <2>1
  <2>2. CASE r.c.st # "ESTABLISHED" /\ v = Gone(r)
    <3>1. Follows(v, r) /\ v.c = IF r.c.stopped THEN r.c ELSE ClosedConn(r.c.app, r.c.lport)
      BY <1>1, <2>2, GoneIs
    <3>2. ClosedConn(r.c.app, r.c.lport).st # "ESTABLISHED"
      BY DEF ClosedConn
    <3> QED BY <2>2, <3>1, <3>2, MovesFollows
  <2>3. CASE v = Finned(r, "LAST_ACK")
    <3>1. Follows(v, r) /\ v.c.st = "LAST_ACK"
      BY <1>1, <2>3, FinnedIs
    <3> QED BY <3>1, MovesFollows
  <2> QED BY <2>1, <2>2, <2>3
<1>3. Lawful(i, v)
  BY <1>2 DEF Lawful, InFlight
<1> QED BY <1>3, DoneStep

LEMMA ConnIs ==
  ASSUME SlotInv, NEW i \in Conns
  PROVE  ConnShape(conn[i]) /\ InFlight(conn[i], slot) /\ conn[i].len \in Nat
BY DEF SlotInv, UipTypes, ConnShape

(***************************************************************************)
(* uip_process(UIP_TIMER) and (UIP_POLL_REQUEST)                           *)
(***************************************************************************)
LEMMA TimerIdleStep == ASSUME SlotInv, NEW i \in Conns, TimerIdle(i) PROVE Stepped(i)
<1> DEFINE w == OnTick(conn[i], {})
<1>1. ConnShape(conn[i]) /\ conn[i].st # "ESTABLISHED"
  BY ConnIs DEF TimerIdle
<1>2. Done(i, Gone(w), {})
  BY DEF TimerIdle
<1>3. Moves(i, w) /\ w.c = conn[i]
  BY <1>1, CallStarts
<1> HIDE DEF w
<1> QED BY <1>1, <1>2, <1>3, OverStep

LEMMA TimerGivesUpStep == ASSUME SlotInv, NEW i \in Conns, TimerGivesUp(i) PROVE Stepped(i)
<1> DEFINE c == [conn[i] EXCEPT !.st = "CLOSED", !.stopped = FALSE]
           w == AppCall(OnTick(c, {"TIMEDOUT"}), {})
<1>1. ConnShape(c) /\ c.app = conn[i].app /\ c.st = "CLOSED"
  BY ConnIs DEF ConnShape
<1>2. Done(i, Gone(w), Reply(c, {"RST", "ACK"}, <<>>))
  BY DEF TimerGivesUp
<1> HIDE DEF c
<1>3. Moves(i, w) /\ Called(w, OnTick(c, {"TIMEDOUT"})) /\ OnTick(c, {"TIMEDOUT"}).c = c
  BY <1>1, AppCallMoves, OnTickIs
<1> HIDE DEF w
<1>4. w.c.st = "CLOSED"
  BY <1>1, <1>3 DEF Called, SameConn
<1>5. Reply(c, {"RST", "ACK"}, <<>>) \in SUBSET SegRec
  BY <1>1, ReplyType, FlagSets, NoBytesType
<1> QED BY <1>2, <1>3, <1>4, <1>5, OverStep

(* One more retransmission is counted, no other field changes.             *)
LEMMA CountedIs ==
  ASSUME NEW c, ConnShape(c)
  PROVE  LET r == [c EXCEPT !.nrtx = @ + 1]
         IN  /\ ConnShape(r) /\ r.app = c.app /\ r.st = c.st /\ r.peer = c.peer /\ r.iss = c.iss /\ r.rcv = c.rcv
             /\ r.stopped = c.stopped /\ r.lport = c.lport /\ r.snd = c.snd /\ r.len = c.len
BY DEF ConnShape

LEMMA TimerRetransmitsStep == ASSUME SlotInv, NEW i \in Conns, TimerRetransmits(i) PROVE Stepped(i)
<1> DEFINE c == [conn[i] EXCEPT !.nrtx = @ + 1]
           w == OnTick(c, {})
           k == AppCall(OnTick(c, {"REXMIT"}), {})
<1>1. ConnShape(c) /\ c.app = conn[i].app /\ c.st = conn[i].st /\ c.len = conn[i].len
  BY ConnIs, CountedIs
<1>2. \/ Done(i, w, Reply(c, {"SYN", "ACK"}, <<>>))
      \/ Done(i, w, Reply(c, {"SYN"}, <<>>))
      \/ c.st = "ESTABLISHED" /\ Done(i, k, Output(k))
      \/ FinAck(i, w)
      \/ Done(i, w, {})
  BY DEF TimerRetransmits
<1>3. c.len > 0
  BY <1>1, ConnIs DEF TimerRetransmits, Outstanding
<1> HIDE DEF c
<1>4. InFlight(c, slot)
  BY <1>1, ConnIs DEF InFlight
<1>5. CASE c.st = "ESTABLISHED" /\ Done(i, k, Output(k))
  <2>1. Moves(i, k)
    BY <1>1, AppCallMoves
  <2>2. /\ k.c.len = c.len
        /\ c.len > 0 => "CLOSE" \notin k.flags /\ InFlight(k.c, k.slot) /\ (k.send # <<>> => k.c.len <= Len(k.send))
    BY <1>1, <1>4, <1>5, EstablishedCall
  <2> HIDE DEF k
  <2>3. Output(k) \in SUBSET SegRec
    BY <1>3, <2>1, <2>2, OutputType DEF Moves
  <2> QED BY <1>3, <1>5, <2>1, <2>2, <2>3, DoneStep DEF Lawful
<1>6. CASE \E out \in SUBSET SegRec : Done(i, w, out)
  BY <1>1, <1>4, <1>6, PlainStep
<1>7. /\ Reply(c, {"SYN", "ACK"}, <<>>) \in SUBSET SegRec /\ Reply(c, {"SYN"}, <<>>) \in SUBSET SegRec
      /\ Reply(c, {"FIN", "ACK"}, <<>>) \in SUBSET SegRec /\ {} \in SUBSET SegRec /\ w.c = c
  BY <1>1, ReplyType, FlagSets, NoBytesType, OnTickIs
<1>8. FinAck(i, w) => Done(i, w, Reply(c, {"FIN", "ACK"}, <<>>))
  BY <1>7 DEF FinAck
<1> HIDE DEF w, k
<1> QED BY <1>2, <1>5, <1>6, <1>7, <1>8

LEMMA TimerPollsStep == ASSUME SlotInv, NEW i \in Conns, TimerPolls(i) PROVE Stepped(i)
<1> DEFINE flags == {"POLL"}
           w == OnTick(conn[i], flags)
           r == AppCall(w, {})
<1>1. ConnShape(conn[i]) /\ InFlight(conn[i], slot) /\ conn[i].len = 0 /\ conn[i].st = "ESTABLISHED"
  BY ConnIs DEF TimerPolls
<1>2. AppSend(i, r)
  BY DEF TimerPolls
<1>3. w \in {Call(conn[i], flags), OnTick(conn[i], flags)}
  OBVIOUS
<1>4. flags \intersect {"CLOSE", "TIMEDOUT"} = {} /\ {} \in SUBSET Packets
  OBVIOUS
<1> HIDE DEF flags, w
<1> QED BY <1>1, <1>2, <1>3, <1>4, AppSendStep

LEMMA TimerStep == ASSUME SlotInv, NEW i \in Conns, Timer(i) PROVE Stepped(i)
BY TimerIdleStep, TimerGivesUpStep, TimerRetransmitsStep, TimerPollsStep DEF Timer

(***************************************************************************)
(* uip_process(UIP_DATA)                                                   *)
(***************************************************************************)
LEMMA PacketType ==
  ASSUME NEW p \in Peers, NEW m \in SegRec
  PROVE  Packet(p, m) \in SUBSET Packets /\ Len(m.data) \in Nat /\ m.seq + 1 \in Nat
BY DEF Packet, Packets, SegRec, Block

LEMMA GotResetStep == ASSUME SlotInv, NEW i \in Conns, NEW m \in SegRec, GotReset(i, m) PROVE Stepped(i)
<1> DEFINE c == [conn[i] EXCEPT !.st = "CLOSED", !.stopped = FALSE]
           w == AppCall(Call(c, {"ABORT"}), {})
<1>1. ConnShape(c) /\ c.app = conn[i].app /\ c.st = "CLOSED"
  BY ConnIs DEF ConnShape
<1>2. Done(i, Gone(w), {})
  BY DEF GotReset
<1> HIDE DEF c
<1>3. Moves(i, w) /\ Called(w, Call(c, {"ABORT"})) /\ Call(c, {"ABORT"}).c = c
  BY <1>1, AppCallMoves, CallIs
<1> HIDE DEF w
<1>4. w.c.st = "CLOSED"
  BY <1>1, <1>3 DEF Called, SameConn
<1> QED BY <1>2, <1>3, <1>4, OverStep

LEMMA OutOfOrderStep == ASSUME SlotInv, NEW i \in Conns, NEW m \in SegRec, OutOfOrder(i, m) PROVE Stepped(i)
<1>1. Done(i, Call(conn[i], {}), Reply(conn[i], {"ACK"}, <<>>))
  BY DEF OutOfOrder
<1>2. Reply(conn[i], {"ACK"}, <<>>) \in SUBSET SegRec
  BY ConnIs, ReplyType, FlagSets, NoBytesType
<1> QED BY <1>1, <1>2, ConnIs, PlainStep

LEMMA InSynRcvdStep ==
  ASSUME SlotInv, NEW i \in Conns, NEW p \in Peers, NEW m \in SegRec, InSynRcvd(i, p, m) PROVE Stepped(i)
<1> DEFINE a == Advanced(AfterAck(conn[i], m), Len(m.data))
           c == [a EXCEPT !.st = "ESTABLISHED"]
           flags == {"CONNECTED"} \union DataFlag(m)
           w == Call(c, flags)
           new == Packet(p, m)
           r == AppCall(w, new)
<1>1. CASE ~Acks(conn[i], m)
  <2>1. Done(i, Call(conn[i], {}), {})
    BY <1>1 DEF InSynRcvd
  <2> QED BY <2>1, ConnIs, PlainStep
<1>2. CASE Acks(conn[i], m)
  <2>1. AppSend(i, r)
    BY <1>2 DEF InSynRcvd
  <2>2. ConnShape(AfterAck(conn[i], m)) /\ AfterAck(conn[i], m).app = conn[i].app /\ AfterAck(conn[i], m).len = 0
    BY <1>2, ConnIs, AfterAckIs
  <2>3. ConnShape(a) /\ a.app = conn[i].app /\ a.len = 0
    BY <2>2, AdvancedIs, PacketType
  <2> HIDE DEF a
  <2>4. ConnShape(c) /\ c.app = conn[i].app /\ c.len = 0 /\ c.st = "ESTABLISHED"
    BY <2>3 DEF ConnShape
  <2>5. /\ flags \intersect {"CLOSE", "TIMEDOUT"} = {} /\ "ACKDATA" \notin flags
        /\ flags \intersect {"POLL", "REXMIT"} = {} /\ new \in SUBSET Packets
    BY PacketType DEF DataFlag
  <2> HIDE DEF c
  <2>6. InFlight(c, slot) /\ w \in {Call(c, flags), OnTick(c, flags)}
    BY <2>4 DEF InFlight
  <2> HIDE DEF flags, w, new
  <2> QED BY <2>1, <2>4, <2>5, <2>6, AppSendStep
<1> QED BY <1>1, <1>2

LEMMA InSynSentStep == ASSUME SlotInv, NEW i \in Conns, NEW m \in SegRec, InSynSent(i, m) PROVE Stepped(i)
<1> DEFINE a == AfterAck(conn[i], m)
           c == [a EXCEPT !.st = "ESTABLISHED", !.rcv = m.seq + 1]
           flags == {"CONNECTED", "NEWDATA"}
           w == Call(c, flags)
           r == AppCall(w, {})
<1>1. AppSend(i, r) /\ Acks(conn[i], m)
  BY DEF InSynSent
<1>2. ConnShape(a) /\ a.app = conn[i].app /\ a.len = 0
  BY <1>1, ConnIs, AfterAckIs
<1> HIDE DEF a
<1>3. ConnShape(c) /\ c.app = conn[i].app /\ c.len = 0 /\ c.st = "ESTABLISHED"
  BY <1>2 DEF ConnShape, SegRec
<1>4. /\ flags \intersect {"CLOSE", "TIMEDOUT"} = {} /\ "ACKDATA" \notin flags
      /\ flags \intersect {"POLL", "REXMIT"} = {} /\ {} \in SUBSET Packets
  OBVIOUS
<1> HIDE DEF c
<1>5. InFlight(c, slot) /\ w \in {Call(c, flags), OnTick(c, flags)}
  BY <1>3 DEF InFlight
<1> HIDE DEF flags, w
<1> QED BY <1>1, <1>3, <1>4, <1>5, AppSendStep

LEMMA RstToType ==
  ASSUME NetTypes, NEW p \in Peers, NEW m \in SegRec, RstTo(p, m)
  PROVE  toPeer' \in [Peers -> SUBSET SegRec]
<1> DEFINE rst == Segment(m.conn, {"RST", "ACK"}, m.ack, <<>>, m.seq + 1)
<1>1. rst \in SegRec
  BY SegmentType, FlagSets, NoBytesType, PacketType DEF SegRec
<1>2. PICK under \in Sent(toPeer[p], rst) : toPeer' = [toPeer EXCEPT ![p] = under] \/ toPeer' = toPeer
  BY DEF RstTo
<1> HIDE DEF rst
<1> QED BY <1>1, <1>2, ToPeerType DEF NetTypes

LEMMA InSynSentOtherStep ==
  ASSUME SlotInv, NEW i \in Conns, NEW p \in Peers, NEW m \in SegRec, InSynSentOther(i, p, m) PROVE Stepped(i)
<1> DEFINE c == AfterAck(conn[i], m)
           w == AppCall(Call(c, {"ABORT"}), {})
           d == ClosedConn(w.c.app, w.c.lport)
           v == [w EXCEPT !.c = d, !.kept = {}]
<1>1. /\ conn' = [conn EXCEPT ![i] = d] /\ slot' = w.slot /\ free' = w.free
      /\ in_packet' = {} /\ RstTo(p, m)
  BY DEF InSynSentOther
<1>2. ConnShape(c) /\ c.app = conn[i].app
  BY ConnIs, AfterAckIs
<1> HIDE DEF c
<1>3. Moves(i, w)
  BY <1>2, AppCallMoves
<1> HIDE DEF w
<1>4. Effect(w) /\ w.c.app \in Conns \union {NoSlot}
  BY <1>3 DEF Moves, Effect, ConnShape
<1>5. ConnShape(d) /\ d.app = w.c.app /\ d.st = "CLOSED"
  BY <1>4, ClosedConnIs
<1> HIDE DEF d
<1>6. /\ DOMAIN v = DOMAIN w /\ v.c = d /\ v.slot = w.slot /\ v.free = w.free /\ v.flags = w.flags
      /\ v.send = w.send /\ v.kept = {}
  BY <1>4 DEF Effect
<1> HIDE DEF v
<1>7. Effect(v)
  BY <1>4, <1>5, <1>6 DEF Effect
<1>8. Moves(i, v)
  BY <1>3, <1>5, <1>6, <1>7 DEF Moves
<1>9. Lawful(i, v) /\ Adopts(i, v)
  BY <1>1, <1>5, <1>6, <1>8 DEF Lawful, InFlight, Adopts
<1>10. toPeer' \in [Peers -> SUBSET SegRec]
  BY <1>1, RstToType DEF SlotInv
<1> QED BY <1>9, <1>10 DEF Stepped

LEMMA InEstablishedFinStep ==
  ASSUME SlotInv, NEW i \in Conns, NEW p \in Peers, NEW m \in SegRec, InEstablishedFin(i, p, m) PROVE Stepped(i)
<1>1. CASE AfterAck(conn[i], m).len > 0
  <2>1. Done(i, Call(conn[i], {}), {})
    BY <1>1 DEF InEstablishedFin
  <2> QED BY <2>1, ConnIs, PlainStep
<1>2. CASE ~(AfterAck(conn[i], m).len > 0)
  <2> DEFINE c == Advanced(AfterAck(conn[i], m), 1 + Len(m.data))
             flags == {"CLOSE"} \union AckFlag(conn[i], m) \union DataFlag(m)
             w == AppCall(Call(c, flags), Packet(p, m))
             v == Finned(w, "LAST_ACK")
  <2>1. FinAck(i, v)
    BY <1>2 DEF InEstablishedFin, Finned
  <2>2. ConnShape(AfterAck(conn[i], m)) /\ AfterAck(conn[i], m).app = conn[i].app
    BY ConnIs, AfterAckIs
  <2>3. 1 + Len(m.data) \in Nat /\ Packet(p, m) \in SUBSET Packets
    BY PacketType
  <2>4. ConnShape(c) /\ c.app = conn[i].app
    BY <2>2, <2>3, AdvancedIs
  <2>5. "CONNECTED" \notin flags
    BY DEF AckFlag, DataFlag
  <2> HIDE DEF c, flags
  <2>6. Moves(i, w)
    BY <2>3, <2>4, <2>5, AppCallMoves
  <2> HIDE DEF w
  <2>7. ConnShape(v.c)
    BY <2>6, FinnedIs DEF Moves
  <2> HIDE DEF v
  <2>8. Done(i, v, Reply(v.c, {"FIN", "ACK"}, <<>>)) /\ Reply(v.c, {"FIN", "ACK"}, <<>>) \in SUBSET SegRec
    BY <2>1, <2>7, ReplyType, FlagSets, NoBytesType DEF FinAck
  <2> QED BY <2>6, <2>8, OverStep DEF v
<1> QED BY <1>1, <1>2

LEMMA InEstablishedStep ==
  ASSUME SlotInv, NEW i \in Conns, NEW p \in Peers, NEW m \in SegRec, InEstablished(i, p, m) PROVE Stepped(i)
<1> DEFINE new == IF conn[i].stopped THEN {} ELSE Packet(p, m)
           n == IF new = {} THEN 0 ELSE Len(m.data)
           a == AfterAck(conn[i], m)
           c == Advanced(a, n)
           flags == AckFlag(conn[i], m) \union (IF new = {} THEN {} ELSE {"NEWDATA"})
           w == Call(c, flags)
           r == AppCall(w, new)
<1>1. conn[i].st = "ESTABLISHED" /\ IF flags = {} THEN Done(i, Call(c, {}), {}) ELSE AppSend(i, r)
  BY DEF InEstablished
<1>2. new \in SUBSET Packets /\ n \in Nat
  BY PacketType
<1>3. /\ ConnShape(a) /\ a.app = conn[i].app /\ a.st = "ESTABLISHED"
      /\ a.len = IF Acks(conn[i], m) THEN 0 ELSE conn[i].len
  BY <1>1, ConnIs, AfterAckIs
<1>4. "ACKDATA" \in flags => Acks(conn[i], m)
  BY DEF AckFlag
<1>5. flags \intersect {"CLOSE", "TIMEDOUT"} = {} /\ flags \intersect {"POLL", "REXMIT"} = {} /\ "CONNECTED" \notin flags
  BY DEF AckFlag
<1> HIDE DEF a, n
<1>6. ConnShape(c) /\ c.app = conn[i].app /\ c.st = "ESTABLISHED" /\ c.len = a.len
  BY <1>2, <1>3, AdvancedIs
<1> HIDE DEF c
<1>7. InFlight(c, slot)
  BY <1>1, <1>3, <1>6, ConnIs DEF InFlight
<1>8. w \in {Call(c, flags), OnTick(c, flags)} /\ ("ACKDATA" \in flags => c.len = 0)
  BY <1>3, <1>4, <1>6
<1> HIDE DEF flags, w, new
<1>9. CASE flags = {}
  BY <1>1, <1>6, <1>7, <1>9, PlainStep
<1>10. CASE flags # {}
  BY <1>1, <1>2, <1>5, <1>6, <1>7, <1>8, <1>10, AppSendStep
<1> QED BY <1>9, <1>10

LEMMA InLastAckStep == ASSUME SlotInv, NEW i \in Conns, NEW m \in SegRec, InLastAck(i, m) PROVE Stepped(i)
<1>1. CASE ~Acks(conn[i], m)
  <2>1. Done(i, Call(conn[i], {}), {})
    BY <1>1 DEF InLastAck
  <2> QED BY <2>1, ConnIs, PlainStep
<1>2. CASE Acks(conn[i], m)
  <2> DEFINE c == [conn[i] EXCEPT !.st = "CLOSED", !.stopped = FALSE]
             w == AppCall(Call(c, {"CLOSE"}), {})
  <2>1. ConnShape(c) /\ c.app = conn[i].app /\ c.st = "CLOSED"
    BY ConnIs DEF ConnShape
  <2>2. Done(i, Gone(w), {})
    BY <1>2 DEF InLastAck
  <2> HIDE DEF c
  <2>3. Moves(i, w) /\ Called(w, Call(c, {"CLOSE"})) /\ Call(c, {"CLOSE"}).c = c
    BY <2>1, AppCallMoves, CallIs
  <2> HIDE DEF w
  <2>4. w.c.st = "CLOSED"
    BY <2>1, <2>3 DEF Called, SameConn
  <2> QED BY <2>2, <2>3, <2>4, OverStep
<1> QED BY <1>1, <1>2

LEMMA InFinWaitStep == ASSUME SlotInv, NEW i \in Conns, NEW m \in SegRec, InFinWait(i, m) PROVE Stepped(i)
<1> DEFINE acked == conn[i].st = "FIN_WAIT_2" \/ Acks(conn[i], m)
           fin == "FIN" \in m.flags
           n == Len(m.data) + (IF fin THEN 1 ELSE 0)
           a == Advanced(AfterAck(conn[i], m), n)
           c == [a EXCEPT !.st = IF fin THEN IF acked THEN "TIME_WAIT" ELSE "CLOSING"
                                 ELSE IF acked THEN "FIN_WAIT_2" ELSE @]
           w == IF fin THEN AppCall(Call(c, {"CLOSE"}), {}) ELSE Call(c, {})
           out == IF ~fin /\ (m.data = <<>> \/ (conn[i].st = "FIN_WAIT_1" /\ acked)) THEN {} ELSE Reply(c, {"ACK"}, <<>>)
<1>1. conn[i].st \in {"FIN_WAIT_1", "FIN_WAIT_2"} /\ Done(i, w, out)
  BY DEF InFinWait
<1>2. n \in Nat
  <2>1. Len(m.data) \in Nat
    BY PacketType
  <2>2. \A x, y \in Nat : x + y \in Nat
    OBVIOUS
  <2>3. (IF fin THEN 1 ELSE 0) \in Nat
    OBVIOUS
  <2> QED BY <2>1, <2>2, <2>3, Zenon DEF n
<1>3. ConnShape(AfterAck(conn[i], m)) /\ AfterAck(conn[i], m).app = conn[i].app /\ AfterAck(conn[i], m).st = conn[i].st
  BY ConnIs, AfterAckIs
<1> HIDE DEF n
<1>4. ConnShape(a) /\ a.app = conn[i].app /\ a.st = conn[i].st
  BY <1>2, <1>3, AdvancedIs
<1> HIDE DEF a, acked
<1>5. ConnShape(c) /\ c.app = conn[i].app /\ c.st # "ESTABLISHED"
  BY <1>1, <1>4 DEF ConnShape
<1>6. out \in SUBSET SegRec
  BY <1>5, ReplyType, FlagSets, NoBytesType
<1> HIDE DEF c, out
<1>7. Moves(i, w) /\ w.c.st # "ESTABLISHED"
  <2>1. CASE fin
    <3> DEFINE u == Call(c, {"CLOSE"})
               r == AppCall(u, {})
    <3>1. Moves(i, r) /\ Called(r, u) /\ u.c = c /\ w = r
      BY <1>5, <2>1, AppCallMoves, CallIs
    <3> HIDE DEF r, u, w
    <3> QED BY <1>5, <3>1 DEF Called, SameConn
  <2>2. CASE ~fin
    BY <1>5, <2>2, CallStarts
  <2> QED BY <2>1, <2>2
<1> HIDE DEF w
<1> QED BY <1>1, <1>6, <1>7, OverStep

LEMMA InClosingStep == ASSUME SlotInv, NEW i \in Conns, NEW m \in SegRec, InClosing(i, m) PROVE Stepped(i)
<1> DEFINE a == AfterAck(conn[i], m)
           over == conn[i].st = "CLOSING" /\ Acks(conn[i], m)
           d == [a EXCEPT !.st = "TIME_WAIT", !.stopped = FALSE]
           c == IF over THEN d ELSE a
<1>1. conn[i].st \in {"CLOSING", "CLOSED"} /\ Done(i, Call(c, {}), {})
  BY DEF InClosing
<1>2. ConnShape(a) /\ a.app = conn[i].app /\ a.st = conn[i].st
  BY ConnIs, AfterAckIs
<1> HIDE DEF a
<1>3. ConnShape(d) /\ d.app = conn[i].app /\ d.st = "TIME_WAIT"
  BY <1>2 DEF ConnShape
<1> HIDE DEF d
<1>4. ConnShape(c) /\ c.app = conn[i].app /\ InFlight(c, slot)
  BY <1>1, <1>2, <1>3 DEF InFlight
<1> HIDE DEF c
<1> QED BY <1>1, <1>4, PlainStep

LEMMA InTimeWaitStep == ASSUME SlotInv, NEW i \in Conns, NEW m \in SegRec, InTimeWait(i, m) PROVE Stepped(i)
<1> DEFINE c == AfterAck(conn[i], m)
<1>1. conn[i].st = "TIME_WAIT" /\ Done(i, Call(c, {}), Reply(conn[i], {"ACK"}, <<>>))
  BY DEF InTimeWait
<1>2. ConnShape(c) /\ c.app = conn[i].app /\ c.st = "TIME_WAIT"
  BY <1>1, ConnIs, AfterAckIs
<1> HIDE DEF c
<1>3. InFlight(c, slot) /\ Reply(conn[i], {"ACK"}, <<>>) \in SUBSET SegRec
  BY <1>2, ConnIs, ReplyType, FlagSets, NoBytesType DEF InFlight
<1> QED BY <1>1, <1>2, <1>3, PlainStep

LEMMA MatchedStep ==
  ASSUME SlotInv, NEW i \in Conns, NEW p \in Peers, NEW m \in SegRec, Matched(i, p, m) PROVE Stepped(i)
BY GotResetStep, OutOfOrderStep, InSynRcvdStep, InSynSentStep, InSynSentOtherStep, InEstablishedFinStep,
   InEstablishedStep, InLastAckStep, InFinWaitStep, InClosingStep, InTimeWaitStep DEF Matched

(* A connection that is opened keeps the slot the record points to.        *)
LEMMA OpenedIs ==
  ASSUME SlotInv, NEW i \in Conns, NEW state, NEW p \in Peers, NEW rcv \in Nat, NEW lport
  PROVE  LET c == Opened(i, state, p, rcv, lport)
         IN  /\ ConnShape(c) /\ c.app = conn[i].app /\ c.st = state /\ c.peer = p /\ c.iss = opened + 1 /\ c.snd = 0
             /\ c.len = 1 /\ c.rcv = rcv /\ ~c.stopped
<1>1. conn[i].app \in Conns \union {NoSlot} /\ opened \in Nat
  BY DEF SlotInv, UipTypes, ConnShape
<1> QED BY <1>1 DEF Opened, ClosedConn, ConnShape

LEMMA CandidateIs == ASSUME NEW i \in Candidates PROVE i \in Conns
<1> DEFINE closed == {j \in Conns : Unused(conn[j])}
<1>1. CASE closed # {}
  <2>1. closed \in SUBSET Conns /\ i = Min(closed)
    BY <1>1 DEF Candidates
  <2> QED BY <1>1, <2>1, MinIn
<1>2. CASE closed = {}
  BY <1>2 DEF Candidates
<1> QED BY <1>1, <1>2

LEMMA ListensStep ==
  ASSUME SlotInv, NEW p \in Peers, NEW m \in SegRec, Listens(p, m)
  PROVE  opened' = opened + 1 /\ \E i \in Conns : Stepped(i)
<1>1. PICK i \in Candidates :
        LET c == Opened(i, "SYN_RCVD", p, m.seq + 1, "listen")
        IN  /\ conn' = [conn EXCEPT ![i] = c]
            /\ \E reply \in Reply(c, {"SYN", "ACK"}, <<>>) : \E under \in Sent(toPeer[p], reply) :
                 toPeer' = IF free > 0 THEN [toPeer EXCEPT ![p] = under] ELSE toPeer
  BY DEF Listens
<1> DEFINE c == Opened(i, "SYN_RCVD", p, m.seq + 1, "listen")
           v == Call(c, {})
<1>2. i \in Conns
  BY CandidateIs
<1>3. ConnShape(c) /\ c.app = conn[i].app /\ c.st = "SYN_RCVD"
  BY <1>2, OpenedIs, PacketType
<1>4. PICK reply \in Reply(c, {"SYN", "ACK"}, <<>>) :
        \E under \in Sent(toPeer[p], reply) : toPeer' = [toPeer EXCEPT ![p] = under] \/ toPeer' = toPeer
  BY <1>1
<1>5. conn' = [conn EXCEPT ![i] = c] /\ slot' = slot /\ free' = free /\ in_packet' = {} /\ opened' = opened + 1
  BY <1>1 DEF Listens
<1> HIDE DEF c
<1>6. Moves(i, v) /\ v.c = c /\ v.slot = slot /\ v.free = free /\ v.kept = {}
  BY <1>2, <1>3, CallStarts, CallIs
<1> HIDE DEF v
<1>7. Lawful(i, v) /\ Adopts(i, v)
  BY <1>3, <1>5, <1>6 DEF Lawful, InFlight, Adopts
<1>8. reply \in SegRec
  BY <1>3, <1>4, ReplyType, FlagSets, NoBytesType
<1>9. toPeer' \in [Peers -> SUBSET SegRec]
  BY <1>4, <1>8, ToPeerType DEF SlotInv, NetTypes
<1> QED BY <1>2, <1>5, <1>7, <1>9 DEF Stepped

(***************************************************************************)
(* The invariant, and the blocks, over a step of uIP                       *)
(***************************************************************************)
BlocksStep == free' + Held(slot') = free + Held(slot) \/ \E s \in Conns : Reused(s)

LEMMA SteppedBlocks ==
  ASSUME SlotInv, NEW i \in Conns, NEW v, Lawful(i, v), Adopts(i, v)
  PROVE  BlocksStep
<1>1. slot' = v.slot /\ free' = v.free /\ Moves(i, v) /\ Effect(v)
  BY DEF Adopts, Lawful, Moves
<1>2. (\A t \in Conns : SlotOK(slot[t]) /\ SlotOK(v.slot[t])) /\ free \in Nat /\ v.free \in Nat
  BY <1>1 DEF SlotInv, UipTypes, Effect
<1>3. CASE v.slot = slot /\ v.free = free
  BY <1>1, <1>3 DEF BlocksStep
<1>4. ASSUME NEW s \in Conns, \A t \in Conns \ {s} : v.slot[t] = slot[t],
             v.c.app \in {NoSlot, s} /\ (v.c.app = s => Serves(v.slot[s])),
             \/ conn[i].app = s /\ v.free + Units(v.slot[s]) = free + Units(slot[s])
             \/ conn[i].app = NoSlot /\ ~InUse(slot[s]) /\ v.c.app = s /\ v.free + Units(v.slot[s]) = free
      PROVE  BlocksStep
  <2>1. Held(v.slot) + Units(slot[s]) = Held(slot) + Units(v.slot[s]) /\ Held(slot) \in Nat /\ Held(v.slot) \in Nat
    BY <1>2, <1>4, HeldChanges
  <2>2. Units(slot[s]) \in Nat /\ Units(v.slot[s]) \in Nat
    BY <1>2, UnitsAre
  <2>3. CASE v.free + Units(v.slot[s]) = free + Units(slot[s])
    <3>1. v.free + Held(v.slot) = free + Held(slot)
      BY <1>2, <2>1, <2>2, <2>3
    <3> QED BY <1>1, <3>1 DEF BlocksStep
  <2>4. CASE ~InUse(slot[s]) /\ v.c.app = s /\ v.free + Units(v.slot[s]) = free /\ slot[s].out = <<>>
    <3>1. slot[s].in = <<>>
      BY <1>2, <2>4 DEF SlotOK, InUse
    <3>2. Units(slot[s]) = 0
      BY <2>4, <3>1 DEF Units
    <3>3. v.free + Held(v.slot) = free + Held(slot)
      BY <1>2, <2>1, <2>2, <2>4, <3>2
    <3> QED BY <1>1, <3>3 DEF BlocksStep
  <2>5. CASE ~InUse(slot[s]) /\ v.c.app = s /\ slot[s].out # <<>>
    <3>1. InUse(slot'[s])
      BY <1>1, <1>4, <2>5 DEF Serves, InUse
    <3>2. Reused(s)
      BY <2>5, <3>1 DEF Reused
    <3> QED BY <3>2 DEF BlocksStep
  <2> QED BY <1>4, <2>3, <2>4, <2>5
<1> QED BY <1>1, <1>3, <1>4 DEF Moves

LEMMA SteppedKeeps ==
  ASSUME SlotInv, NEW i \in Conns, Stepped(i), NetTypes', opened' \in Nat, UNCHANGED <<client, call, written>>
  PROVE  SlotInv' /\ BlocksStep
<1>1. PICK v : Lawful(i, v) /\ Adopts(i, v)
  BY DEF Stepped
<1>2. /\ conn' = [conn EXCEPT ![i] = v.c] /\ slot' = v.slot /\ free' = v.free /\ in_packet' = v.kept
      /\ Moves(i, v) /\ Effect(v) /\ InFlight(v.c, v.slot)
  BY <1>1 DEF Adopts, Lawful, Moves
<1>3. conn'[i] = v.c /\ \A j \in Conns \ {i} : conn'[j] = conn[j]
  BY <1>2 DEF SlotInv, UipTypes
<1>4. UipTypes'
  <2>1. DOMAIN conn' = Conns /\ \A j \in Conns : ConnShape(conn'[j])
    BY <1>2, <1>3 DEF SlotInv, UipTypes, Effect
  <2>2. DOMAIN slot' = Conns /\ (\A t \in Conns : SlotOK(slot'[t])) /\ free' \in Nat /\ in_packet' \in SUBSET Packets
    BY <1>2 DEF Effect
  <2> QED BY <2>1, <2>2 DEF UipTypes
<1>5. SketchTypes'
  BY DEF SlotInv, SketchTypes
<1>6. ASSUME NEW j \in Conns \ {i}, conn[j].app # NoSlot
      PROVE  slot'[conn[j].app] = slot[conn[j].app] /\ conn'[i].app # conn[j].app
  <2>1. conn[j].app \in Conns /\ Serves(slot[conn[j].app]) /\ conn[i].app # conn[j].app
    BY <1>6 DEF SlotInv, Owners, UipTypes, ConnShape
  <2>2. InUse(slot[conn[j].app])
    BY <2>1 DEF Serves, InUse
  <2> QED BY <1>2, <1>3, <1>6, <2>1, <2>2 DEF Moves
<1>7. conn'[i].app # NoSlot => Serves(slot'[conn'[i].app])
  BY <1>2, <1>3 DEF Moves, SlotInv, Owners
<1>8. Owners'
  <2>1. ASSUME NEW j \in Conns, conn'[j].app # NoSlot PROVE Serves(slot'[conn'[j].app])
    BY <1>3, <1>6, <1>7, <2>1 DEF SlotInv, Owners
  <2>2. ASSUME NEW j \in Conns, NEW k \in Conns, conn'[j].app = conn'[k].app, conn'[j].app # NoSlot PROVE j = k
    BY <1>3, <1>6, <2>2 DEF SlotInv, Owners
  <2> QED BY <2>1, <2>2 DEF Owners
<1>9. ASSUME NEW j \in Conns PROVE InFlight(conn'[j], slot')
  <2>1. CASE j = i
    BY <1>2, <1>3, <2>1
  <2>2. CASE j # i
    <3>1. InFlight(conn[j], slot)
      BY DEF SlotInv
    <3>2. conn'[j] = conn[j] /\ (conn[j].app # NoSlot => slot'[conn[j].app] = slot[conn[j].app])
      BY <1>3, <1>6, <2>2
    <3> QED BY <3>1, <3>2 DEF InFlight
  <2> QED BY <2>1, <2>2
<1>10. BlocksStep
  BY <1>1, SteppedBlocks
<1> QED BY <1>4, <1>5, <1>8, <1>9, <1>10 DEF SlotInv

LEMMA TimerKeeps == ASSUME SlotInv, NEW i \in Conns, Timer(i) PROVE SlotInv' /\ BlocksStep
<1>1. Stepped(i) /\ UNCHANGED <<sketchVars, toUs, peer, received>>
  BY TimerStep DEF Timer
<1>2. toPeer' \in [Peers -> SUBSET SegRec]
  BY <1>1 DEF Stepped
<1>3. NetTypes'
  BY <1>1, <1>2 DEF SlotInv, NetTypes
<1>4. opened' \in Nat /\ UNCHANGED <<client, call, written>>
  BY <1>1 DEF SlotInv, UipTypes, sketchVars
<1> QED BY <1>1, <1>3, <1>4, SteppedKeeps

LEMMA InputKeeps == ASSUME SlotInv, NEW p \in Peers, Input(p) PROVE SlotInv' /\ BlocksStep
<1>1. PICK m \in Waiting(p) :
        /\ Arriving(p, m)
        /\ NoConnection(p, m) \/ Listens(p, m) \/ NoneLeft(p, m) \/ \E i \in Conns : Matched(i, p, m)
        /\ UNCHANGED <<client, call, read, written, peer, received>>
  BY DEF Input
<1>2. m \in SegRec /\ toUs' \in [Peers -> SUBSET SegRec]
  <2>1. toUs \in [Peers -> SUBSET SegRec] /\ in_packet \in SUBSET Packets
    BY DEF SlotInv, NetTypes, UipTypes
  <2>2. toUs' = [toUs EXCEPT ![p] = @ \ {m}] \/ toUs' = toUs
    BY <1>1 DEF Arriving
  <2>3. m \in SegRec
    BY <1>1, <2>1 DEF Waiting, Packets
  <2> QED BY <2>1, <2>2, <2>3
<1>3. ASSUME toPeer' \in [Peers -> SUBSET SegRec] PROVE NetTypes'
  BY <1>1, <1>2, <1>3 DEF SlotInv, NetTypes
<1>4. opened \in Nat
  BY DEF SlotInv, UipTypes
<1>5. CASE NoConnection(p, m) \/ NoneLeft(p, m)
  <2>1. UNCHANGED <<conn, slot, free, opened>> /\ in_packet' = {} /\ (UNCHANGED toPeer \/ RstTo(p, m))
    BY <1>5 DEF NoConnection, NoneLeft
  <2>2. toPeer' \in [Peers -> SUBSET SegRec]
    BY <1>2, <2>1, RstToType DEF SlotInv, NetTypes
  <2>3. NetTypes' /\ UipTypes' /\ SketchTypes' /\ Owners' /\ BlocksStep
    BY <1>1, <1>3, <2>1, <2>2 DEF SlotInv, UipTypes, SketchTypes, Owners, BlocksStep
  <2>4. \A j \in Conns : InFlight(conn'[j], slot')
    BY <2>1 DEF SlotInv
  <2> QED BY <2>3, <2>4 DEF SlotInv
<1>6. CASE Listens(p, m)
  <2>1. opened' = opened + 1
    BY <1>2, <1>6, ListensStep
  <2>2. PICK i \in Conns : Stepped(i)
    BY <1>2, <1>6, ListensStep
  <2>3. NetTypes' /\ opened' \in Nat
    BY <1>3, <1>4, <2>1, <2>2 DEF Stepped
  <2> QED BY <1>1, <2>2, <2>3, SteppedKeeps
<1>7. ASSUME NEW i \in Conns, Matched(i, p, m) PROVE SlotInv' /\ BlocksStep
  <2>1. Stepped(i) /\ opened' = opened
    BY <1>2, <1>7, MatchedStep DEF Matched
  <2>2. NetTypes'
    BY <1>3, <2>1 DEF Stepped
  <2> QED BY <1>1, <1>4, <2>1, <2>2, SteppedKeeps
<1> QED BY <1>1, <1>5, <1>6, <1>7

(***************************************************************************)
(* Steps of the sketch                                                     *)
(***************************************************************************)
(* What is outstanding of slot o is still the first block of n.            *)
Steady(o, n) ==
  o.out # <<>> /\ (Len(o.out) = 1 => o.room = 0) =>
    n.out # <<>> /\ Len(Head(n.out)) = Len(Head(o.out)) /\ (Len(n.out) = 1 => n.room = 0)

LEMMA SlotStep ==
  ASSUME SlotInv, UNCHANGED tcpVars, SketchTypes', NEW s \in Conns, NEW n, SlotOK(n), slot' = [slot EXCEPT ![s] = n],
         free' \in Nat, free' + Units(n) = free + Units(slot[s]),
         Serves(slot[s]) => Serves(n), Steady(slot[s], n)
  PROVE  SlotInv' /\ BlocksStep
<1>1. /\ UNCHANGED <<conn, in_packet, opened, toUs, toPeer, peer, received>>
      /\ slot'[s] = n /\ (\A t \in Conns \ {s} : slot'[t] = slot[t]) /\ DOMAIN slot' = Conns
  BY DEF tcpVars, netVars, SlotInv, UipTypes
<1>2. NetTypes' /\ UipTypes'
  BY <1>1 DEF SlotInv, NetTypes, UipTypes
<1>3. ASSUME NEW i \in Conns PROVE conn[i].app # NoSlot => Serves(slot'[conn[i].app])
  BY <1>1 DEF SlotInv, Owners, UipTypes, ConnShape
<1>4. Owners'
  BY <1>1, <1>3 DEF Owners, SlotInv
<1>5. ASSUME NEW i \in Conns PROVE InFlight(conn'[i], slot')
  <2>1. InFlight(conn[i], slot) /\ conn'[i] = conn[i]
    BY <1>1 DEF SlotInv
  <2>2. CASE conn[i].app = s
    BY <1>1, <2>1, <2>2 DEF InFlight, Steady
  <2>3. CASE conn[i].app # s
    <3>1. conn[i].app # NoSlot => slot'[conn[i].app] = slot[conn[i].app]
      BY <1>1, <2>3 DEF SlotInv, UipTypes, ConnShape
    <3> QED BY <2>1, <3>1 DEF InFlight
  <2> QED BY <2>2, <2>3
<1>6. BlocksStep
  <2>1. (\A t \in Conns : SlotOK(slot[t]) /\ SlotOK(slot'[t])) /\ free \in Nat
    BY <1>2 DEF SlotInv, UipTypes
  <2> DEFINE b == slot'
  <2>2. (\A t \in Conns : SlotOK(slot[t]) /\ SlotOK(b[t])) /\ b[s] = n /\ \A t \in Conns \ {s} : b[t] = slot[t]
    BY <1>1, <2>1
  <2> HIDE DEF b
  <2>3. Held(b) + Units(slot[s]) = Held(slot) + Units(b[s]) /\ Held(slot) \in Nat /\ Held(b) \in Nat
    BY <2>2, HeldChanges
  <2>4. Units(slot[s]) \in Nat /\ Units(n) \in Nat
    BY <2>1, UnitsAre
  <2>5. free' + Held(b) = free + Held(slot)
    BY <2>1, <2>2, <2>3, <2>4
  <2> QED BY <2>5 DEF BlocksStep, b
<1> QED BY <1>2, <1>4, <1>5, <1>6 DEF SlotInv

LEMMA SameOut ==
  ASSUME NEW o, NEW n, n.out = o.out, n.room = o.room PROVE Steady(o, n)
BY DEF Steady

LEMMA ReadIs ==
  ASSUME NEW o, SlotOK(o), o.in # <<>>, NEW stopped
  PROVE  LET n == Read(o, stopped)
         IN  /\ SlotOK(n) /\ n.out = o.out /\ n.room = o.room /\ (Serves(o) => Serves(n))
             /\ Len(n.in) = IF Len(Head(o.in)) = 1 THEN Len(o.in) - 1 ELSE Len(o.in)
<1> DEFINE n == Read(o, stopped)
<1>1. o.in \in Seq(Block) /\ Head(o.in) = o.in[1] /\ Head(o.in) \in Block /\ Head(o.in) # <<>> /\ 1 \in 1 .. Len(o.in)
      /\ "CONNECTED" \in o.state /\ "CLOSE" \notin o.state
  <2>1. o.in \in Seq(Block)
    BY DEF SlotOK, SlotShape
  <2>2. Head(o.in) = o.in[1] /\ Head(o.in) \in Block /\ 1 \in 1 .. Len(o.in)
    BY <2>1
  <2> QED BY <2>1, <2>2 DEF SlotOK, Filled
<1>2. CASE Len(Head(o.in)) > 1
  <2>1. /\ DOMAIN n = DOMAIN o /\ n.state = o.state /\ n.in = [o.in EXCEPT ![1] = Tail(@)]
        /\ n.out = o.out /\ n.room = o.room
    BY <1>2 DEF Read, SlotOK, SlotShape
  <2>2. Tail(Head(o.in)) \in Block /\ Tail(Head(o.in)) # <<>>
    <3>1. \A b \in Block : Len(b) > 1 => Tail(b) \in Block /\ Len(Tail(b)) > 0
      BY DEF Block
    <3>2. Tail(Head(o.in)) \in Block /\ Len(Tail(Head(o.in))) > 0
      BY <1>1, <1>2, <3>1
    <3>3. Len(<<>>) = 0 /\ ~(0 > 0)
      OBVIOUS
    <3> QED BY <3>2, <3>3, Zenon
  <2>3. /\ n.in \in Seq(Block) /\ Len(n.in) = Len(o.in) /\ n.in # <<>>
        /\ \A k \in 1 .. Len(o.in) : n.in[k] = IF k = 1 THEN Tail(Head(o.in)) ELSE o.in[k]
    BY <1>1, <2>1, <2>2
  <2>4. Filled(n.in)
    BY <2>2, <2>3 DEF SlotOK, Filled
  <2> HIDE DEF n
  <2>5. SlotOK(n) /\ (Serves(o) => Serves(n))
    BY <1>1, <2>1, <2>3, <2>4 DEF SlotOK, SlotShape, Serves
  <2>6. Len(Head(o.in)) # 1
    <3>1. ~(1 > 1)
      OBVIOUS
    <3> QED BY <1>2, <3>1, Zenon
  <2>7. Len(n.in) = IF Len(Head(o.in)) = 1 THEN Len(o.in) - 1 ELSE Len(o.in)
    BY <2>3, <2>6, Zenon
  <2> QED BY <2>1, <2>5, <2>7 DEF n
<1>3. CASE ~(Len(Head(o.in)) > 1)
  <2>1. /\ DOMAIN n = DOMAIN o /\ n.in = Tail(o.in) /\ n.out = o.out /\ n.room = o.room
        /\ n.state = IF Len(o.in) = 1 /\ "REMOTECLOSED" \in o.state THEN {}
                     ELSE IF stopped /\ ~Refuses(o) THEN o.state \union {"RESTART"}
                     ELSE o.state
    BY <1>3 DEF Read, SlotOK, SlotShape
  <2>2. Len(Head(o.in)) = 1
    <3>1. ASSUME NEW b \in Block, b # <<>>, ~(Len(b) > 1) PROVE Len(b) = 1
      <4>1. b \in Seq(Byte) /\ Len(b) \in Nat
        BY DEF Block
      <4>2. Len(b) # 0
        BY <3>1, <4>1
      <4>3. \A k \in Nat : k # 0 /\ ~(k > 1) => k = 1
        OBVIOUS
      <4> QED BY <3>1, <4>1, <4>2, <4>3, Zenon
    <3> QED BY <1>1, <1>3, <3>1
  <2>3. /\ Tail(o.in) \in Seq(Block) /\ Len(Tail(o.in)) = Len(o.in) - 1 /\ Filled(Tail(o.in))
        /\ Len(o.in) = 1 => Tail(o.in) = <<>>
    <3>1. Tail(o.in) \in Seq(Block) /\ Len(Tail(o.in)) = Len(o.in) - 1 /\ Filled(Tail(o.in))
      BY <1>1, TailFilled DEF SlotOK
    <3>2. \A q \in Seq(Block) : Len(q) = 0 => q = <<>>
      OBVIOUS
    <3>3. Len(o.in) = 1 => Len(Tail(o.in)) = 0
      BY <3>1
    <3>4. Len(o.in) = 1 => Tail(o.in) = <<>>
      BY <3>1, <3>2, <3>3, Zenon
    <3> QED BY <3>1, <3>4
  <2> HIDE DEF n
  <2>4. /\ n.state = {} \/ ("CONNECTED" \in n.state /\ "CLOSE" \notin n.state)
        /\ n.in # <<>> => "CONNECTED" \in n.state /\ "CLOSE" \notin n.state
        /\ Serves(o) => Serves(n)
    BY <1>1, <2>1, <2>3 DEF Serves
  <2>5. SlotOK(n)
    BY <2>1, <2>3, <2>4 DEF SlotOK, SlotShape
  <2> QED BY <2>1, <2>2, <2>3, <2>4, <2>5 DEF n
<1> QED BY <1>2, <1>3

LEMMA StoppedIs ==
  ASSUME NEW o, SlotOK(o), InUse(o)
  PROVE  LET n == Stopped(o)
         IN  /\ SlotOK(n) /\ n.in = <<>> /\ n.out = o.out /\ n.room = o.room /\ (Serves(o) => Serves(n))
<1> DEFINE n == Stopped(o)
<1>1. /\ DOMAIN n = DOMAIN o /\ n.in = <<>> /\ n.out = o.out /\ n.room = o.room
      /\ n.state = IF "REMOTECLOSED" \in o.state THEN {} ELSE o.state \union {"CLOSE"}
  BY DEF Stopped, SlotOK, SlotShape
<1>2. "CONNECTED" \in o.state
  BY DEF SlotOK, InUse
<1>3. <<>> \in Seq(Block) /\ Filled(<<>>)
  BY DEF Filled
<1> HIDE DEF n
<1>4. (n.state = {} \/ "CONNECTED" \in n.state) /\ (Serves(o) => Serves(n))
  BY <1>1, <1>2 DEF Serves
<1>5. SlotOK(n)
  BY <1>1, <1>3, <1>4 DEF SlotOK, SlotShape
<1> QED BY <1>1, <1>4, <1>5 DEF n

(* Bytes added to the last block.                                          *)
LEMMA FilledUp ==
  ASSUME NEW out \in Seq(Block), Filled(out), NEW x \in Block
  PROVE  LET filled == [i \in DOMAIN out |-> IF i = Len(out) THEN out[i] \o x ELSE out[i]]
         IN  /\ filled \in Seq(Block) /\ Len(filled) = Len(out) /\ Filled(filled)
             /\ out # <<>> => filled # <<>>
             /\ out # <<>> /\ (Len(out) = 1 => Len(x) = 0) => Len(Head(filled)) = Len(Head(out))
<1> DEFINE filled == [i \in DOMAIN out |-> IF i = Len(out) THEN out[i] \o x ELSE out[i]]
<1>1. \A b, c \in Block : b \o c \in Block /\ Len(b \o c) = Len(b) + Len(c) /\ Len(b) \in Nat /\ (b = <<>> <=> Len(b) = 0)
  BY DEF Block
<1>2. \A i \in 1 .. Len(out) : out[i] \in Block /\ out[i] # <<>>
  BY DEF Filled
<1>3. \A i \in 1 .. Len(out) : out[i] \o x \in Block /\ out[i] \o x # <<>>
  <2> TAKE i \in 1 .. Len(out)
  <2>1. Len(out[i]) \in Nat /\ Len(out[i]) # 0 /\ Len(x) \in Nat /\ Len(out[i] \o x) = Len(out[i]) + Len(x) /\ out[i] \o x \in Block
    BY <1>1, <1>2
  <2>2. Len(out[i] \o x) # 0
    BY <2>1
  <2> QED BY <1>1, <2>1, <2>2, Zenon
<1>4. DOMAIN out = 1 .. Len(out) /\ Len(out) \in Nat
  OBVIOUS
<1>5. filled \in Seq(Block) /\ Len(filled) = Len(out)
  <2>1. filled = [i \in 1 .. Len(out) |-> IF i = Len(out) THEN out[i] \o x ELSE out[i]]
    BY <1>4
  <2>2. \A i \in 1 .. Len(out) : (IF i = Len(out) THEN out[i] \o x ELSE out[i]) \in Block
    BY <1>2, <1>3
  <2>3. filled \in [1 .. Len(out) -> Block]
    BY <2>1, <2>2
  <2>4. \A k \in Nat : \A g \in [1 .. k -> Block] : g \in Seq(Block) /\ Len(g) = k
    OBVIOUS
  <2> QED BY <1>4, <2>3, <2>4, Zenon
<1>6. \A i \in 1 .. Len(out) : filled[i] = IF i = Len(out) THEN out[i] \o x ELSE out[i]
  BY <1>4
<1> HIDE DEF filled
<1>7. Filled(filled)
  <2>1. \A i \in 1 .. Len(out) : filled[i] # <<>>
    BY <1>2, <1>3, <1>6
  <2> QED BY <1>5, <2>1 DEF Filled
<1>8. ASSUME out # <<>> PROVE filled # <<>> /\ ((Len(out) = 1 => Len(x) = 0) => Len(Head(filled)) = Len(Head(out)))
  <2>1. Len(out) # 0 /\ 1 \in 1 .. Len(out) /\ Head(out) = out[1]
    BY <1>8
  <2>2. Len(filled) # 0 /\ filled # <<>> /\ Head(filled) = filled[1]
    BY <1>5, <2>1
  <2>3. CASE Len(out) = 1
    <3>1. filled[1] = out[1] \o x /\ out[1] \in Block
      BY <1>2, <1>6, <2>1, <2>3
    <3>2. Len(filled[1]) = Len(out[1]) + Len(x) /\ Len(out[1]) \in Nat
      BY <1>1, <3>1
    <3>3. Len(x) = 0 => Len(filled[1]) = Len(out[1])
      BY <3>2
    <3> QED BY <2>1, <2>2, <2>3, <3>3
  <2>4. CASE Len(out) # 1
    BY <1>6, <2>1, <2>2, <2>4
  <2> QED BY <2>2, <2>3, <2>4
<1> QED BY <1>5, <1>7, <1>8 DEF filled

LEMMA Parts ==
  ASSUME NEW bytes \in Block, NEW k \in 0 .. Len(bytes)
  PROVE  /\ SubSeq(bytes, 1, k) \in Block /\ Len(SubSeq(bytes, 1, k)) = k
         /\ SubSeq(bytes, k + 1, Len(bytes)) \in Block /\ Len(SubSeq(bytes, k + 1, Len(bytes))) = Len(bytes) - k
         /\ (SubSeq(bytes, k + 1, Len(bytes)) # <<>> <=> k < Len(bytes))
<1>1. bytes \in Seq(Byte) /\ Len(bytes) \in Nat /\ k \in Nat /\ k <= Len(bytes)
  BY DEF Block
<1>2. SubSeq(bytes, 1, k) \in Seq(Byte) /\ Len(SubSeq(bytes, 1, k)) = k
  BY <1>1
<1>3. SubSeq(bytes, k + 1, Len(bytes)) \in Seq(Byte) /\ Len(SubSeq(bytes, k + 1, Len(bytes))) = Len(bytes) - k
  BY <1>1
<1>4. \A q \in Seq(Byte) : q = <<>> <=> Len(q) = 0
  OBVIOUS
<1>5. k < Len(bytes) <=> Len(bytes) - k # 0
  BY <1>1
<1>6. SubSeq(bytes, k + 1, Len(bytes)) # <<>> <=> k < Len(bytes)
  BY <1>3, <1>4, <1>5, Zenon
<1> QED BY <1>2, <1>3, <1>6 DEF Block

LEMMA WroteIs ==
  ASSUME NEW o, SlotOK(o), NEW bytes \in Block, Len(bytes) \in 1 .. DataLen, NEW f \in Nat,
         NEW n, n = [o EXCEPT !.out = Wrote(o, bytes, f).out, !.room = Wrote(o, bytes, f).room]
  PROVE  LET w == Wrote(o, bytes, f)
         IN  /\ SlotOK(n) /\ n.in = o.in /\ n.state = o.state /\ Steady(o, n)
             /\ w.blocks \in {0, 1} /\ f - w.blocks \in Nat /\ (f - w.blocks) + Units(n) = f + Units(o)
             /\ w.left \in 0 .. Len(bytes)
<1> DEFINE w == Wrote(o, bytes, f)
           old == IF Len(bytes) < o.room THEN Len(bytes) ELSE o.room
           x == SubSeq(bytes, 1, old)
           rest == SubSeq(bytes, old + 1, Len(bytes))
           new == rest # <<>> /\ Len(o.out) < NumPackets /\ f > 0
           filled == [i \in DOMAIN o.out |-> IF i = Len(o.out) THEN o.out[i] \o x ELSE o.out[i]]
<1>1. /\ w.out = IF new THEN Append(filled, rest) ELSE filled
      /\ w.room = IF new THEN DataLen - Len(rest) ELSE o.room - old
      /\ w.blocks = IF new THEN 1 ELSE 0
      /\ w.left = IF new THEN 0 ELSE Len(rest)
  BY DEF Wrote
<1>2. /\ DOMAIN n = {"state", "in", "out", "room", "lport"} /\ n.out = w.out /\ n.room = w.room
      /\ n.in = o.in /\ n.state = o.state
  BY DEF SlotOK, SlotShape
<1>3. o.out \in Seq(Block) /\ o.room \in Nat /\ Filled(o.out) /\ (o.out = <<>> => o.room = 0) /\ o.in \in Seq(Block)
  BY DEF SlotOK, SlotShape
<1>4. Len(bytes) \in Nat /\ Len(bytes) <= DataLen /\ DataLen \in Nat
  BY SlotAssumption
<1>5. old \in 0 .. Len(bytes) /\ o.room - old \in Nat /\ (o.room = 0 => old = 0 /\ o.room - old = 0) /\ old \in Nat
  <2>1. \A a, r \in Nat : LET k == IF a < r THEN a ELSE r
                          IN  k \in 0 .. a /\ r - k \in Nat /\ (r = 0 => k = 0 /\ r - k = 0) /\ k \in Nat
    OBVIOUS
  <2> QED BY <1>3, <1>4, <2>1
<1> HIDE DEF old, w
<1>6. /\ x \in Block /\ Len(x) = old /\ rest \in Block /\ Len(rest) = Len(bytes) - old
  BY <1>5, Parts
<1>7. Len(rest) \in 0 .. Len(bytes) /\ DataLen - Len(rest) \in Nat
  <2>1. \A a, d, k \in Nat : a <= d /\ k \in 0 .. a => a - k \in 0 .. a /\ d - (a - k) \in Nat
    OBVIOUS
  <2>2. Len(bytes) - old \in 0 .. Len(bytes) /\ DataLen - (Len(bytes) - old) \in Nat
    BY <1>4, <1>5, <2>1
  <2> QED BY <1>6, <2>2
<1> HIDE DEF x, rest
<1>8. /\ filled \in Seq(Block) /\ Len(filled) = Len(o.out) /\ Filled(filled)
      /\ o.out # <<>> => filled # <<>>
      /\ o.out # <<>> /\ (Len(o.out) = 1 => Len(x) = 0) => Len(Head(filled)) = Len(Head(o.out))
  BY <1>3, <1>6, FilledUp
<1> HIDE DEF filled
<1>9. CASE new
  <2>1. w.out = Append(filled, rest) /\ w.room = DataLen - Len(rest) /\ w.blocks = 1 /\ w.left = 0
    BY <1>1, <1>9
  <2>2. w.out \in Seq(Block) /\ Len(w.out) = Len(filled) + 1 /\ Filled(w.out) /\ w.out # <<>>
    BY <1>6, <1>8, <1>9, <2>1, AppendFilled
  <2>3. filled # <<>> => Head(w.out) = Head(filled)
    BY <1>6, <1>8, <2>1
  <2>4. SlotOK(n)
    BY <1>2, <1>7, <2>1, <2>2 DEF SlotOK, SlotShape
  <2>5. Steady(o, n)
    <3> SUFFICES ASSUME o.out # <<>>, Len(o.out) = 1 => o.room = 0
                 PROVE  n.out # <<>> /\ Len(Head(n.out)) = Len(Head(o.out)) /\ (Len(n.out) = 1 => n.room = 0)
      BY DEF Steady
    <3>1. Len(o.out) = 1 => Len(x) = 0
      BY <1>5, <1>6
    <3>2. Len(Head(n.out)) = Len(Head(o.out))
      BY <1>2, <1>8, <2>3, <3>1
    <3>3. Len(n.out) # 1
      <4>1. Len(n.out) = Len(o.out) + 1 /\ Len(o.out) \in Nat /\ Len(o.out) # 0
        BY <1>2, <1>3, <1>8, <2>2
      <4>2. \A k \in Nat : k # 0 => k + 1 # 1
        OBVIOUS
      <4> QED BY <4>1, <4>2
    <3> QED BY <1>2, <2>2, <3>2, <3>3
  <2>6. f - w.blocks \in Nat /\ (f - w.blocks) + Units(n) = f + Units(o)
    <3>1. Len(n.out) = Len(o.out) + 1 /\ Len(n.in) = Len(o.in) /\ w.blocks = 1 /\ f > 0
      BY <1>2, <1>8, <1>9, <2>1, <2>2
    <3>2. Len(o.out) \in Nat /\ Len(o.in) \in Nat
      BY <1>3
    <3>3. \A a, b, c \in Nat : c > 0 => c - 1 \in Nat /\ (c - 1) + (a + (b + 1)) = c + (a + b)
      OBVIOUS
    <3>4. (f - 1) + (Len(o.in) + (Len(o.out) + 1)) = f + (Len(o.in) + Len(o.out)) /\ f - 1 \in Nat
      BY <3>1, <3>2, <3>3
    <3> QED BY <3>1, <3>4, Zenon DEF Units
  <2>7. w.left \in 0 .. Len(bytes) /\ w.blocks \in {0, 1}
    BY <1>4, <2>1
  <2> QED BY <1>2, <2>4, <2>5, <2>6, <2>7 DEF w
<1>10. CASE ~new
  <2>1. w.out = filled /\ w.room = o.room - old /\ w.blocks = 0 /\ w.left = Len(rest)
    BY <1>1, <1>10
  <2>2. n.out = <<>> => n.room = 0
    BY <1>2, <1>3, <1>5, <1>8, <2>1
  <2>3. SlotOK(n)
    BY <1>2, <1>5, <1>8, <2>1, <2>2 DEF SlotOK, SlotShape
  <2>4. Steady(o, n)
    BY <1>2, <1>5, <1>6, <1>8, <2>1 DEF Steady
  <2>5. f - w.blocks \in Nat /\ (f - w.blocks) + Units(n) = f + Units(o)
    <3>1. Units(n) = Units(o)
      BY <1>2, <1>8, <2>1 DEF Units
    <3>2. f - w.blocks = f
      BY <2>1
    <3> QED BY <3>1, <3>2
  <2>6. w.left \in 0 .. Len(bytes) /\ w.blocks \in {0, 1}
    BY <1>7, <2>1
  <2> QED BY <1>2, <2>3, <2>4, <2>5, <2>6 DEF w
<1> QED BY <1>9, <1>10

(* A step of the sketch that changes none of the slots.                    *)
LEMMA QuietStep ==
  ASSUME SlotInv, UNCHANGED <<tcpVars, slot, free>>, SketchTypes'
  PROVE  SlotInv' /\ BlocksStep
<1>1. UNCHANGED <<conn, in_packet, opened, toUs, toPeer, peer, received, slot, free>>
  BY DEF tcpVars, netVars
<1>2. NetTypes' /\ UipTypes' /\ Owners'
  BY <1>1 DEF SlotInv, NetTypes, UipTypes, Owners
<1>3. \A i \in Conns : InFlight(conn'[i], slot')
  BY <1>1 DEF SlotInv
<1> QED BY <1>1, <1>2, <1>3 DEF SlotInv, BlocksStep

LEMMA NoCallIs == NoCall.op = "none" /\ NoCall \in CallTypes /\ NoCall.op # "write"
BY DEF NoCall, CallTypes

LEMMA AvailableStep == ASSUME SlotInv, Available PROVE SlotInv' /\ BlocksStep
<1>1. call = NoCall /\ UNCHANGED <<tcpVars, slot, free, call, written>>
  BY DEF Available, Free
<1>2. client' \in Conns \union {NoSlot}
  <2> DEFINE S == {i \in Conns : HasData(i)}
  <2>1. S # {} => Min(S) \in S
    <3>1. S \in SUBSET Conns
      OBVIOUS
    <3> HIDE DEF S
    <3> QED BY <3>1, MinIn
  <2>2. client' = IF \E i \in Conns : HasData(i) THEN Min(S) ELSE NoSlot
    BY DEF Available
  <2> QED BY <2>1, <2>2
<1>3. SketchTypes'
  BY <1>1, <1>2, NoCallIs DEF SlotInv, SketchTypes
<1> QED BY <1>1, <1>3, QuietStep

LEMMA ReadByteStep == ASSUME SlotInv, ReadByte PROVE SlotInv' /\ BlocksStep
<1> DEFINE o == slot[client]
           n == Read(slot[client], conn[client].stopped)
<1>1. /\ call = NoCall /\ client # NoSlot /\ o.in # <<>> /\ slot' = [slot EXCEPT ![client] = n]
      /\ free' = IF Len(Head(o.in)) = 1 THEN free + 1 ELSE free
      /\ client' = IF InUse(n) THEN client ELSE NoSlot
      /\ UNCHANGED <<tcpVars, call, written>>
  BY DEF ReadByte, Free
<1>2. client \in Conns /\ SlotOK(o) /\ free \in Nat
  BY <1>1 DEF SlotInv, SketchTypes, UipTypes
<1>3. /\ SlotOK(n) /\ n.out = o.out /\ n.room = o.room /\ (Serves(o) => Serves(n))
      /\ Len(n.in) = IF Len(Head(o.in)) = 1 THEN Len(o.in) - 1 ELSE Len(o.in)
  BY <1>1, <1>2, ReadIs
<1> HIDE DEF n
<1>4. SketchTypes'
  BY <1>1, <1>2, NoCallIs DEF SlotInv, SketchTypes
<1>5. free' \in Nat /\ free' + Units(n) = free + Units(o)
  <2>1. Len(o.in) \in Nat /\ Len(o.out) \in Nat
    BY <1>2 DEF SlotOK, SlotShape
  <2>2. Units(n) = Len(n.in) + Len(o.out) /\ Units(o) = Len(o.in) + Len(o.out)
    BY <1>3 DEF Units
  <2>3. \A a, b, c \in Nat : (c + 1) + ((a - 1) + b) = c + (a + b) /\ c + 1 \in Nat
    OBVIOUS
  <2>4. CASE Len(Head(o.in)) = 1
    <3>1. (free + 1) + ((Len(o.in) - 1) + Len(o.out)) = free + (Len(o.in) + Len(o.out)) /\ free + 1 \in Nat
      BY <1>2, <2>1, <2>3
    <3>2. Len(n.in) = Len(o.in) - 1 /\ free' = free + 1
      BY <1>1, <1>3, <2>4
    <3> QED BY <2>2, <3>1, <3>2, Zenon
  <2>5. CASE Len(Head(o.in)) # 1
    <3>1. Len(n.in) = Len(o.in) /\ free' = free
      BY <1>1, <1>3, <2>5
    <3> QED BY <1>2, <2>2, <3>1, Zenon
  <2> QED BY <2>4, <2>5
<1>6. Steady(o, n)
  BY <1>3, SameOut
<1> QED BY <1>1, <1>2, <1>3, <1>4, <1>5, <1>6, SlotStep

LEMMA StopStep == ASSUME SlotInv, Stop PROVE SlotInv' /\ BlocksStep
<1>1. call = NoCall /\ client \in Conns /\ client' = NoSlot /\ UNCHANGED <<tcpVars, call, written>>
  BY DEF Stop, Free, SlotInv, SketchTypes
<1>2. SketchTypes'
  BY <1>1, NoCallIs DEF SlotInv, SketchTypes
<1>3. CASE ~InUse(slot[client])
  <2>1. UNCHANGED <<slot, free>>
    BY <1>3 DEF Stop
  <2> QED BY <1>1, <1>2, <2>1, QuietStep
<1>4. CASE InUse(slot[client])
  <2> DEFINE o == slot[client]
             n == Stopped(o)
  <2>1. slot' = [slot EXCEPT ![client] = n] /\ free' = free + Len(o.in)
    BY <1>4 DEF Stop
  <2>2. SlotOK(o) /\ free \in Nat
    BY <1>1 DEF SlotInv, UipTypes
  <2>3. SlotOK(n) /\ n.in = <<>> /\ n.out = o.out /\ n.room = o.room /\ (Serves(o) => Serves(n))
    BY <1>4, <2>2, StoppedIs
  <2> HIDE DEF n
  <2>4. free' \in Nat /\ free' + Units(n) = free + Units(o)
    <3>1. Len(o.in) \in Nat /\ Len(o.out) \in Nat
      BY <2>2 DEF SlotOK, SlotShape
    <3>2. Len(n.in) = 0
      <4>1. Len(<<>>) = 0
        OBVIOUS
      <4> QED BY <2>3, <4>1, Zenon
    <3>3. Units(n) = 0 + Len(o.out) /\ Units(o) = Len(o.in) + Len(o.out)
      BY <2>3, <3>2, Zenon DEF Units
    <3>4. \A a, b, c \in Nat : (c + a) + (0 + b) = c + (a + b) /\ c + a \in Nat
      OBVIOUS
    <3>5. (free + Len(o.in)) + (0 + Len(o.out)) = free + (Len(o.in) + Len(o.out)) /\ free + Len(o.in) \in Nat
      <4>1. ASSUME NEW a \in Nat, NEW b \in Nat
            PROVE  (free + a) + (0 + b) = free + (a + b) /\ free + a \in Nat
        BY <2>2, <3>4
      <4> HIDE DEF o
      <4> QED BY <3>1, <4>1, Zenon
    <3> QED BY <2>1, <3>3, <3>5, Zenon
  <2>5. Steady(o, n)
    BY <2>3, SameOut
  <2> QED BY <1>1, <1>2, <2>1, <2>3, <2>4, <2>5, SlotStep
<1> QED BY <1>3, <1>4

LEMMA OwnerIs == ASSUME SlotInv, NEW s PROVE Owner(s) \in Peers \union {Nobody}
<1>1. CASE \E i \in Conns : conn[i].app = s
  <2> DEFINE j == CHOOSE i \in Conns : conn[i].app = s
  <2>1. j \in Conns
    BY <1>1
  <2>2. Owner(s) = conn[j].peer
    BY <1>1 DEF Owner
  <2> HIDE DEF j
  <2> QED BY <2>1, <2>2 DEF SlotInv, UipTypes, ConnShape
<1>2. CASE ~\E i \in Conns : conn[i].app = s
  BY <1>2 DEF Owner
<1> QED BY <1>1, <1>2

LEMMA WriteCallIs ==
  ASSUME SlotInv, call.op = "write"
  PROVE  call.left \in 1 .. DataLen /\ client \in Conns /\ call = [op |-> "write", left |-> call.left]
<1>1. call \in [op : {"write"}, left : 1 .. DataLen]
  BY DEF SlotInv, SketchTypes, CallTypes, NoCall
<1> QED BY <1>1 DEF SlotInv, SketchTypes

LEMMA WriteStepStep == ASSUME SlotInv, WriteStep PROVE SlotInv' /\ BlocksStep
<1> DEFINE owner == Owner(client)
           bytes == [k \in 1 .. call.left |-> <<owner, written[owner] + k>>]
           o == slot[client]
           w == Wrote(o, bytes, free)
           n == [o EXCEPT !.out = w.out, !.room = w.room]
<1>1. /\ call.op = "write" /\ slot' = [slot EXCEPT ![client].out = w.out, ![client].room = w.room]
      /\ free' = free - w.blocks
      /\ written' = [written EXCEPT ![owner] = @ + call.left - w.left]
      /\ call' = IF w.left = 0 THEN NoCall ELSE [call EXCEPT !.left = w.left]
      /\ UNCHANGED <<tcpVars, client>>
  BY DEF WriteStep
<1>2. call.left \in 1 .. DataLen /\ client \in Conns /\ call = [op |-> "write", left |-> call.left]
  BY <1>1, WriteCallIs
<1>3. owner \in Peers \union {Nobody} /\ written[owner] \in Nat /\ written \in [Peers \union {Nobody} -> Nat]
  BY OwnerIs DEF SlotInv, SketchTypes
<1> HIDE DEF owner
<1>4. SlotOK(o) /\ free \in Nat /\ DOMAIN slot = Conns
  BY <1>2 DEF SlotInv, UipTypes
<1>5. bytes \in Block /\ Len(bytes) = call.left
  <2>1. \A k \in 1 .. call.left : <<owner, written[owner] + k>> \in Byte
    BY <1>3 DEF Byte
  <2>2. bytes \in [1 .. call.left -> Byte] /\ call.left \in Nat
    BY <1>2, <2>1, SlotAssumption
  <2>3. \A k \in Nat : \A g \in [1 .. k -> Byte] : g \in Seq(Byte) /\ Len(g) = k
    OBVIOUS
  <2> QED BY <2>2, <2>3, Zenon DEF Block
<1> HIDE DEF bytes
<1>6. /\ SlotOK(n) /\ n.in = o.in /\ n.state = o.state /\ Steady(o, n)
      /\ w.blocks \in {0, 1} /\ free - w.blocks \in Nat /\ (free - w.blocks) + Units(n) = free + Units(o)
      /\ w.left \in 0 .. Len(bytes)
  BY <1>2, <1>4, <1>5, WroteIs
<1> HIDE DEF w
<1>7. slot' = [slot EXCEPT ![client] = n]
  BY <1>1, <1>2, <1>4
<1> HIDE DEF n
<1>8. SketchTypes'
  <2>1. w.left \in 0 .. call.left
    BY <1>5, <1>6
  <2>2. written' \in [Peers \union {Nobody} -> Nat]
    <3>1. \A a, b \in Nat : \A c \in 0 .. b : a + b - c \in Nat
      OBVIOUS
    <3>2. call.left \in Nat
      BY <1>2, SlotAssumption
    <3>3. written[owner] + call.left - w.left \in Nat
      BY <1>3, <2>1, <3>1, <3>2
    <3> QED BY <1>1, <1>3, <3>3
  <2>3. call' \in CallTypes
    <3>1. CASE w.left = 0
      BY <1>1, <3>1, NoCallIs
    <3>2. CASE w.left # 0
      <4>1. \A a \in 1 .. DataLen : \A b \in 0 .. a : b # 0 => b \in 1 .. DataLen
        BY SlotAssumption
      <4>2. w.left \in 1 .. DataLen
        BY <1>2, <2>1, <3>2, <4>1
      <4>3. call' = [op |-> "write", left |-> w.left]
        BY <1>1, <1>2, <3>2
      <4> QED BY <4>2, <4>3 DEF CallTypes
    <3> QED BY <3>1, <3>2
  <2>4. client' \in Conns /\ client' # NoSlot
    BY <1>1, <1>2, SlotAssumption DEF NoSlot
  <2> QED BY <2>2, <2>3, <2>4 DEF SketchTypes
<1>9. Serves(o) => Serves(n)
  BY <1>6 DEF Serves
<1> QED BY <1>1, <1>2, <1>6, <1>7, <1>8, <1>9, SlotStep

LEMMA ConnectStep == ASSUME SlotInv, NEW p \in Peers, Connect(p) PROVE SlotInv' /\ BlocksStep
<1>1. PICK i \in Candidates :
        /\ conn' = [conn EXCEPT ![i] = Opened(i, "SYN_SENT", p, conn[i].rcv, "own")]
        /\ call' = [op |-> "connect", conn |-> i]
  BY DEF Connect
<1> DEFINE c == Opened(i, "SYN_SENT", p, conn[i].rcv, "own")
<1>2. UNCHANGED <<slot, free, in_packet, client, written, toUs, toPeer, peer, received>> /\ opened' = opened + 1
  BY DEF Connect, netVars
<1>3. i \in Conns /\ conn[i].rcv \in Nat
  BY CandidateIs DEF SlotInv, UipTypes, ConnShape
<1>4. ConnShape(c) /\ c.app = conn[i].app /\ c.st = "SYN_SENT"
  BY <1>3, OpenedIs
<1> HIDE DEF c
<1>5. conn'[i] = c /\ (\A j \in Conns \ {i} : conn'[j] = conn[j]) /\ DOMAIN conn' = Conns
  BY <1>1, <1>3 DEF SlotInv, UipTypes, c
<1>6. NetTypes' /\ UipTypes' /\ BlocksStep
  BY <1>2, <1>4, <1>5 DEF SlotInv, NetTypes, UipTypes, BlocksStep
<1>7. SketchTypes'
  <2>1. call' \in CallTypes /\ call'.op # "write"
    BY <1>1, <1>3 DEF CallTypes
  <2> QED BY <1>2, <2>1 DEF SlotInv, SketchTypes
<1>8. \A j \in Conns : conn'[j].app = conn[j].app
  BY <1>4, <1>5
<1>9. Owners'
  BY <1>2, <1>8 DEF SlotInv, Owners
<1>10. \A j \in Conns : InFlight(conn'[j], slot')
  BY <1>2, <1>4, <1>5 DEF SlotInv, InFlight
<1> QED BY <1>6, <1>7, <1>9, <1>10 DEF SlotInv

LEMMA SketchKeeps == ASSUME SlotInv, Sketch PROVE SlotInv' /\ BlocksStep
<1>1. CASE Available
  BY <1>1, AvailableStep
<1>2. CASE ReadByte
  BY <1>2, ReadByteStep
<1>3. CASE Stop
  BY <1>3, StopStep
<1>4. CASE WriteStep
  BY <1>4, WriteStepStep
<1>5. CASE WriteFails
  <2>1. call' = NoCall /\ UNCHANGED <<tcpVars, slot, free, client, written>>
    BY <1>5 DEF WriteFails
  <2>2. SketchTypes'
    BY <2>1, NoCallIs DEF SlotInv, SketchTypes
  <2> QED BY <2>1, <2>2, QuietStep
<1>6. CASE ConnectReturns
  <2>1. /\ call.op = "connect" /\ call' = NoCall /\ UNCHANGED <<tcpVars, slot, free, written>>
        /\ client' = IF conn[call.conn].st = "ESTABLISHED" THEN conn[call.conn].app ELSE NoSlot
    BY <1>6 DEF ConnectReturns, ConnectOver
  <2>2. call.conn \in Conns
    BY <2>1 DEF SlotInv, SketchTypes, CallTypes, NoCall
  <2>3. client' \in Conns \union {NoSlot}
    BY <2>1, <2>2 DEF SlotInv, UipTypes, ConnShape
  <2>4. SketchTypes'
    BY <2>1, <2>3, NoCallIs DEF SlotInv, SketchTypes
  <2> QED BY <2>1, <2>4, QuietStep
<1>7. ASSUME NEW p \in Servers, Connect(p) PROVE SlotInv' /\ BlocksStep
  BY <1>7, ConnectStep DEF Peers
<1>8. ASSUME NEW n \in 1 .. DataLen, Write(n) PROVE SlotInv' /\ BlocksStep
  <2>1. client # NoSlot /\ call' = [op |-> "write", left |-> n] /\ UNCHANGED <<tcpVars, slot, free, client, written>>
    BY <1>8 DEF Write
  <2>2. SketchTypes'
    BY <2>1 DEF SlotInv, SketchTypes, CallTypes
  <2> QED BY <2>1, <2>2, QuietStep
<1> QED BY <1>1, <1>2, <1>3, <1>4, <1>5, <1>6, <1>7, <1>8 DEF Sketch

(***************************************************************************)
(* The invariant                                                           *)
(***************************************************************************)
LEMMA PeerKeeps == ASSUME SlotInv, Peer PROVE SlotInv' /\ BlocksStep
<1>1. UNCHANGED <<conn, slot, free, in_packet, opened, client, call, written>>
  BY DEF Peer, sketchVars
<1>2. NetTypes'
  BY PeerTypesStep DEF Peer, SlotInv
<1>3. UipTypes' /\ SketchTypes' /\ Owners' /\ BlocksStep
  BY <1>1 DEF SlotInv, UipTypes, SketchTypes, Owners, BlocksStep
<1>4. \A i \in Conns : InFlight(conn'[i], slot')
  BY <1>1 DEF SlotInv
<1> QED BY <1>2, <1>3, <1>4 DEF SlotInv

LEMMA NextKeeps == ASSUME SlotInv, Next PROVE SlotInv' /\ BlocksStep
BY PeerKeeps, TimerKeeps, InputKeeps, SketchKeeps DEF Next, Uip

LEMMA StutterKeeps == ASSUME SlotInv, UNCHANGED vars PROVE SlotInv'
<1>1. UNCHANGED <<tcpVars, slot, free, client, call, written>>
  BY DEF vars, sketchVars, tcpVars, netVars
<1>2. SketchTypes'
  BY <1>1 DEF SlotInv, SketchTypes
<1> QED BY <1>1, <1>2, QuietStep

LEMMA InitSlots == ASSUME Init PROVE SlotInv
<1> DEFINE o == [NewSlot EXCEPT !.state = {}]
           c == ClosedConn(NoSlot, "none")
<1>1. /\ conn = [i \in Conns |-> c] /\ slot = [i \in Conns |-> o] /\ free = Blocks /\ in_packet = {}
      /\ opened = 0 /\ client = NoSlot /\ call = NoCall /\ written = [p \in Peers \union {Nobody} |-> 0]
      /\ PeerInit
  BY DEF Init
<1>2. SlotOK(o)
  BY DEF NewSlot, SlotOK, SlotShape, Filled
<1>3. ConnShape(c) /\ c.app = NoSlot /\ c.st = "CLOSED"
  BY ClosedConnIs
<1> HIDE DEF o, c
<1>4. NetTypes
  <2>1. \A p \in Peers : PeerShape(peer[p])
    BY <1>1 DEF PeerInit, PeerShape
  <2> QED BY <1>1, <2>1, NoBytesType DEF NetTypes, PeerInit
<1>5. UipTypes
  BY <1>1, <1>2, <1>3, TcpAssumption DEF UipTypes
<1>6. SketchTypes
  BY <1>1, NoCallIs DEF SketchTypes
<1>7. Owners /\ \A i \in Conns : InFlight(conn[i], slot)
  BY <1>1, <1>3 DEF Owners, InFlight
<1> QED BY <1>4, <1>5, <1>6, <1>7 DEF SlotInv

(* The types of the state; a slot in use by a connection is open and used  *)
(* by no other; what an established connection has outstanding is the      *)
(* first block of its slot, and that block is not added to.                *)
THEOREM SlotsInOrder == Spec => []SlotInv
<1>1. Init => SlotInv
  BY InitSlots
<1>2. SlotInv /\ [Next]_vars => SlotInv'
  BY NextKeeps, StutterKeeps
<1> QED BY <1>1, <1>2, PTL DEF Spec

(* BlocksKept: the blocks of the packet memory are free or in a slot, over *)
(* every step of the application callback, of the sketch and of uIP, but   *)
(* for the blocks a new connection finds in the slot that it is given.     *)
THEOREM NoBlockLost == Spec => BlocksKept
<1>1. SlotInv /\ [Next]_vars => [free' + Held(slot') = free + Held(slot) \/ \E s \in Conns : Reused(s)]_vars
  BY NextKeeps DEF BlocksStep
<1> QED BY <1>1, SlotsInOrder, PTL DEF Spec, BlocksKept

(***************************************************************************)
(* The streams                                                             *)
(***************************************************************************)
(* b holds the bytes for host p from number a on; the blocks of out follow *)
(* each other from a up to z.                                              *)
Bytes(b, p, a) == \A j \in 1 .. Len(b) : b[j] = <<p, a + j - 1>>
From(b) == b[1][2]
Chain(out, p, a, z) ==
  /\ out = <<>> => a = z
  /\ out # <<>> => From(out[1]) = a /\ From(out[Len(out)]) + Len(out[Len(out)]) = z
  /\ \A k \in 1 .. Len(out) : Bytes(out[k], p, From(out[k])) /\ From(out[k]) + Len(out[k]) <= z
  /\ \A k \in 1 .. Len(out) - 1 : From(out[k + 1]) = From(out[k]) + Len(out[k])

(* What the state of a connection depends on at the other end: the host,   *)
(* what it has got of the sent bytes, and what is on its way to it.        *)
Host(p) ==
  [st |-> peer[p].st, conn |-> peer[p].conn, rcv |-> peer[p].rcv, got |-> received[p], sent |-> written[p],
   under |-> toPeer[p]]

Used(c) == c.st # "CLOSED"
Half == {"SYN_SENT", "SYN_RCVD"}
Sent_Fin == {"FIN_WAIT_1", "CLOSING", "LAST_ACK"}
Fin_Acked == {"FIN_WAIT_2", "TIME_WAIT"}
Ending == {"FIN_WAIT_1", "FIN_WAIT_2", "CLOSING", "TIME_WAIT"}
Synced(c) == c.st = "ESTABLISHED" \/ c.st \in Sent_Fin \/ c.st \in Fin_Acked

Fin(m) == IF "FIN" \in m.flags THEN 1 ELSE 0
Size(m) == Len(m.data) + Fin(m)
Carries(m) == m.data # <<>> \/ "FIN" \in m.flags
Ended(h) == h.rcv = Len(h.got) + 2

(* The host has got a part of what was sent, or all of it and the FIN.     *)
HostOK(p, h) ==
  /\ h.st \in {"idle", "synsent"} => h.conn = 0
  /\ h.st = "synsent" => p \in Clients
  /\ h.st \in {"synrcvd", "est"} => h.conn # 0
  /\ h.st = "synrcvd" => h.rcv = 1
  /\ h.conn = 0 => h.got = <<>> /\ h.sent = 0
  /\ h.conn # 0 => h.rcv \in {Len(h.got) + 1, Len(h.got) + 2}
  /\ Bytes(h.got, p, 1) /\ Len(h.got) <= h.sent

(* What is on its way to it is of its connection and not ahead of it, and  *)
(* a SYN is the one SYN there is for it.                                   *)
CarriesOK(p, m, h) ==
  /\ h.conn # 0 /\ m.conn = h.conn /\ m.flags \in {{"ACK"}, {"FIN", "ACK"}}
  /\ m.seq >= 1 /\ Bytes(m.data, p, m.seq) /\ m.seq + Len(m.data) <= h.sent + 1
  /\ "FIN" \in m.flags => m.data = <<>>
  /\ m.seq <= h.rcv /\ (Ended(h) => m.seq < h.rcv)
SegOK(p, m, h) ==
  /\ "RST" \notin m.flags => m.conn # 0
  /\ Carries(m) => CarriesOK(p, m, h)
  /\ p \in Servers /\ m.flags = {"SYN"} =>
       (h.conn # 0 => m.conn = h.conn) /\ \A n \in h.under : n.flags = {"SYN"} => n.conn = m.conn

(* A segment of a host acknowledges no more than the host has got.         *)
Answered(m, h) == "RST" \notin m.flags /\ ("ACK" \in m.flags => h.conn # 0 /\ m.conn = h.conn /\ m.ack <= h.rcv)

(* m is what c has outstanding.                                            *)
Payload(c, m, slots) ==
  /\ m.seq = c.snd /\ Size(m) = c.len
  /\ IF c.st = "ESTABLISHED"
       THEN c.app # NoSlot /\ slots[c.app].out # <<>> /\ m.data = Head(slots[c.app].out) /\ "FIN" \notin m.flags
       ELSE "FIN" \in m.flags

(* A connection that has left the handshake: the host is at the beginning  *)
(* or the end of what is outstanding, and the blocks of the slot are what  *)
(* was written from there on.                                              *)
SyncedOK(c, slots, h) ==
  /\ h.conn = c.iss /\ c.snd >= 1 /\ h.rcv \in {c.snd, c.snd + c.len}
  /\ \A m \in h.under : Carries(m) /\ m.seq = h.rcv => Payload(c, m, slots)
  /\ c.st = "ESTABLISHED" => ~Ended(h) /\ (c.app = NoSlot => c.len = 0)
  /\ c.st \in Sent_Fin => c.len = 1 /\ (Ended(h) => h.rcv = c.snd + 1)
  /\ c.st \in Fin_Acked => c.len = 0
  /\ c.st \in Ending => Len(h.got) = h.sent
  /\ c.app # NoSlot => Chain(slots[c.app].out, c.peer, c.snd, h.sent + 1)

HalfOK(c, h) ==
  /\ c.snd = 0 /\ c.len = 1
  /\ c.st = "SYN_SENT" <=> c.peer \in Servers
  /\ h.conn = c.iss \/ c.peer \in Servers =>
       h.sent = 0 /\ (h.conn # 0 => h.rcv = 1) /\ \A m \in h.under : ~Carries(m)

UsedOK(c, h) ==
  /\ c.peer \in Peers /\ c.iss >= 1
  /\ c.peer \in Servers =>
       (h.conn # 0 => c.iss = h.conn) /\ \A m \in h.under : m.flags = {"SYN"} => m.conn = c.iss

ConnOK(c, slots, h) ==
  /\ ~Used(c) => ~c.stopped /\ c.len = 0
  /\ c.app # NoSlot => c.st = "ESTABLISHED"
  /\ Used(c) => UsedOK(c, h)
  /\ c.st \in Half => HalfOK(c, h)
  /\ Synced(c) => SyncedOK(c, slots, h)

(* Connections have been opened up to number top.                          *)
Numbered(h, top) == h.conn <= top /\ \A m \in h.under : "RST" \notin m.flags => m.conn <= top

HostsOK == \A p \in Peers :
  /\ HostOK(p, Host(p)) /\ Numbered(Host(p), opened)
  /\ \A m \in toPeer[p] : SegOK(p, m, Host(p))
AnswersOK ==
  /\ \A p \in Peers : \A m \in toUs[p] : Answered(m, Host(p))
  /\ \A packet \in in_packet : Answered(packet.seg, Host(packet.from))
ConnsOK == \A i \in Conns : ConnOK(conn[i], slot, Host(conn[i].peer)) /\ (Used(conn[i]) => conn[i].iss <= opened)
OneEach == \A i, j \in Conns : Used(conn[i]) /\ Used(conn[j]) /\ conn[i].peer = conn[j].peer => i = j

StreamInv == HostsOK /\ AnswersOK /\ ConnsOK /\ OneEach

(***************************************************************************)
(* Chains of blocks                                                        *)
(***************************************************************************)
LEMMA BlockIs ==
  ASSUME NEW b \in Block
  PROVE  Len(b) \in Nat /\ (b = <<>> <=> Len(b) = 0) /\ (b # <<>> => 1 \in 1 .. Len(b) /\ From(b) \in Nat)
<1>1. b \in Seq(Byte) /\ Len(b) \in Nat /\ (b = <<>> <=> Len(b) = 0)
  BY DEF Block
<1>2. ASSUME b # <<>> PROVE 1 \in 1 .. Len(b) /\ From(b) \in Nat
  <2>1. 1 \in 1 .. Len(b)
    BY <1>1, <1>2
  <2>2. b[1] \in Byte
    BY <1>1, <2>1
  <2> QED BY <2>1, <2>2 DEF From, Byte
<1> QED BY <1>1, <1>2

LEMMA FirstOf ==
  ASSUME NEW b \in Block, b # <<>>, NEW p, NEW a \in Nat, Bytes(b, p, a)
  PROVE  From(b) = a
<1>1. 1 \in 1 .. Len(b)
  BY BlockIs
<1>2. b[1] = <<p, a + 1 - 1>>
  BY <1>1 DEF Bytes
<1> QED BY <1>2 DEF From

LEMMA EmptyChain ==
  ASSUME NEW p, NEW a PROVE Chain(<<>>, p, a, a)
<1>1. Len(<<>>) = 0
  OBVIOUS
<1> QED BY <1>1 DEF Chain

LEMMA ChainHead ==
  ASSUME NEW out \in Seq(Block), out # <<>>, Filled(out), NEW p, NEW a \in Nat, NEW z \in Nat, Chain(out, p, a, z)
  PROVE  Head(out) \in Block /\ Head(out) # <<>> /\ Bytes(Head(out), p, a) /\ a + Len(Head(out)) <= z
<1>1. 1 \in 1 .. Len(out) /\ Head(out) = out[1] /\ out[1] \in Block
  OBVIOUS
<1> QED BY <1>1 DEF Chain, Filled

LEMMA ChainTail ==
  ASSUME NEW out \in Seq(Block), out # <<>>, Filled(out), NEW p, NEW a \in Nat, NEW z \in Nat, Chain(out, p, a, z)
  PROVE  Chain(Tail(out), p, a + Len(Head(out)), z)
<1> DEFINE t == Tail(out)
<1>1. 1 \in 1 .. Len(out) /\ Head(out) = out[1] /\ out[1] \in Block /\ Len(out) \in Nat
  OBVIOUS
<1>2. /\ t \in Seq(Block) /\ Len(t) = Len(out) - 1
      /\ \A k \in 1 .. Len(t) : k + 1 \in 1 .. Len(out) /\ t[k] = out[k + 1]
      /\ t = <<>> => Len(out) = 1
  BY TailFilled
<1> HIDE DEF t
<1>3. Len(t) = 0 <=> t = <<>>
  BY <1>2
<1>4. t = <<>> => a + Len(Head(out)) = z
  BY <1>1, <1>2 DEF Chain
<1>5. ASSUME t # <<>> PROVE From(t[1]) = a + Len(Head(out)) /\ From(t[Len(t)]) + Len(t[Len(t)]) = z
  <2>1. Len(t) # 0 /\ Len(t) \in Nat /\ 1 \in 1 .. Len(t) /\ Len(t) \in 1 .. Len(t) /\ Len(t) + 1 = Len(out)
    BY <1>1, <1>2, <1>3, <1>5
  <2>2. t[1] = out[2] /\ t[Len(t)] = out[Len(out)] /\ 1 \in 1 .. Len(out) - 1
    BY <1>1, <1>2, <2>1
  <2>3. From(out[1 + 1]) = From(out[1]) + Len(out[1])
    BY <2>2 DEF Chain
  <2> QED BY <1>1, <2>2, <2>3 DEF Chain
<1>6. \A k \in 1 .. Len(t) : Bytes(t[k], p, From(t[k])) /\ From(t[k]) + Len(t[k]) <= z
  BY <1>2 DEF Chain
<1>7. \A k \in 1 .. Len(t) - 1 : From(t[k + 1]) = From(t[k]) + Len(t[k])
  <2> TAKE k \in 1 .. Len(t) - 1
  <2>1. k \in 1 .. Len(t) /\ k + 1 \in 1 .. Len(t) /\ k + 1 \in 1 .. Len(out) - 1
    BY <1>1, <1>2
  <2>2. t[k] = out[k + 1] /\ t[k + 1] = out[(k + 1) + 1]
    BY <1>2, <2>1
  <2> QED BY <2>1, <2>2 DEF Chain
<1> QED BY <1>4, <1>5, <1>6, <1>7 DEF Chain, t

LEMMA ChainAppend ==
  ASSUME NEW out \in Seq(Block), Filled(out), NEW p, NEW a \in Nat, NEW z \in Nat, Chain(out, p, a, z),
         NEW b \in Block, b # <<>>, Bytes(b, p, z), NEW y \in Nat, y = z + Len(b)
  PROVE  Chain(Append(out, b), p, a, y)
<1> DEFINE r == Append(out, b)
<1>1. Len(r) = Len(out) + 1 /\ Len(out) \in Nat /\ r # <<>> /\ r[Len(out) + 1] = b /\ \A k \in 1 .. Len(out) : r[k] = out[k]
  OBVIOUS
<1>2. From(b) = z /\ Len(b) \in Nat
  BY FirstOf, BlockIs
<1> HIDE DEF r
<1>3. \A k \in 1 .. Len(r) : k \in 1 .. Len(out) \/ k = Len(r)
  BY <1>1
<1>4. From(r[1]) = a /\ From(r[Len(r)]) + Len(r[Len(r)]) = y
  <2>1. r[Len(r)] = b
    BY <1>1
  <2>2. CASE out = <<>>
    <3>1. Len(out) = 0
      BY <2>2
    <3>2. a = z /\ r[1] = b
      BY <1>1, <2>2, <3>1 DEF Chain
    <3> QED BY <1>2, <2>1, <3>2
  <2>3. CASE out # <<>>
    <3>1. 1 \in 1 .. Len(out)
      BY <2>3
    <3>2. r[1] = out[1]
      BY <1>1, <3>1
    <3> QED BY <1>2, <2>1, <2>3, <3>2 DEF Chain
  <2> QED BY <2>2, <2>3
<1>5. \A k \in 1 .. Len(r) : Bytes(r[k], p, From(r[k])) /\ From(r[k]) + Len(r[k]) <= y
  <2> TAKE k \in 1 .. Len(r)
  <2>1. CASE k = Len(r)
    BY <1>1, <1>2, <2>1
  <2>2. CASE k \in 1 .. Len(out)
    <3>1. out[k] \in Block /\ Bytes(out[k], p, From(out[k])) /\ From(out[k]) + Len(out[k]) <= z /\ r[k] = out[k]
          /\ out[k] # <<>>
      BY <1>1, <2>2 DEF Chain, Filled
    <3>2. From(out[k]) + Len(out[k]) <= y
      <4>1. \A e, f, g, h \in Nat : e + f <= g => e + f <= g + h
        OBVIOUS
      <4> QED BY <1>2, <3>1, <4>1, BlockIs
    <3> QED BY <3>1, <3>2
  <2> QED BY <1>3, <2>1, <2>2
<1>6. \A k \in 1 .. Len(r) - 1 : From(r[k + 1]) = From(r[k]) + Len(r[k])
  <2> TAKE k \in 1 .. Len(r) - 1
  <2>1. k \in 1 .. Len(out) /\ r[k] = out[k]
    BY <1>1
  <2>2. CASE k = Len(out)
    <3>1. out # <<>> /\ r[k + 1] = b
      BY <1>1, <2>1, <2>2
    <3> QED BY <1>2, <2>1, <2>2, <3>1 DEF Chain
  <2>3. CASE k # Len(out)
    <3>1. k \in 1 .. Len(out) - 1 /\ k + 1 \in 1 .. Len(out)
      BY <1>1, <2>1, <2>3
    <3> QED BY <1>1, <2>1, <3>1 DEF Chain
  <2> QED BY <2>2, <2>3
<1> QED BY <1>1, <1>4, <1>5, <1>6 DEF Chain, r

LEMMA BytesJoin ==
  ASSUME NEW b \in Block, NEW x \in Block, NEW p, NEW a \in Nat, Bytes(b, p, a), Bytes(x, p, a + Len(b))
  PROVE  b \o x \in Block /\ Len(b \o x) = Len(b) + Len(x) /\ Bytes(b \o x, p, a)
<1>1. b \o x \in Block /\ Len(b \o x) = Len(b) + Len(x) /\ Len(b) \in Nat /\ Len(x) \in Nat
  BY DEF Block
<1>2. ASSUME NEW j \in 1 .. Len(b) + Len(x) PROVE (b \o x)[j] = <<p, a + j - 1>>
  <2>1. CASE j <= Len(b)
    <3>1. j \in 1 .. Len(b) /\ (b \o x)[j] = b[j]
      BY <1>1, <2>1 DEF Block
    <3> QED BY <3>1 DEF Bytes
  <2>2. CASE ~(j <= Len(b))
    <3>1. j - Len(b) \in 1 .. Len(x) /\ (b \o x)[j] = x[j - Len(b)]
      BY <1>1, <2>2 DEF Block
    <3>2. x[j - Len(b)] = <<p, a + Len(b) + (j - Len(b)) - 1>>
      BY <3>1 DEF Bytes
    <3>3. a + Len(b) + (j - Len(b)) - 1 = a + j - 1
      BY <1>1
    <3> QED BY <3>1, <3>2, <3>3
  <2> QED BY <2>1, <2>2
<1>3. Bytes(b \o x, p, a)
  BY <1>1, <1>2 DEF Bytes
<1> QED BY <1>1, <1>3

LEMMA JoinEmpty == ASSUME NEW b \in Block, NEW x \in Block, Len(x) = 0 PROVE b \o x = b
<1>1. b \in Seq(Byte) /\ x \in Seq(Byte)
  BY DEF Block
<1>2. b \o x \in Seq(Byte) /\ Len(b \o x) = Len(b) /\ \A j \in 1 .. Len(b) : (b \o x)[j] = b[j]
  BY <1>1
<1>3. \A q, r \in Seq(Byte) : Len(q) = Len(r) /\ (\A j \in 1 .. Len(r) : q[j] = r[j]) => q = r
  OBVIOUS
<1> QED BY <1>1, <1>2, <1>3

(* The last block is filled up with x.                                     *)
FilledWith(out, x) == [i \in DOMAIN out |-> IF i = Len(out) THEN out[i] \o x ELSE out[i]]

LEMMA ChainFill ==
  ASSUME NEW out \in Seq(Block), out # <<>>, Filled(out), NEW p, NEW a \in Nat, NEW z \in Nat, Chain(out, p, a, z),
         NEW x \in Block, Bytes(x, p, z), NEW y \in Nat, y = z + Len(x)
  PROVE  Chain(FilledWith(out, x), p, a, y)
<1> DEFINE r == FilledWith(out, x)
           n == Len(out)
<1>1. n \in Nat /\ n # 0 /\ 1 \in 1 .. n /\ n \in 1 .. n /\ DOMAIN out = 1 .. n
  OBVIOUS
<1>2. r \in Seq(Block) /\ Len(r) = n /\ Filled(r) /\ r # <<>>
  BY FilledUp DEF FilledWith
<1>3. \A k \in 1 .. n : r[k] = IF k = n THEN out[k] \o x ELSE out[k]
  BY <1>1 DEF FilledWith
<1> HIDE DEF r
<1>4. \A k \in 1 .. n : out[k] \in Block /\ out[k] # <<>> /\ r[k] \in Block /\ r[k] # <<>>
  BY <1>2 DEF Filled
<1>5. /\ \A k \in 1 .. n : Bytes(out[k], p, From(out[k])) /\ From(out[k]) + Len(out[k]) <= z
      /\ \A k \in 1 .. n - 1 : From(out[k + 1]) = From(out[k]) + Len(out[k])
      /\ From(out[1]) = a /\ From(out[n]) + Len(out[n]) = z
  BY DEF Chain
<1>6. Len(x) \in Nat /\ \A k \in 1 .. n : Len(out[k]) \in Nat /\ From(out[k]) \in Nat
  BY <1>4, BlockIs
<1>7. r[n] = out[n] \o x /\ Bytes(r[n], p, From(out[n])) /\ From(r[n]) = From(out[n]) /\ Len(r[n]) = Len(out[n]) + Len(x)
  <2> DEFINE b == out[n]
             f == From(out[n])
  <2>1. b \in Block /\ f \in Nat /\ Bytes(b, p, f) /\ f + Len(b) = z /\ r[n] = b \o x /\ r[n] # <<>>
    BY <1>1, <1>3, <1>4, <1>5, <1>6
  <2> HIDE DEF b, f
  <2>2. b \o x \in Block /\ Len(b \o x) = Len(b) + Len(x) /\ Bytes(b \o x, p, f)
    BY <2>1, BytesJoin
  <2>3. From(b \o x) = f
    BY <2>1, <2>2, FirstOf
  <2> QED BY <2>1, <2>2, <2>3 DEF b, f
<1>8. \A k \in 1 .. n : From(r[k]) = From(out[k]) /\ Bytes(r[k], p, From(r[k]))
  BY <1>3, <1>5, <1>7
<1>9. \A k \in 1 .. n : From(r[k]) + Len(r[k]) <= y
  <2> TAKE k \in 1 .. n
  <2>1. CASE k = n
    <3>1. \A e, f, g \in Nat : e + f = z /\ y = z + g => e + (f + g) <= y
      OBVIOUS
    <3> QED BY <1>1, <1>5, <1>6, <1>7, <2>1, <3>1
  <2>2. CASE k # n
    <3>1. \A e, f, g \in Nat : e + f <= z /\ y = z + g => e + f <= y
      OBVIOUS
    <3> QED BY <1>3, <1>5, <1>6, <1>8, <2>2, <3>1
  <2> QED BY <2>1, <2>2
<1>10. \A k \in 1 .. n - 1 : From(r[k + 1]) = From(r[k]) + Len(r[k])
  <2> TAKE k \in 1 .. n - 1
  <2>1. k \in 1 .. n /\ k # n /\ k + 1 \in 1 .. n
    <3>1. \A m \in Nat : \A h \in 1 .. m - 1 : h \in 1 .. m /\ h # m /\ h + 1 \in 1 .. m
      OBVIOUS
    <3> QED BY <1>1, <3>1, Zenon
  <2> QED BY <1>3, <1>5, <1>8, <2>1
<1>11. From(r[1]) = a /\ From(r[n]) + Len(r[n]) = y
  <2>1. From(r[1]) = a
    BY <1>1, <1>5, <1>8
  <2>2. \A e, f, g \in Nat : e + f = z /\ y = z + g => e + (f + g) = y
    OBVIOUS
  <2>3. From(out[n]) + (Len(out[n]) + Len(x)) = y
    <3>1. From(out[n]) \in Nat /\ Len(out[n]) \in Nat /\ Len(x) \in Nat
      BY <1>1, <1>6
    <3>2. From(out[n]) + Len(out[n]) = z /\ y = z + Len(x)
      BY <1>5
    <3> HIDE DEF n
    <3> QED BY <2>2, <3>1, <3>2, Zenon
  <2> QED BY <1>7, <2>1, <2>3, Zenon
<1> HIDE DEF n
<1> QED BY <1>2, <1>8, <1>9, <1>10, <1>11 DEF Chain, n, r

(* What write adds to the blocks of a slot continues them; while the first *)
(* one is outstanding it is left alone.                                    *)
LEMMA WroteChain ==
  ASSUME NEW o, SlotOK(o), NEW bytes \in Block, Len(bytes) \in 1 .. DataLen, NEW f \in Nat,
         NEW p, NEW a \in Nat, NEW z \in Nat, Chain(o.out, p, a, z), Bytes(bytes, p, z)
  PROVE  LET w == Wrote(o, bytes, f)
         IN  /\ Chain(w.out, p, a, z + Len(bytes) - w.left)
             /\ o.out # <<>> /\ (Len(o.out) = 1 => o.room = 0) => Head(w.out) = Head(o.out)
<1> DEFINE w == Wrote(o, bytes, f)
           old == IF Len(bytes) < o.room THEN Len(bytes) ELSE o.room
           x == SubSeq(bytes, 1, old)
           rest == SubSeq(bytes, old + 1, Len(bytes))
           new == rest # <<>> /\ Len(o.out) < NumPackets /\ f > 0
           filled == FilledWith(o.out, x)
<1>1. w.out = (IF new THEN Append(filled, rest) ELSE filled) /\ w.left = IF new THEN 0 ELSE Len(rest)
  BY DEF Wrote, FilledWith
<1>2. o.out \in Seq(Block) /\ o.room \in Nat /\ Filled(o.out) /\ (o.out = <<>> => o.room = 0)
  BY DEF SlotOK, SlotShape
<1>3. Len(bytes) \in Nat
  BY SlotAssumption
<1>4. old \in 0 .. Len(bytes) /\ (o.room = 0 => old = 0) /\ old \in Nat
  <2>1. \A n, r \in Nat : LET k == IF n < r THEN n ELSE r IN k \in 0 .. n /\ (r = 0 => k = 0) /\ k \in Nat
    OBVIOUS
  <2> QED BY <1>2, <1>3, <2>1
<1> HIDE DEF old, w
<1>5. x \in Block /\ Len(x) = old /\ rest \in Block /\ Len(rest) = Len(bytes) - old
  BY <1>4, Parts
<1>6. Bytes(x, p, z) /\ Bytes(rest, p, z + old)
  <2>1. ASSUME NEW j \in 1 .. Len(x) PROVE x[j] = <<p, z + j - 1>>
    <3>1. j \in 1 .. Len(bytes) /\ x[j] = bytes[j]
      BY <1>3, <1>4, <1>5 DEF Block
    <3> QED BY <3>1 DEF Bytes
  <2>2. ASSUME NEW j \in 1 .. Len(rest) PROVE rest[j] = <<p, (z + old) + j - 1>>
    <3>1. old + j \in 1 .. Len(bytes) /\ rest[j] = bytes[old + j]
      BY <1>3, <1>4, <1>5 DEF Block
    <3>2. z + (old + j) - 1 = (z + old) + j - 1
      BY <1>4
    <3> QED BY <3>1, <3>2 DEF Bytes
  <2> QED BY <2>1, <2>2 DEF Bytes
<1> HIDE DEF x, rest
<1>7. filled \in Seq(Block) /\ Len(filled) = Len(o.out) /\ Filled(filled)
  BY <1>2, <1>5, FilledUp DEF FilledWith
<1>8. Chain(filled, p, a, z + old)
  <2>1. CASE o.out # <<>>
    BY <1>2, <1>4, <1>5, <1>6, <2>1, ChainFill
  <2>2. CASE o.out = <<>>
    <3>1. Len(o.out) = 0 /\ old = 0 /\ z + old = z
      BY <1>2, <1>4, <2>2
    <3>2. filled = <<>>
      BY <1>7, <3>1
    <3> QED BY <2>2, <3>1, <3>2
  <2> QED BY <2>1, <2>2
<1>9. ASSUME o.out # <<>>, Len(o.out) = 1 => o.room = 0 PROVE Head(filled) = Head(o.out) /\ filled # <<>>
  <2>1. 1 \in 1 .. Len(o.out) /\ o.out[1] \in Block /\ Head(o.out) = o.out[1]
    BY <1>2, <1>9
  <2>2. filled # <<>> /\ Head(filled) = filled[1]
    BY <1>7, <2>1
  <2>3. filled[1] = IF 1 = Len(o.out) THEN o.out[1] \o x ELSE o.out[1]
    BY <1>2, <2>1 DEF FilledWith
  <2>4. Len(o.out) = 1 => o.out[1] \o x = o.out[1]
    BY <1>4, <1>5, <1>9, <2>1, JoinEmpty
  <2> QED BY <2>1, <2>2, <2>3, <2>4
<1> HIDE DEF filled
<1>10. CASE new
  <2>1. w.out = Append(filled, rest) /\ w.left = 0 /\ rest # <<>>
    BY <1>1, <1>10
  <2>2. z + Len(bytes) - w.left = (z + old) + Len(rest) /\ z + Len(bytes) - w.left \in Nat /\ z + old \in Nat
    BY <1>3, <1>4, <1>5, <2>1
  <2>3. Chain(w.out, p, a, z + Len(bytes) - w.left)
    BY <1>5, <1>6, <1>7, <1>8, <2>1, <2>2, ChainAppend
  <2>4. filled # <<>> => Head(w.out) = Head(filled)
    BY <1>5, <1>7, <2>1
  <2> QED BY <1>9, <2>3, <2>4 DEF w
<1>11. CASE ~new
  <2>1. w.out = filled /\ w.left = Len(rest)
    BY <1>1, <1>11
  <2>2. z + Len(bytes) - w.left = z + old
    BY <1>3, <1>4, <1>5, <2>1
  <2> QED BY <1>8, <1>9, <2>1, <2>2 DEF w
<1> QED BY <1>10, <1>11

(***************************************************************************)
(* Connections and their hosts                                             *)
(***************************************************************************)
HostShape(h) == h.conn \in Nat /\ h.rcv \in Nat /\ h.got \in Block /\ h.sent \in Nat /\ h.under \in SUBSET SegRec

(* Host and connection agree on how far they are, and nothing is under way *)
(* that would take the host further.                                       *)
Even(c, h) ==
  /\ h.conn = c.iss /\ c.snd >= 1 /\ h.rcv = c.snd
  /\ \A m \in h.under : Carries(m) => m.seq # h.rcv

LEMMA SizeIs ==
  ASSUME NEW m \in SegRec
  PROVE  Size(m) \in Nat /\ (Carries(m) <=> Size(m) > 0) /\ Len(m.data) \in Nat /\ m.data \in Block /\ m.seq \in Nat
         /\ m.conn \in Nat /\ m.ack \in Nat
<1>1. m.data \in Block /\ m.seq \in Nat /\ m.conn \in Nat /\ m.ack \in Nat
  BY DEF SegRec
<1>2. Len(m.data) \in Nat /\ (m.data = <<>> <=> Len(m.data) = 0)
  BY <1>1, BlockIs
<1>3. Fin(m) \in {0, 1} /\ (Fin(m) = 1 <=> "FIN" \in m.flags)
  BY DEF Fin
<1> QED BY <1>1, <1>2, <1>3 DEF Size, Carries

(* Nothing is outstanding.                                                 *)
LEMMA EvenWhenAcked ==
  ASSUME NEW c, ConnShape(c), NEW slots, NEW h, HostShape(h), SyncedOK(c, slots, h), c.len = 0
  PROVE  Even(c, h)
<1>1. c.snd \in Nat /\ c.snd + 0 = c.snd
  BY DEF ConnShape
<1>2. h.rcv = c.snd
  BY <1>1 DEF SyncedOK
<1>3. ASSUME NEW m \in h.under, Carries(m) PROVE m.seq # h.rcv
  BY <1>3, SizeIs DEF SyncedOK, Payload, HostShape
<1> QED BY <1>2, <1>3 DEF Even, SyncedOK

(* The acknowledgement of what is outstanding has come.                    *)
LEMMA EvenAfterAck ==
  ASSUME NEW c, ConnShape(c), NEW slots, NEW h, HostShape(h), ConnOK(c, slots, h), c.st \in Half \/ Synced(c),
         NEW m \in SegRec, Answered(m, h), Acks(c, m), NEW d, d.iss = c.iss, d.snd = c.snd + c.len, d.peer = c.peer
  PROVE  Even(d, h) /\ (c.st \in Half => h.sent = 0 /\ d.snd = 1)
<1>1. /\ h.conn # 0 /\ m.conn = h.conn /\ m.ack <= h.rcv /\ m.conn = c.iss /\ m.ack = c.snd + c.len /\ c.len > 0
  BY DEF Answered, Acks
<1>2. c.snd \in Nat /\ c.len \in Nat /\ h.rcv \in Nat
  BY DEF ConnShape, HostShape
<1>3. CASE c.st \in Half
  <2>1. c.snd = 0 /\ c.len = 1 /\ h.sent = 0 /\ h.rcv = 1 /\ \A n \in h.under : ~Carries(n)
    BY <1>1, <1>3 DEF ConnOK, HalfOK
  <2> QED BY <1>1, <2>1 DEF Even
<1>4. CASE Synced(c)
  <2>1. SyncedOK(c, slots, h) /\ c.st \notin Half
    BY <1>4 DEF ConnOK, Synced, Half, Sent_Fin, Fin_Acked
  <2>2. h.rcv = c.snd + c.len /\ c.snd >= 1
    BY <1>1, <1>2, <2>1 DEF SyncedOK
  <2>3. ASSUME NEW n \in h.under, Carries(n) PROVE n.seq # h.rcv
    <3>1. n.seq = h.rcv => n.seq = c.snd
      BY <2>1, <2>3 DEF SyncedOK, Payload
    <3> QED BY <1>1, <1>2, <2>2, <3>1
  <2>4. Even(d, h)
    BY <1>1, <1>2, <2>2, <2>3 DEF Even
  <2> QED BY <2>1, <2>4
<1> QED BY <1>3, <1>4

(* From there on the connection is what its state says.                    *)
LEMMA EvenOK ==
  ASSUME NEW c, NEW slots, NEW h, Even(c, h), UsedOK(c, h), ConnShape(c), HostShape(h), Synced(c),
         c.app # NoSlot => c.st = "ESTABLISHED" /\ Chain(slots[c.app].out, c.peer, c.snd, h.sent + 1),
         c.st = "ESTABLISHED" => ~Ended(h) /\ (c.app = NoSlot => c.len = 0),
         c.st \in Sent_Fin => c.len = 1 /\ ~Ended(h),
         c.st \in Fin_Acked => c.len = 0,
         c.st \in Ending => Len(h.got) = h.sent
  PROVE  ConnOK(c, slots, h)
<1>1. SyncedOK(c, slots, h)
  BY DEF SyncedOK, Even
<1>2. Used(c) /\ c.st \notin Half
  BY DEF Used, Half, Synced, Sent_Fin, Fin_Acked
<1> QED BY <1>1, <1>2 DEF ConnOK

(* Only these fields count, and the output of the slot.                    *)
LEMMA ConnOKSame ==
  ASSUME NEW c, NEW a, NEW h, ConnOK(c, a, h), NEW d, NEW b,
         d.st = c.st, d.peer = c.peer, d.iss = c.iss, d.snd = c.snd, d.len = c.len, d.app = c.app,
         ~Used(d) => ~d.stopped, c.app # NoSlot => b[c.app].out = a[c.app].out
  PROVE  ConnOK(d, b, h)
<1>1. \A m : Payload(c, m, a) => Payload(d, m, b)
  BY DEF Payload
<1>2. SyncedOK(c, a, h) => SyncedOK(d, b, h)
  BY <1>1 DEF SyncedOK
<1>3. HalfOK(c, h) => HalfOK(d, h)
  BY DEF HalfOK
<1>4. UsedOK(c, h) => UsedOK(d, h)
  BY DEF UsedOK
<1>5. (Used(c) <=> Used(d)) /\ (Synced(c) <=> Synced(d))
  BY DEF Used, Synced
<1> QED BY <1>2, <1>3, <1>4, <1>5 DEF ConnOK

LEMMA UnusedOK ==
  ASSUME NEW c, c.st = "CLOSED", ~c.stopped, c.len = 0, c.app = NoSlot, NEW slots, NEW h PROVE ConnOK(c, slots, h)
BY DEF ConnOK, Used, Synced, Half, Sent_Fin, Fin_Acked

(* When the connection says that it is established and everything written  *)
(* is sent, the host has got it.                                           *)
LEMMA AllSent ==
  ASSUME NEW c, ConnShape(c), NEW p, NEW h, HostShape(h), HostOK(p, h), Even(c, h), ~Ended(h), c.iss >= 1,
         Chain(<<>>, p, c.snd, h.sent + 1)
  PROVE  Len(h.got) = h.sent
<1>1. c.snd = h.sent + 1 /\ h.rcv = c.snd /\ h.conn # 0
  BY DEF Chain, Even, ConnShape
<1>2. h.rcv = Len(h.got) + 1
  BY <1>1 DEF HostOK, Ended
<1>3. Len(h.got) \in Nat /\ h.sent \in Nat
  BY DEF HostShape, Block
<1> QED BY <1>1, <1>2, <1>3

(* What is sent for a connection, by its kind.                             *)
SendGood(c, slots, h, m) ==
  /\ SegOK(c.peer, m, h)
  /\ "RST" \notin m.flags => m.conn = c.iss
  /\ m.flags = {"SYN"} => Used(c)
  /\ Carries(m) => Synced(c) /\ (m.seq = h.rcv => Payload(c, m, slots))

LEMMA ReplyIs ==
  ASSUME NEW c, ConnShape(c), NEW f \in Flags, NEW d \in Block, NEW m \in Reply(c, f, d)
  PROVE  m.flags = f /\ m.conn = c.iss /\ m.data = d /\ m.seq = c.snd /\ m.ack = c.rcv
<1>1. m = Segment(c.iss, f, c.snd, d, c.rcv) /\ c.iss \in Nat /\ c.snd \in Nat /\ c.rcv \in Nat
  BY DEF Reply, ConnShape
<1> QED BY <1>1, SegmentType

LEMMA NotSyn == ASSUME NEW f, "ACK" \in f PROVE f # {"SYN"}
OBVIOUS

LEMMA BareGood ==
  ASSUME NEW c, ConnShape(c), c.iss >= 1, NEW slots, NEW h, NEW flags \in {{"ACK"}, {"SYN", "ACK"}, {"RST", "ACK"}},
         NEW m \in Reply(c, flags, <<>>)
  PROVE  SendGood(c, slots, h, m)
<1>1. flags \in Flags /\ "FIN" \notin flags /\ flags # {"SYN"}
  BY DEF Flags
<1>2. m.flags = flags /\ m.conn = c.iss /\ m.data = <<>>
  BY <1>1, ReplyIs, NoBytesType
<1>3. c.iss # 0
  BY DEF ConnShape
<1>4. ~Carries(m)
  BY <1>1, <1>2 DEF Carries
<1> QED BY <1>1, <1>2, <1>3, <1>4 DEF SendGood, SegOK

LEMMA SynGood ==
  ASSUME NEW c, ConnShape(c), Used(c), NEW slots, NEW h, ConnOK(c, slots, h), NEW m \in Reply(c, {"SYN"}, <<>>)
  PROVE  SendGood(c, slots, h, m)
<1>1. m.flags = {"SYN"} /\ m.conn = c.iss /\ m.data = <<>>
  BY FlagSets, ReplyIs, NoBytesType
<1>2. UsedOK(c, h) /\ c.iss \in Nat
  BY DEF ConnOK, ConnShape
<1>3. ~Carries(m)
  BY <1>1 DEF Carries
<1> QED BY <1>1, <1>2, <1>3 DEF SendGood, SegOK, UsedOK

LEMMA FinGood ==
  ASSUME NEW c, ConnShape(c), c.st \in Sent_Fin, NEW slots, NEW h, HostShape(h), HostOK(c.peer, h),
         ConnOK(c, slots, h), NEW m \in Reply(c, {"FIN", "ACK"}, <<>>)
  PROVE  SendGood(c, slots, h, m)
<1>1. m.flags = {"FIN", "ACK"} /\ m.conn = c.iss /\ m.data = <<>> /\ m.seq = c.snd
  BY FlagSets, ReplyIs, NoBytesType
<1>2. UsedOK(c, h) /\ SyncedOK(c, slots, h) /\ Synced(c) /\ c.st # "ESTABLISHED"
  BY DEF ConnOK, Used, Sent_Fin, Synced
<1>3. c.iss \in Nat /\ c.snd \in Nat /\ h.rcv \in Nat /\ h.sent \in Nat /\ Len(h.got) \in Nat
  BY DEF ConnShape, HostShape, Block
<1>4. h.conn = c.iss /\ c.iss >= 1 /\ c.snd >= 1 /\ c.len = 1 /\ h.rcv \in {c.snd, c.snd + 1} /\ (Ended(h) => h.rcv = c.snd + 1)
  BY <1>2 DEF UsedOK, SyncedOK
<1>5. h.rcv \in {Len(h.got) + 1, Len(h.got) + 2} /\ Len(h.got) <= h.sent
  BY <1>3, <1>4 DEF HostOK
<1>6. Len(<<>>) = 0 /\ Bytes(m.data, c.peer, m.seq)
  BY <1>1 DEF Bytes
<1>7. Size(m) = 1 /\ Carries(m)
  BY <1>1, <1>6 DEF Size, Fin, Carries
<1>8. m.seq + Len(m.data) <= h.sent + 1 /\ m.seq <= h.rcv /\ (Ended(h) => m.seq < h.rcv)
  <2>1. CASE Ended(h)
    BY <1>1, <1>3, <1>4, <1>5, <1>6, <2>1 DEF Ended
  <2>2. CASE ~Ended(h)
    BY <1>1, <1>3, <1>4, <1>5, <1>6, <2>2 DEF Ended
  <2> QED BY <2>1, <2>2
<1>9. CarriesOK(c.peer, m, h)
  BY <1>1, <1>3, <1>4, <1>6, <1>8 DEF CarriesOK
<1>10. Payload(c, m, slots)
  BY <1>1, <1>2, <1>4, <1>7 DEF Payload
<1>11. m.flags # {"SYN"} /\ m.conn # 0
  <2>1. "ACK" \in m.flags
    BY <1>1, <1>3, <1>4
  <2>2. m.conn # 0
    BY <1>1, <1>3, <1>4
  <2> QED BY <2>1, <2>2, NotSyn
<1> QED BY <1>1, <1>2, <1>9, <1>10, <1>11 DEF SendGood, SegOK

LEMMA DataGood ==
  ASSUME NEW c, ConnShape(c), c.st = "ESTABLISHED", c.app # NoSlot, NEW slots, slots[c.app].out \in Seq(Block),
         slots[c.app].out # <<>>, Filled(slots[c.app].out), c.len = Len(Head(slots[c.app].out)),
         NEW h, HostShape(h), HostOK(c.peer, h), ConnOK(c, slots, h),
         NEW m \in Reply(c, {"ACK"}, Head(slots[c.app].out))
  PROVE  SendGood(c, slots, h, m)
<1> DEFINE out == slots[c.app].out
<1>1. UsedOK(c, h) /\ SyncedOK(c, slots, h) /\ Synced(c)
  BY DEF ConnOK, Used, Synced
<1>2. c.iss \in Nat /\ c.snd \in Nat /\ h.rcv \in Nat /\ h.sent + 1 \in Nat
  BY DEF ConnShape, HostShape
<1>3. Chain(out, c.peer, c.snd, h.sent + 1)
  BY <1>1 DEF SyncedOK
<1>4. Head(out) \in Block /\ Head(out) # <<>> /\ Bytes(Head(out), c.peer, c.snd) /\ c.snd + Len(Head(out)) <= h.sent + 1
  BY <1>2, <1>3, ChainHead
<1>5. m.flags = {"ACK"} /\ m.conn = c.iss /\ m.data = Head(out) /\ m.seq = c.snd
  BY <1>4, FlagSets, ReplyIs
<1> HIDE DEF out
<1>6. h.conn = c.iss /\ c.iss >= 1 /\ c.snd >= 1 /\ h.rcv \in {c.snd, c.snd + c.len} /\ ~Ended(h) /\ c.len \in Nat
  BY <1>1 DEF UsedOK, SyncedOK, ConnShape
<1>7. Size(m) = c.len
  <2>1. Len(m.data) = c.len /\ Fin(m) = 0
    BY <1>5 DEF out, Fin
  <2> QED BY <1>6, <2>1 DEF Size
<1>8. CarriesOK(c.peer, m, h)
  BY <1>2, <1>4, <1>5, <1>6 DEF CarriesOK
<1>9. Payload(c, m, slots)
  BY <1>5, <1>7 DEF Payload, out
<1>10. m.flags # {"SYN"} /\ m.conn # 0
  <2>1. "ACK" \in m.flags
    BY <1>2, <1>5, <1>6
  <2>2. m.conn # 0
    BY <1>2, <1>5, <1>6
  <2> QED BY <2>1, <2>2, NotSyn
<1> QED BY <1>1, <1>5, <1>6, <1>8, <1>9, <1>10 DEF SendGood, SegOK

(***************************************************************************)
(* The invariant over a step of uIP on one connection                      *)
(***************************************************************************)
NewHost(p) ==
  [st |-> peer'[p].st, conn |-> peer'[p].conn, rcv |-> peer'[p].rcv, got |-> received'[p], sent |-> written'[p],
   under |-> toPeer'[p]]

LEMMA StreamsNext ==
  ASSUME \A p \in Peers : HostOK(p, NewHost(p)) /\ Numbered(NewHost(p), opened'),
         \A p \in Peers : \A m \in toPeer'[p] : SegOK(p, m, NewHost(p)),
         \A p \in Peers : \A m \in toUs'[p] : Answered(m, NewHost(p)),
         \A packet \in in_packet' : Answered(packet.seg, NewHost(packet.from)),
         \A i \in Conns : ConnOK(conn'[i], slot', NewHost(conn'[i].peer)) /\ (Used(conn'[i]) => conn'[i].iss <= opened'),
         \A i, j \in Conns : Used(conn'[i]) /\ Used(conn'[j]) /\ conn'[i].peer = conn'[j].peer => i = j
  PROVE  StreamInv'
<1>1. \A p : Host(p)' = NewHost(p)
  BY DEF Host, NewHost
<1>2. HostsOK' /\ AnswersOK'
  BY DEF HostsOK, AnswersOK, Host, NewHost
<1>3. ConnsOK' /\ OneEach'
  BY DEF ConnsOK, OneEach, Host, NewHost
<1> QED BY <1>2, <1>3 DEF StreamInv

LEMMA HostIs ==
  ASSUME SlotInv, NEW p \in Peers
  PROVE  LET h == Host(p)
         IN  /\ HostShape(h) /\ h.st = peer[p].st /\ h.conn = peer[p].conn /\ h.rcv = peer[p].rcv /\ h.got = received[p]
             /\ h.sent = written[p] /\ h.under = toPeer[p]
BY DEF Host, HostShape, SlotInv, NetTypes, SketchTypes, PeerShape

LEMMA NewHostIs ==
  ASSUME SlotInv', NEW p \in Peers
  PROVE  LET h == NewHost(p)
         IN  /\ HostShape(h) /\ h.st = peer'[p].st /\ h.conn = peer'[p].conn /\ h.rcv = peer'[p].rcv /\ h.got = received'[p]
             /\ h.sent = written'[p] /\ h.under = toPeer'[p]
BY DEF NewHost, HostShape, SlotInv, NetTypes, SketchTypes, PeerShape

(* Segments a host may get at any time.                                    *)
Harmless(m) == "RST" \in m.flags /\ ~Carries(m) /\ m.flags # {"SYN"}

SameButUnder(h, g) == g.st = h.st /\ g.conn = h.conn /\ g.rcv = h.rcv /\ g.got = h.got /\ g.sent = h.sent

(* More is under way to the host.                                          *)
LEMMA HostSends ==
  ASSUME NEW p, NEW c, NEW slots, NEW h, NEW g, SameButUnder(h, g), HostOK(p, h), ConnOK(c, slots, h), Used(c) => c.peer = p,
         \A m \in h.under : SegOK(p, m, h), NEW top, Numbered(h, top), Used(c) => c.iss <= top,
         \A m \in g.under : m \in h.under \/ Harmless(m) \/ (Used(c) /\ SendGood(c, slots, h, m))
  PROVE  /\ HostOK(p, g) /\ ConnOK(c, slots, g) /\ Numbered(g, top)
         /\ \A m \in g.under : SegOK(p, m, g)
<1>1. HostOK(p, g)
  BY DEF SameButUnder, HostOK
<1>2. \A m : CarriesOK(p, m, h) => CarriesOK(p, m, g)
  BY DEF SameButUnder, CarriesOK, Ended
<1>3. Numbered(g, top)
  BY DEF Numbered, SameButUnder, Harmless, SendGood
<1>4. ASSUME Used(c) PROVE UsedOK(c, g)
  <2>1. UsedOK(c, h)
    BY <1>4 DEF ConnOK
  <2>2. ASSUME NEW m \in g.under, m.flags = {"SYN"}, c.peer \in Servers PROVE m.conn = c.iss
    <3>1. "RST" \notin m.flags
      BY <2>2
    <3> QED BY <2>1, <2>2, <3>1 DEF UsedOK, Harmless, SendGood
  <2> QED BY <2>1, <2>2 DEF UsedOK, SameButUnder
<1>5. ASSUME c.st \in Half PROVE HalfOK(c, g)
  <2>1. HalfOK(c, h) /\ ~Synced(c)
    BY <1>5 DEF ConnOK, Half, Synced, Sent_Fin, Fin_Acked
  <2> QED BY <2>1 DEF HalfOK, SameButUnder, Harmless, SendGood
<1>6. ASSUME Synced(c) PROVE SyncedOK(c, slots, g)
  <2>1. SyncedOK(c, slots, h)
    BY <1>6 DEF ConnOK
  <2>2. ASSUME NEW m \in g.under, Carries(m), m.seq = g.rcv PROVE Payload(c, m, slots)
    BY <2>1, <2>2 DEF SyncedOK, SameButUnder, Harmless, SendGood
  <2> QED BY <2>1, <2>2 DEF SyncedOK, SameButUnder, Ended
<1>7. ConnOK(c, slots, g)
  BY <1>4, <1>5, <1>6 DEF ConnOK
<1>8. ASSUME NEW m \in g.under PROVE SegOK(p, m, g)
  <2>1. "RST" \notin m.flags => m.conn # 0
    BY DEF SegOK, Harmless, SendGood
  <2>2. Carries(m) => CarriesOK(p, m, g)
    BY <1>2 DEF SegOK, Harmless, SendGood
  <2>3. ASSUME p \in Servers, m.flags = {"SYN"}, NEW n \in g.under, n.flags = {"SYN"} PROVE n.conn = m.conn
    <3>1. "RST" \notin m.flags /\ "RST" \notin n.flags
      BY <2>3
    <3>2. CASE Used(c)
      BY <1>4, <2>3, <3>2 DEF UsedOK
    <3>3. CASE ~Used(c)
      BY <2>3, <3>1, <3>3 DEF Harmless, SegOK
    <3> QED BY <3>2, <3>3
  <2>4. ASSUME p \in Servers, m.flags = {"SYN"}, g.conn # 0 PROVE m.conn = g.conn
    <3>1. "RST" \notin m.flags
      BY <2>4
    <3>2. CASE Used(c)
      BY <1>4, <2>4, <3>2 DEF UsedOK
    <3>3. CASE ~Used(c)
      BY <2>4, <3>1, <3>3 DEF Harmless, SegOK, SameButUnder
    <3> QED BY <3>2, <3>3
  <2> QED BY <2>1, <2>2, <2>3, <2>4 DEF SegOK
<1> QED BY <1>1, <1>3, <1>7, <1>8

(* In a step on connection i it becomes v.c, and out is what is sent to    *)
(* host p.                                                                 *)
Reaches(p, out) ==
  toPeer' = toPeer \/ \E m \in out : \E under \in Sent(toPeer[p], m) : toPeer' = [toPeer EXCEPT ![p] = under]
Alone(i, p) == \A j \in Conns \ {i} : Used(conn[j]) => conn[j].peer # p

LEMMA ReachesIs ==
  ASSUME SlotInv, NEW p \in Peers, NEW out, Reaches(p, out)
  PROVE  (\A q \in Peers \ {p} : toPeer'[q] = toPeer[q]) /\ \A m \in toPeer'[p] : m \in toPeer[p] \/ m \in out
<1>1. CASE toPeer' = toPeer
  BY <1>1
<1>2. ASSUME NEW m \in out, NEW under \in Sent(toPeer[p], m), toPeer' = [toPeer EXCEPT ![p] = under]
      PROVE  (\A q \in Peers \ {p} : toPeer'[q] = toPeer[q]) /\ \A n \in toPeer'[p] : n \in toPeer[p] \/ n \in out
  <2>1. under \subseteq toPeer[p] \union {m}
    BY SentIn
  <2> QED BY <1>2, <2>1 DEF SlotInv, NetTypes
<1> QED BY <1>1, <1>2 DEF Reaches

(* The slots of the other connections are not touched.                     *)
LEMMA OthersKeep ==
  ASSUME SlotInv, NEW i \in Conns, NEW v, Moves(i, v), NEW j \in Conns \ {i}, conn[j].app # NoSlot
  PROVE  v.slot[conn[j].app] = slot[conn[j].app]
<1>1. conn[j].app \in Conns /\ Serves(slot[conn[j].app]) /\ conn[i].app # conn[j].app
  BY DEF SlotInv, Owners, UipTypes, ConnShape
<1>2. InUse(slot[conn[j].app])
  BY <1>1 DEF Serves, InUse
<1> QED BY <1>1, <1>2 DEF Moves

LEMMA StreamsStep ==
  ASSUME SlotInv, StreamInv, NEW i \in Conns, NEW p \in Peers, NEW v, Moves(i, v), Adopts(i, v), NEW out, Reaches(p, out),
         ConnOK(v.c, v.slot, Host(p)), Used(v.c) => v.c.peer = p /\ v.c.iss <= opened',
         \A m \in out : Harmless(m) \/ (Used(v.c) /\ SendGood(v.c, v.slot, Host(p), m)),
         Alone(i, p), opened' \in Nat, opened <= opened',
         \A packet \in v.kept : Answered(packet.seg, Host(packet.from)),
         \A q \in Peers : toUs'[q] \subseteq toUs[q],
         UNCHANGED <<peer, received, written>>, SlotInv'
  PROVE  StreamInv'
<1>1. conn'[i] = v.c /\ (\A j \in Conns \ {i} : conn'[j] = conn[j]) /\ slot' = v.slot /\ in_packet' = v.kept
  BY DEF Adopts, SlotInv, UipTypes
<1>2. (\A q \in Peers \ {p} : toPeer'[q] = toPeer[q]) /\ \A m \in toPeer'[p] : m \in toPeer[p] \/ m \in out
  BY ReachesIs
<1>3. \A q \in Peers : SameButUnder(Host(q), NewHost(q)) /\ NewHost(q).under = toPeer'[q] /\ Host(q).under = toPeer[q]
  BY HostIs, NewHostIs DEF SameButUnder
<1>4. \A q \in Peers \ {p} : NewHost(q) = Host(q)
  BY <1>2 DEF Host, NewHost
<1>5. \A q \in Peers : HostOK(q, Host(q)) /\ Numbered(Host(q), opened') /\ \A m \in toPeer[q] : SegOK(q, m, Host(q))
  <2> TAKE q \in Peers
  <2>1. HostShape(Host(q)) /\ opened \in Nat
    BY HostIs DEF SlotInv, UipTypes
  <2>2. HostOK(q, Host(q)) /\ Numbered(Host(q), opened) /\ \A m \in toPeer[q] : SegOK(q, m, Host(q))
    BY DEF StreamInv, HostsOK
  <2>3. \A n \in Nat : n <= opened => n <= opened'
    BY <2>1
  <2>4. Host(q).conn \in Nat /\ \A m \in Host(q).under : m.conn \in Nat
    BY <2>1 DEF HostShape, SegRec
  <2> QED BY <2>2, <2>3, <2>4 DEF Numbered
<1> DEFINE h == Host(p)
           g == NewHost(p)
<1>6. /\ HostOK(p, g) /\ ConnOK(v.c, v.slot, g) /\ Numbered(g, opened')
      /\ \A m \in g.under : SegOK(p, m, g)
  <2>1. SameButUnder(h, g) /\ h.under = toPeer[p] /\ g.under = toPeer'[p]
    BY <1>3
  <2>2. HostOK(p, h) /\ Numbered(h, opened') /\ \A m \in h.under : SegOK(p, m, h)
    BY <1>5, <2>1
  <2>3. \A m \in g.under : m \in h.under \/ Harmless(m) \/ (Used(v.c) /\ SendGood(v.c, v.slot, h, m))
    BY <1>2, <2>1
  <2>4. ConnOK(v.c, v.slot, h)
    OBVIOUS
  <2> HIDE DEF h, g
  <2> QED BY <2>1, <2>2, <2>3, <2>4, HostSends
<1>7. ASSUME NEW q \in Peers
      PROVE  HostOK(q, NewHost(q)) /\ Numbered(NewHost(q), opened') /\ \A m \in toPeer'[q] : SegOK(q, m, NewHost(q))
  BY <1>2, <1>3, <1>4, <1>5, <1>6
<1>8. \A q \in Peers : \A m : Answered(m, Host(q)) => Answered(m, NewHost(q))
  BY <1>3 DEF SameButUnder, Answered
<1>9. \A q \in Peers : \A m \in toUs'[q] : Answered(m, NewHost(q))
  BY <1>8 DEF StreamInv, AnswersOK
<1>10. \A packet \in in_packet' : Answered(packet.seg, NewHost(packet.from))
  <2>1. \A packet \in v.kept : packet.from \in Peers
    BY DEF Moves, Effect, Packets
  <2> QED BY <1>1, <1>8, <2>1
<1>11. ASSUME NEW j \in Conns
       PROVE  ConnOK(conn'[j], slot', NewHost(conn'[j].peer)) /\ (Used(conn'[j]) => conn'[j].iss <= opened')
  <2>1. CASE j = i
    <3>1. CASE Used(v.c)
      BY <1>1, <1>6, <2>1, <3>1
    <3>2. CASE ~Used(v.c)
      <4>1. \A x : ConnOK(v.c, v.slot, x)
        BY <3>2 DEF ConnOK, Used, Half, Synced, Sent_Fin, Fin_Acked
      <4> QED BY <1>1, <2>1, <3>2, <4>1
    <3> QED BY <3>1, <3>2
  <2>2. CASE j # i
    <3>1. ConnOK(conn[j], slot, Host(conn[j].peer)) /\ conn'[j] = conn[j] /\ (Used(conn[j]) => conn[j].iss <= opened)
      BY <1>1, <2>2 DEF StreamInv, ConnsOK
    <3>2. conn[j].app # NoSlot => slot'[conn[j].app] = slot[conn[j].app]
      BY <1>1, <2>2, OthersKeep
    <3>3. ~Used(conn[j]) => ~conn[j].stopped
      BY <3>1 DEF ConnOK
    <3>4. ConnOK(conn[j], slot', Host(conn[j].peer))
      BY <3>1, <3>2, <3>3, ConnOKSame
    <3>5. CASE Used(conn[j])
      <4>1. conn[j].peer \in Peers \ {p}
        BY <2>2, <3>1, <3>5 DEF ConnOK, UsedOK, Alone
      <4>2. conn[j].iss \in Nat /\ opened \in Nat
        BY DEF SlotInv, UipTypes, ConnShape
      <4> QED BY <1>4, <3>1, <3>4, <3>5, <4>1, <4>2
    <3>6. CASE ~Used(conn[j])
      <4>1. \A x : ConnOK(conn[j], slot', x)
        BY <3>4, <3>6 DEF ConnOK, Used, Half, Synced, Sent_Fin, Fin_Acked
      <4> QED BY <3>1, <3>6, <4>1
    <3> QED BY <3>5, <3>6
  <2> QED BY <2>1, <2>2
<1>12. ASSUME NEW j \in Conns, NEW k \in Conns, Used(conn'[j]), Used(conn'[k]), conn'[j].peer = conn'[k].peer PROVE j = k
  <2>1. CASE j # i /\ k # i
    BY <1>1, <1>12, <2>1 DEF StreamInv, OneEach
  <2>2. CASE j = i \/ k = i
    BY <1>1, <1>12, <2>2 DEF Alone
  <2> QED BY <2>1, <2>2
<1> QED BY <1>7, <1>9, <1>10, <1>11, <1>12, StreamsNext

(***************************************************************************)
(* What stays in in_packet                                                 *)
(***************************************************************************)
LEMMA StagesKeep ==
  ASSUME NEW w, "kept" \in DOMAIN w
  PROVE  /\ Attached(w).kept = w.kept /\ "kept" \in DOMAIN Attached(w)
         /\ \A packet : Stored(w, packet).kept \subseteq w.kept \union {packet} /\ "kept" \in DOMAIN Stored(w, packet)
         /\ Restarted(w).kept = w.kept /\ "kept" \in DOMAIN Restarted(w)
         /\ Closed(w).kept = w.kept
         /\ Acked(w).kept = w.kept /\ "kept" \in DOMAIN Acked(w)
         /\ Offered(w).kept = w.kept /\ ClosedWhenSent(w).kept = w.kept
<1>1. Attached(w).kept = w.kept /\ "kept" \in DOMAIN Attached(w)
  BY DEF Attached
<1>2. ASSUME NEW packet
      PROVE  Stored(w, packet).kept \subseteq w.kept \union {packet} /\ "kept" \in DOMAIN Stored(w, packet)
  BY DEF Stored
<1>3. Restarted(w).kept = w.kept /\ "kept" \in DOMAIN Restarted(w)
  BY DEF Restarted
<1>4. Closed(w).kept = w.kept
  BY DEF Closed
<1>5. Acked(w).kept = w.kept /\ "kept" \in DOMAIN Acked(w)
  BY DEF Acked
<1>6. Offered(w).kept = w.kept
  BY DEF Offered
<1>7. ClosedWhenSent(w).kept = w.kept
  BY DEF ClosedWhenSent
<1> QED BY <1>1, <1>2, <1>3, <1>4, <1>5, <1>6, <1>7

LEMMA KeptIs ==
  ASSUME NEW w, "kept" \in DOMAIN w, NEW new PROVE AppCall(w, new).kept \subseteq w.kept \union new
<1> DEFINE v == Attached(w)
           x == IF new = {} THEN v ELSE Stored(v, CHOOSE packet \in new : TRUE)
           y == Restarted(x)
<1>1. v.kept = w.kept /\ "kept" \in DOMAIN v
  BY StagesKeep
<1>2. AppCall(w, new) = IF v.c.app = NoSlot THEN v ELSE Event(y)
  BY DEF AppCall, Then
<1> HIDE DEF v
<1>3. x.kept \subseteq w.kept \union new /\ "kept" \in DOMAIN x
  <2>1. CASE new = {}
    BY <1>1, <2>1
  <2>2. CASE new # {}
    <3> DEFINE e == CHOOSE packet \in new : TRUE
    <3>1. e \in new
      BY <2>2
    <3>2. x = Stored(v, e)
      BY <2>2
    <3> HIDE DEF e, x
    <3>3. Stored(v, e).kept \subseteq v.kept \union {e} /\ "kept" \in DOMAIN Stored(v, e)
      BY <1>1, StagesKeep
    <3>4. {e} \subseteq new
      BY <3>1
    <3> QED BY <1>1, <3>2, <3>3, <3>4
  <2> QED BY <2>1, <2>2
<1> HIDE DEF x
<1>4. y.kept = x.kept /\ "kept" \in DOMAIN y
  BY <1>3, StagesKeep
<1> HIDE DEF y
<1>5. Event(y).kept = y.kept
  <2>1. Acked(y).kept = y.kept /\ "kept" \in DOMAIN Acked(y)
    BY <1>4, StagesKeep
  <2>2. SendOrClose(Acked(y)).kept = y.kept
    BY <2>1, StagesKeep DEF SendOrClose
  <2>3. Event(y) = Closed(y) \/ Event(y) = SendOrClose(Acked(y))
    BY DEF Event, Then
  <2> QED BY <1>4, <2>2, <2>3, StagesKeep
<1> QED BY <1>1, <1>2, <1>3, <1>4, <1>5

(***************************************************************************)
(* A step that keeps the connection or closes it                           *)
(***************************************************************************)
Yields(i, v, out) ==
  LET h == Host(conn[i].peer)
  IN  /\ ConnOK(v.c, v.slot, h)
      /\ Used(v.c) => v.c.peer = conn[i].peer /\ v.c.iss = conn[i].iss
      /\ \A m \in out : Harmless(m) \/ (Used(v.c) /\ SendGood(v.c, v.slot, h, m))
      /\ \A packet \in v.kept : Answered(packet.seg, Host(packet.from))

Flows(i) == \E v, out : Moves(i, v) /\ Adopts(i, v) /\ Reaches(conn[i].peer, out) /\ Yields(i, v, out)

LEMMA DoneFlows ==
  ASSUME NEW i, NEW v, Moves(i, v), NEW out, Done(i, v, out), Yields(i, v, out) PROVE Flows(i)
<1>1. Adopts(i, v) /\ Reaches(conn[i].peer, out)
  BY DoneIs DEF Reaches
<1> QED BY <1>1 DEF Flows

LEMMA FlowsKeeps ==
  ASSUME SlotInv, StreamInv, NEW i \in Conns, Used(conn[i]), Flows(i), opened' = opened,
         \A q \in Peers : toUs'[q] \subseteq toUs[q], UNCHANGED <<peer, received, written>>, SlotInv'
  PROVE  StreamInv'
<1>1. PICK v, out : Moves(i, v) /\ Adopts(i, v) /\ Reaches(conn[i].peer, out) /\ Yields(i, v, out)
  BY DEF Flows
<1>2. conn[i].peer \in Peers /\ conn[i].iss <= opened /\ opened \in Nat
  BY DEF StreamInv, ConnsOK, ConnOK, UsedOK, SlotInv, UipTypes
<1>3. Alone(i, conn[i].peer)
  BY DEF StreamInv, OneEach, Alone
<1> QED BY <1>1, <1>2, <1>3, StreamsStep DEF Yields

(* What is known when such a step begins.                                  *)
LEMMA Begins ==
  ASSUME SlotInv, StreamInv, NEW i \in Conns, Used(conn[i])
  PROVE  LET c == conn[i]
             h == Host(conn[i].peer)
         IN  /\ ConnShape(c) /\ InFlight(c, slot) /\ ConnOK(c, slot, h) /\ UsedOK(c, h) /\ HostOK(c.peer, h) /\ HostShape(h)
             /\ c.peer \in Peers /\ c.iss >= 1 /\ (c.app # NoSlot => c.st = "ESTABLISHED")
             /\ \A packet \in in_packet : Answered(packet.seg, Host(packet.from))
<1>1. ConnShape(conn[i]) /\ InFlight(conn[i], slot)
  BY DEF SlotInv, UipTypes
<1>2. ConnOK(conn[i], slot, Host(conn[i].peer)) /\ UsedOK(conn[i], Host(conn[i].peer))
  BY DEF StreamInv, ConnsOK, ConnOK
<1>3. conn[i].peer \in Peers /\ conn[i].iss >= 1 /\ (conn[i].app # NoSlot => conn[i].st = "ESTABLISHED")
  BY <1>2 DEF UsedOK, ConnOK
<1>4. HostOK(conn[i].peer, Host(conn[i].peer)) /\ HostShape(Host(conn[i].peer))
  BY <1>3, HostIs DEF StreamInv, HostsOK
<1> QED BY <1>1, <1>2, <1>3, <1>4 DEF StreamInv, AnswersOK

(***************************************************************************)
(* The call for an established connection, and what it sends               *)
(***************************************************************************)
(* After the call for a connection c that has nothing outstanding, the     *)
(* slot holds what was written up to z; otherwise nothing has happened.    *)
Continues(r, c, z) ==
  /\ c.len = 0 => /\ r.c.app # NoSlot => Chain(r.slot[r.c.app].out, c.peer, c.snd, z)
                  /\ "CLOSE" \in r.flags => r.c.app = NoSlot /\ Chain(<<>>, c.peer, c.snd, z)
  /\ c.len > 0 => /\ "CLOSE" \notin r.flags /\ r.send = <<>> /\ r.c.app = c.app
                  /\ c.app # NoSlot => r.slot[c.app].out = slot[c.app].out

LEMMA CallStreams ==
  ASSUME SlotInv, NEW i \in Conns, NEW c, ConnShape(c), c.app = conn[i].app, c.st = "ESTABLISHED", InFlight(c, slot),
         NEW flags, flags \intersect {"CLOSE", "TIMEDOUT"} = {}, "ACKDATA" \in flags => c.len = 0,
         flags \intersect {"POLL", "REXMIT"} # {} => c.len = 0,
         NEW w, w \in {Call(c, flags), OnTick(c, flags)}, NEW new \in SUBSET Packets, NEW r, r = AppCall(w, new), NEW z,
         c.len = 0 /\ c.app # NoSlot => Chain(Remaining(w), c.peer, c.snd, z),
         c.len = 0 /\ "CONNECTED" \in flags => c.snd = z
  PROVE  Continues(r, c, z)
<1>1. Called(r, w)
  BY AppCallMoves
<1>2. w.c = c /\ w.slot = slot /\ w.flags = flags /\ w.send = <<>>
  BY CallStarts
<1>3. c.len \in Nat /\ "CLOSE" \notin flags
  BY DEF ConnShape
<1>4. CASE Nothing(r, w)
  BY <1>2, <1>3, <1>4 DEF Nothing, Continues
<1>5. ASSUME NEW s \in Conns, Fresh(r, w, s) \/ Has(r, w, s), r.c.app \in {NoSlot, s}
      PROVE  Continues(r, c, z)
  <2>1. s # NoSlot
    BY SlotAssumption DEF NoSlot
  <2>2. CASE Fresh(r, w, s)
    <3>1. c.app = NoSlot /\ r.c.app = s /\ r.slot[s].out = <<>> /\ "CLOSE" \notin r.flags /\ "CONNECTED" \in flags
      BY <1>2, <2>2 DEF Fresh
    <3>2. c.len = 0
      BY <1>3, <3>1 DEF InFlight
    <3>3. c.len = 0 => Chain(<<>>, c.peer, c.snd, z)
      BY <3>1, EmptyChain
    <3> QED BY <3>1, <3>2, <3>3 DEF Continues
  <2>3. CASE Has(r, w, s)
    <3>1. c.app = s /\ Outcome(r, w, s) /\ Own(w) = slot[s]
      BY <1>2, <2>3 DEF Has, Own
    <3>2. r.slot[s].out = Remaining(w) /\ (Offers(r, w, s) \/ Closes(r, w, s) \/ Waits(r, w, s))
      BY <1>2, <3>1 DEF Outcome, Drops
    <3>3. c.len > 0 => Remaining(w) = slot[s].out /\ slot[s].out # <<>>
      BY <1>2, <3>1 DEF Remaining, InFlight
    <3>4. CASE Offers(r, w, s)
      BY <1>2, <1>3, <2>1, <3>1, <3>2, <3>4 DEF Offers, Continues
    <3>5. CASE Closes(r, w, s)
      BY <1>2, <1>3, <2>1, <3>1, <3>2, <3>3, <3>5 DEF Closes, Continues
    <3>6. CASE Waits(r, w, s)
      BY <1>2, <1>3, <2>1, <3>1, <3>2, <3>3, <3>6 DEF Waits, Continues
    <3> QED BY <3>2, <3>4, <3>5, <3>6
  <2> QED BY <1>5, <2>2, <2>3
<1> QED BY <1>1, <1>4, <1>5 DEF Called

LEMMA OutputIs ==
  ASSUME NEW v, Effect(v), NEW m \in Output(v)
  PROVE  m \in Reply(v.c, {"ACK"}, <<>>) \/ (v.send # <<>> /\ v.c.len > 0 /\ m \in Reply(v.c, {"ACK"}, SubSeq(v.send, 1, v.c.len)))
BY DEF Output

LEMMA WholeIs == ASSUME NEW b \in Block PROVE SubSeq(b, 1, Len(b)) = b
BY DEF Block

(* The first block goes out whole.                                         *)
LEMMA OutputGood ==
  ASSUME NEW v, Effect(v), v.c.st = "ESTABLISHED", NEW h, HostShape(h), HostOK(v.c.peer, h), ConnOK(v.c, v.slot, h),
         v.send # <<>> => /\ v.c.app # NoSlot /\ v.slot[v.c.app].out # <<>> /\ v.send = Head(v.slot[v.c.app].out)
                          /\ v.c.len = Len(v.send),
         NEW m \in Output(v)
  PROVE  SendGood(v.c, v.slot, h, m)
<1>1. ConnShape(v.c) /\ Used(v.c) /\ v.send \in Block
  BY DEF Effect, Used
<1>2. v.c.iss >= 1
  BY <1>1 DEF ConnOK, UsedOK
<1>3. CASE m \in Reply(v.c, {"ACK"}, <<>>)
  BY <1>1, <1>2, <1>3, BareGood
<1>4. CASE v.send # <<>> /\ m \in Reply(v.c, {"ACK"}, SubSeq(v.send, 1, v.c.len))
  <2> DEFINE out == v.slot[v.c.app].out
  <2>1. v.c.app \in Conns
    BY <1>1, <1>4 DEF ConnShape
  <2>2. out \in Seq(Block) /\ Filled(out) /\ out # <<>>
    BY <1>4, <2>1 DEF Effect, SlotOK, SlotShape
  <2>3. SubSeq(v.send, 1, v.c.len) = Head(out) /\ v.c.len = Len(Head(out))
    BY <1>1, <1>4, WholeIs
  <2> QED BY <1>1, <1>4, <2>2, <2>3, DataGood
<1> QED BY <1>3, <1>4, OutputIs

LEMMA CallKept ==
  ASSUME NEW c, NEW flags, NEW w, w \in {Call(c, flags), OnTick(c, flags)}
  PROVE  "kept" \in DOMAIN w /\ w.kept \subseteq in_packet
BY CallIs, OnTickIs

LEMMA AppSendFlows ==
  ASSUME SlotInv, StreamInv, NEW i \in Conns, Used(conn[i]), NEW c, ConnShape(c), c.app = conn[i].app,
         c.st = "ESTABLISHED", c.peer = conn[i].peer, c.iss = conn[i].iss, InFlight(c, slot),
         NEW flags, flags \intersect {"CLOSE", "TIMEDOUT"} = {}, "ACKDATA" \in flags => c.len = 0,
         flags \intersect {"POLL", "REXMIT"} # {} => c.len = 0,
         NEW w, w \in {Call(c, flags), OnTick(c, flags)}, NEW new \in SUBSET Packets, NEW r, r = AppCall(w, new),
         \A packet \in new : Answered(packet.seg, Host(packet.from)),
         NEW h, h = Host(conn[i].peer), ~Ended(h),
         c.len > 0 => ConnOK(c, slot, h),
         c.len = 0 => /\ Even(c, h)
                      /\ c.app # NoSlot => Chain(Remaining(w), c.peer, c.snd, h.sent + 1)
                      /\ "CONNECTED" \in flags => c.snd = h.sent + 1,
         AppSend(i, r)
  PROVE  Flows(i)
<1>1. /\ HostOK(c.peer, h) /\ HostShape(h) /\ c.iss >= 1 /\ UsedOK(conn[i], h)
      /\ \A packet \in in_packet : Answered(packet.seg, Host(packet.from))
  BY Begins
<1>2. Moves(i, r) /\ Called(r, w) /\ w.c = c
  <2>1. Moves(i, r) /\ Called(r, w)
    BY AppCallMoves
  <2> QED BY <2>1, CallStarts
<1>3. Effect(r) /\ r.c.st = "ESTABLISHED" /\ r.c.peer = c.peer /\ r.c.iss = c.iss /\ r.c.snd = c.snd /\ r.c.len = c.len
  BY <1>2 DEF Called, SameConn
<1>4. \A packet \in r.kept : Answered(packet.seg, Host(packet.from))
  <2>1. "kept" \in DOMAIN w /\ w.kept \subseteq in_packet
    BY CallKept
  <2>2. r.kept \subseteq w.kept \union new
    BY <2>1, KeptIs
  <2> QED BY <1>1, <2>1, <2>2
<1>5. Continues(r, c, h.sent + 1)
  BY CallStreams
<1>6. r.send # <<>> /\ c.len = 0 => r.c.app # NoSlot /\ r.slot[r.c.app].out # <<>> /\ r.send = Head(r.slot[r.c.app].out)
  BY EstablishedCall
<1>7. c.len \in Nat /\ c.snd \in Nat
  BY DEF ConnShape
<1>8. \A d : d.peer = c.peer /\ d.iss = c.iss => UsedOK(d, h)
  BY <1>1 DEF UsedOK
<1>9. CASE "CLOSE" \in r.flags
  <2> DEFINE u == Finned(r, "FIN_WAIT_1")
             out == Reply(u.c, {"FIN", "ACK"}, <<>>)
  <2>1. Done(i, u, out)
    BY <1>9, AppSendIs
  <2>2. Follows(u, r) /\ ConnShape(u.c) /\ u.c.st = "FIN_WAIT_1" /\ u.c.peer = c.peer /\ u.c.iss = c.iss /\ u.c.snd = c.snd
        /\ u.c.len = 1
    BY <1>3, FinnedIs
  <2> HIDE DEF u
  <2>3. c.len = 0 /\ u.c.app = NoSlot /\ Chain(<<>>, c.peer, c.snd, h.sent + 1) /\ Even(c, h)
    BY <1>5, <1>7, <1>9, <2>2 DEF Follows, Continues
  <2>4. Len(h.got) = h.sent
    BY <1>1, <2>3, AllSent
  <2>5. Even(u.c, h) /\ UsedOK(u.c, h) /\ Synced(u.c) /\ u.c.st \in Sent_Fin /\ Used(u.c) /\ u.c.st \notin Fin_Acked
    BY <1>8, <2>2, <2>3 DEF Even, Synced, Sent_Fin, Used, Fin_Acked
  <2>6. ConnOK(u.c, u.slot, h)
    BY <1>1, <2>2, <2>3, <2>4, <2>5, EvenOK
  <2>7. \A m \in out : SendGood(u.c, u.slot, h, m)
    BY <1>1, <2>2, <2>5, <2>6, FinGood
  <2>8. Yields(i, u, out)
    BY <1>4, <2>2, <2>5, <2>6, <2>7 DEF Yields, Follows
  <2>9. Moves(i, u)
    BY <1>2, <2>2, MovesFollows
  <2> QED BY <2>1, <2>8, <2>9, DoneFlows
<1>10. CASE "CLOSE" \notin r.flags
  <2> DEFINE u == Sending(r)
             out == Output(u)
  <2>1. Done(i, u, out)
    BY <1>10, AppSendIs
  <2>2. /\ Follows(u, r) /\ u.c.st = "ESTABLISHED" /\ u.c.peer = c.peer /\ u.c.iss = c.iss /\ u.c.snd = c.snd
        /\ u.c.len = IF r.send # <<>> /\ c.len = 0 THEN Len(r.send) ELSE c.len
    BY <1>3, SendingIs
  <2> HIDE DEF u
  <2>3. Effect(u) /\ u.slot = r.slot /\ u.c.app = r.c.app /\ u.send = r.send /\ u.kept = r.kept /\ ConnShape(u.c) /\ Used(u.c)
        /\ Synced(u.c) /\ u.c.st \notin Sent_Fin /\ u.c.st \notin Fin_Acked /\ u.c.st \notin Ending
    BY <2>2 DEF Follows, Effect, Used, Synced, Sent_Fin, Fin_Acked, Ending
  <2>4. ConnOK(u.c, u.slot, h)
    <3>1. CASE c.len > 0
      BY <1>5, <2>2, <2>3, <3>1, ConnOKSame DEF Continues
    <3>2. CASE c.len = 0
      <4>1. Even(u.c, h) /\ UsedOK(u.c, h)
        BY <1>8, <2>2, <3>2 DEF Even
      <4>2. u.c.app # NoSlot => u.c.st = "ESTABLISHED" /\ Chain(u.slot[u.c.app].out, u.c.peer, u.c.snd, h.sent + 1)
        BY <1>5, <2>2, <2>3, <3>2 DEF Continues
      <4>3. u.c.app = NoSlot => u.c.len = 0
        BY <1>6, <2>2, <2>3, <3>2
      <4> QED BY <1>1, <2>3, <4>1, <4>2, <4>3, EvenOK
    <3> QED BY <1>7, <3>1, <3>2
  <2>5. u.send # <<>> => /\ u.c.app # NoSlot /\ u.slot[u.c.app].out # <<>> /\ u.send = Head(u.slot[u.c.app].out)
                         /\ u.c.len = Len(u.send)
    BY <1>5, <1>6, <1>7, <2>2, <2>3 DEF Continues
  <2>6. \A m \in out : SendGood(u.c, u.slot, h, m)
    BY <1>1, <2>2, <2>3, <2>4, <2>5, OutputGood
  <2>7. Yields(i, u, out)
    BY <1>4, <2>2, <2>3, <2>4, <2>6 DEF Yields
  <2>8. Moves(i, u)
    BY <1>2, <2>2, MovesFollows
  <2> QED BY <2>1, <2>7, <2>8, DoneFlows
<1> QED BY <1>9, <1>10

(***************************************************************************)
(* Steps without a call that matters                                       *)
(***************************************************************************)
LEMMA PlainFlows ==
  ASSUME SlotInv, StreamInv, NEW i \in Conns, Used(conn[i]), NEW c, ConnShape(c), c.app = conn[i].app,
         Used(c) => c.peer = conn[i].peer /\ c.iss = conn[i].iss, NEW flags, NEW w, w \in {Call(c, flags), OnTick(c, flags)},
         NEW h, h = Host(conn[i].peer), ConnOK(c, slot, h), NEW out, Done(i, w, out),
         \A m \in out : Harmless(m) \/ (Used(c) /\ SendGood(c, slot, h, m))
  PROVE  Flows(i)
<1>1. Moves(i, w) /\ w.c = c /\ w.slot = slot
  BY CallStarts
<1>2. \A packet \in w.kept : Answered(packet.seg, Host(packet.from))
  BY Begins, CallKept
<1>3. Yields(i, w, out)
  BY <1>1, <1>2 DEF Yields
<1> QED BY <1>1, <1>3, DoneFlows

LEMMA ClosedFlows ==
  ASSUME NEW i, NEW v, Moves(i, v), v.c.st = "CLOSED", ~v.c.stopped, v.c.len = 0, v.c.app = NoSlot,
         \A packet \in v.kept : Answered(packet.seg, Host(packet.from)),
         NEW out, \A m \in out : Harmless(m), Done(i, v, out)
  PROVE  Flows(i)
<1>1. ConnOK(v.c, v.slot, Host(conn[i].peer)) /\ ~Used(v.c)
  BY UnusedOK DEF Used
<1> QED BY <1>1, DoneFlows DEF Yields

(* The application is not called for a connection without a slot.          *)
LEMMA CallsNone ==
  ASSUME SlotInv, NEW i \in Conns, NEW c, ConnShape(c), c.app = conn[i].app, c.app = NoSlot, NEW flags, "CONNECTED" \notin flags,
         NEW w, w \in {Call(c, flags), OnTick(c, flags)}
  PROVE  AppCall(w, {}) = w
<1>1. Called(AppCall(w, {}), w)
  BY AppCallMoves
<1>3. w.c = c /\ w.flags = flags
  BY CallIs, OnTickIs
<1>2. \A s \in Conns : s # NoSlot
  BY SlotAssumption DEF NoSlot
<1> QED BY <1>1, <1>2, <1>3 DEF Called, Nothing, Fresh, Has

(* A connection that has timed out is not stopped after the call.          *)
LEMMA TimedOutIs ==
  ASSUME NEW w, Ready(w), ~w.c.stopped, w.flags = {"TIMEDOUT"}
  PROVE  LET r == AppCall(w, {}) IN ~r.c.stopped /\ r.c.app = NoSlot
<1> DEFINE x == Restarted(w)
<1>1. w.c.app # NoSlot
  BY SlotAssumption DEF Ready, NoSlot
<1>2. Attached(w) = w
  BY <1>1 DEF Attached
<1>3. AppCall(w, {}) = Event(x)
  BY <1>1, <1>2 DEF AppCall, Then
<1>4. Ready(x) /\ x.flags \in {w.flags, w.flags \union {"NEWDATA"}}
  BY RestartedIs
<1>5. ~x.c.stopped
  BY DEF Restarted, Ready, Effect, ConnShape
<1> HIDE DEF x
<1>6. Event(x) = Closed(x)
  BY <1>4 DEF Event
<1> QED BY <1>3, <1>4, <1>5, <1>6, ClosedIs

(* A reset that uIP sends.                                                 *)
LEMMA ResetHarmless ==
  ASSUME NEW x \in Nat, NEW s \in Nat, NEW a \in Nat PROVE Harmless(Segment(x, {"RST", "ACK"}, s, <<>>, a))
<1> DEFINE m == Segment(x, {"RST", "ACK"}, s, <<>>, a)
<1>1. m.flags = {"RST", "ACK"} /\ m.data = <<>>
  BY DEF Segment
<1> HIDE DEF m
<1>2. "ACK" \in m.flags /\ "RST" \in m.flags /\ "FIN" \notin m.flags
  BY <1>1
<1>3. Harmless(m)
  BY <1>1, <1>2, NotSyn DEF Harmless, Carries
<1> QED BY <1>3 DEF m

(***************************************************************************)
(* uip_process(UIP_TIMER) and (UIP_POLL_REQUEST)                           *)
(***************************************************************************)
LEMMA TimerIdleFlows == ASSUME SlotInv, StreamInv, NEW i \in Conns, Used(conn[i]), TimerIdle(i) PROVE Flows(i)
<1> DEFINE w == OnTick(conn[i], {})
           v == Gone(w)
<1>1. /\ ConnShape(conn[i]) /\ conn[i].app = NoSlot /\ ~conn[i].stopped
      /\ \A packet \in in_packet : Answered(packet.seg, Host(packet.from))
  BY Begins DEF TimerIdle
<1>2. Done(i, v, {})
  BY DEF TimerIdle
<1>3. Moves(i, w) /\ w.c = conn[i] /\ Effect(w) /\ w.kept = in_packet
  <2>1. Moves(i, w) /\ w.c = conn[i]
    BY <1>1, CallStarts
  <2>2. w.kept = in_packet
    BY OnTickIs
  <2> QED BY <2>1, <2>2 DEF Moves
<1> HIDE DEF w
<1>4. Follows(v, w) /\ v.c = ClosedConn(NoSlot, w.c.lport)
  BY <1>1, <1>3, GoneIs
<1>5. Moves(i, v) /\ v.kept = in_packet
  BY <1>3, <1>4, MovesFollows DEF Follows
<1>6. v.c.st = "CLOSED" /\ ~v.c.stopped /\ v.c.len = 0 /\ v.c.app = NoSlot
  BY <1>4, ClosedConnIs
<1> HIDE DEF v
<1> QED BY <1>1, <1>2, <1>5, <1>6, ClosedFlows

LEMMA TimerGivesUpFlows == ASSUME SlotInv, StreamInv, NEW i \in Conns, Used(conn[i]), TimerGivesUp(i) PROVE Flows(i)
<1> DEFINE c == [conn[i] EXCEPT !.st = "CLOSED", !.stopped = FALSE]
           u == OnTick(c, {"TIMEDOUT"})
           w == AppCall(u, {})
           v == Gone(w)
           out == Reply(c, {"RST", "ACK"}, <<>>)
<1>1. ConnShape(conn[i]) /\ \A packet \in in_packet : Answered(packet.seg, Host(packet.from))
  BY Begins
<1>2. ConnShape(c) /\ c.app = conn[i].app /\ ~c.stopped /\ c.st = "CLOSED"
  BY <1>1 DEF ConnShape
<1>3. Done(i, v, out)
  BY DEF TimerGivesUp
<1> HIDE DEF c
<1>4. Moves(i, w) /\ Called(w, u) /\ Moves(i, u) /\ (c.app # NoSlot => Serves(Own(u))) /\ u.c = c /\ u.flags = {"TIMEDOUT"}
      /\ u.kept = in_packet /\ "kept" \in DOMAIN u
  <2>1. Moves(i, w) /\ Called(w, u)
    <3>1. "CONNECTED" \in {"TIMEDOUT"} => {"TIMEDOUT"} \intersect {"CLOSE", "TIMEDOUT"} = {}
      OBVIOUS
    <3>2. {} \in SUBSET Packets
      OBVIOUS
    <3> QED BY <1>2, <3>1, <3>2, AppCallMoves
  <2>2. Moves(i, u) /\ (c.app # NoSlot => Serves(Own(u))) /\ u.c = c /\ u.flags = {"TIMEDOUT"}
    BY <1>2, CallStarts
  <2>3. u.kept = in_packet /\ "kept" \in DOMAIN u
    BY OnTickIs
  <2> QED BY <2>1, <2>2, <2>3
<1>5. ~w.c.stopped /\ w.c.app = NoSlot
  <2>1. CASE c.app = NoSlot
    <3>1. w = u
      BY <1>2, <2>1, CallsNone
    <3> QED BY <1>2, <1>4, <2>1, <3>1
  <2>2. CASE c.app # NoSlot
    <3>1. Ready(u)
      BY <1>2, <1>4, <2>2 DEF Ready, Moves, ConnShape
    <3> HIDE DEF u
    <3> QED BY <1>2, <1>4, <3>1, TimedOutIs
  <2> QED BY <2>1, <2>2
<1>6. w.kept \subseteq in_packet
  BY <1>4, KeptIs
<1> HIDE DEF u
<1>7. Effect(w)
  BY <1>4 DEF Called
<1> HIDE DEF w
<1>8. Follows(v, w) /\ v.c = ClosedConn(NoSlot, w.c.lport)
  BY <1>5, <1>7, GoneIs
<1>9. Moves(i, v) /\ v.kept \subseteq in_packet
  BY <1>4, <1>6, <1>8, MovesFollows DEF Follows
<1>10. v.c.st = "CLOSED" /\ ~v.c.stopped /\ v.c.len = 0 /\ v.c.app = NoSlot
  BY <1>8, ClosedConnIs
<1>11. \A m \in out : Harmless(m)
  BY <1>2, ResetHarmless DEF Reply, ConnShape
<1> HIDE DEF v, out
<1> QED BY <1>1, <1>3, <1>9, <1>10, <1>11, ClosedFlows

(* A retransmission to an established connection offers the first block    *)
(* again.                                                                  *)
LEMMA RexmitIs ==
  ASSUME SlotInv, NEW i \in Conns, NEW c, ConnShape(c), c.app = conn[i].app, c.st = "ESTABLISHED", c.len > 0, InFlight(c, slot),
         NEW w, w = OnTick(c, {"REXMIT"}), NEW r, r = AppCall(w, {})
  PROVE  /\ Moves(i, r) /\ SameConn(r.c, c) /\ r.c.app = c.app /\ r.slot[c.app].out = slot[c.app].out /\ r.kept \subseteq in_packet
         /\ r.send # <<>> => r.send = Head(slot[c.app].out)
<1> DEFINE flags == {"REXMIT"}
<1>1. flags \intersect {"CLOSE", "TIMEDOUT"} = {} /\ "CONNECTED" \notin flags /\ "ACKDATA" \notin flags /\ {} \in SUBSET Packets
  OBVIOUS
<1>2. w \in {Call(c, flags), OnTick(c, flags)}
  OBVIOUS
<1> HIDE DEF flags
<1>3. Moves(i, r) /\ Called(r, w)
  BY <1>1, <1>2, AppCallMoves
<1>4. w.c = c /\ w.slot = slot /\ w.flags = flags /\ w.send = <<>>
  BY OnTickIs DEF flags
<1>5. r.kept \subseteq in_packet
  <2>1. "kept" \in DOMAIN w /\ w.kept = in_packet
    BY OnTickIs
  <2>2. r.kept \subseteq w.kept \union {}
    BY <2>1, KeptIs
  <2> QED BY <2>1, <2>2
<1>6. c.app # NoSlot /\ slot[c.app].out # <<>>
  BY DEF InFlight
<1>7. PICK s \in Conns : Fresh(r, w, s) \/ Has(r, w, s)
  BY <1>3, <1>4, <1>6 DEF Called, Nothing
<1>8. c.app = s /\ Outcome(r, w, s) /\ Own(w) = slot[s]
  BY <1>4, <1>6, <1>7 DEF Fresh, Has, Own
<1>9. Remaining(w) = slot[s].out
  BY <1>1, <1>4, <1>8 DEF Remaining
<1>10. r.slot[s].out = slot[s].out /\ (Offers(r, w, s) \/ Closes(r, w, s) \/ Waits(r, w, s))
  BY <1>1, <1>4, <1>8, <1>9 DEF Outcome, Drops
<1>11. r.c.app = s /\ (r.send # <<>> => r.send = Head(slot[s].out))
  BY <1>4, <1>6, <1>8, <1>9, <1>10 DEF Offers, Closes, Waits
<1>12. SameConn(r.c, c)
  BY <1>3, <1>4 DEF Called
<1> QED BY <1>3, <1>5, <1>8, <1>10, <1>11, <1>12

LEMMA TimerRetransmitsFlows ==
  ASSUME SlotInv, StreamInv, NEW i \in Conns, Used(conn[i]), TimerRetransmits(i) PROVE Flows(i)
<1> DEFINE c == [conn[i] EXCEPT !.nrtx = @ + 1]
           h == Host(conn[i].peer)
           w == OnTick(c, {})
           k == AppCall(OnTick(c, {"REXMIT"}), {})
<1>1. /\ ConnShape(conn[i]) /\ InFlight(conn[i], slot) /\ ConnOK(conn[i], slot, h) /\ HostOK(conn[i].peer, h) /\ HostShape(h)
      /\ conn[i].iss >= 1 /\ \A packet \in in_packet : Answered(packet.seg, Host(packet.from))
  BY Begins
<1>2. /\ ConnShape(c) /\ c.app = conn[i].app /\ c.st = conn[i].st /\ c.len = conn[i].len /\ c.peer = conn[i].peer
      /\ c.iss = conn[i].iss /\ c.snd = conn[i].snd /\ c.stopped = conn[i].stopped
  BY <1>1, CountedIs
<1>3. \/ Done(i, w, Reply(c, {"SYN", "ACK"}, <<>>))
      \/ c.st = "SYN_SENT" /\ Done(i, w, Reply(c, {"SYN"}, <<>>))
      \/ c.st = "ESTABLISHED" /\ Done(i, k, Output(k))
      \/ c.st \in Sent_Fin /\ FinAck(i, w)
      \/ Done(i, w, {})
  BY DEF TimerRetransmits, Sent_Fin
<1>4. conn[i].len > 0
  BY DEF TimerRetransmits, Outstanding
<1> HIDE DEF c, h
<1>5. ConnOK(c, slot, h) /\ Used(c) /\ InFlight(c, slot)
  <2>1. ConnOK(c, slot, h)
    BY <1>1, <1>2, ConnOKSame DEF Used
  <2> QED BY <1>1, <1>2, <2>1 DEF Used, InFlight
<1>6. w \in {Call(c, {}), OnTick(c, {})} /\ w.c = c
  BY OnTickIs
<1>7. ASSUME NEW out, Done(i, w, out), \A m \in out : SendGood(c, slot, h, m) PROVE Flows(i)
  <2> HIDE DEF w
  <2> QED BY <1>2, <1>5, <1>6, <1>7, PlainFlows DEF h
<1>8. CASE Done(i, w, Reply(c, {"SYN", "ACK"}, <<>>))
  BY <1>1, <1>2, <1>7, <1>8, BareGood
<1>9. CASE c.st = "SYN_SENT" /\ Done(i, w, Reply(c, {"SYN"}, <<>>))
  BY <1>2, <1>5, <1>7, <1>9, SynGood
<1>10. CASE c.st \in Sent_Fin /\ FinAck(i, w)
  <2>1. Done(i, w, Reply(c, {"FIN", "ACK"}, <<>>))
    BY <1>6, <1>10 DEF FinAck
  <2> QED BY <1>1, <1>2, <1>5, <1>7, <1>10, <2>1, FinGood
<1>11. CASE c.st = "ESTABLISHED" /\ Done(i, k, Output(k))
  <2>1. /\ Moves(i, k) /\ SameConn(k.c, c) /\ k.c.app = c.app /\ k.slot[c.app].out = slot[c.app].out /\ k.kept \subseteq in_packet
        /\ k.send # <<>> => k.send = Head(slot[c.app].out)
    BY <1>2, <1>4, <1>5, <1>11, RexmitIs
  <2> HIDE DEF k
  <2>2. Effect(k) /\ k.c.st = "ESTABLISHED" /\ k.c.peer = conn[i].peer /\ k.c.iss = conn[i].iss /\ k.c.len = c.len /\ k.c.snd = c.snd
    BY <1>2, <1>11, <2>1 DEF SameConn, Moves
  <2>3. ConnOK(k.c, k.slot, h) /\ Used(k.c)
    <3>1. Used(k.c)
      BY <2>2 DEF Used
    <3> QED BY <1>2, <1>5, <1>11, <2>1, <2>2, <3>1, ConnOKSame
  <2>4. c.app # NoSlot /\ slot[c.app].out # <<>> /\ c.len = Len(Head(slot[c.app].out))
    BY <1>2, <1>4, <1>5, <1>11 DEF InFlight
  <2>5. \A m \in Output(k) : SendGood(k.c, k.slot, h, m)
    BY <1>1, <2>1, <2>2, <2>3, <2>4, OutputGood
  <2>6. Yields(i, k, Output(k))
    BY <1>1, <2>1, <2>2, <2>3, <2>5 DEF Yields, h
  <2> QED BY <1>11, <2>1, <2>6, DoneFlows
<1>12. CASE Done(i, w, {})
  BY <1>7, <1>12
<1> QED BY <1>3, <1>8, <1>9, <1>10, <1>11, <1>12

LEMMA TimerPollsFlows == ASSUME SlotInv, StreamInv, NEW i \in Conns, Used(conn[i]), TimerPolls(i) PROVE Flows(i)
<1> DEFINE flags == {"POLL"}
           c == conn[i]
           h == Host(conn[i].peer)
           w == OnTick(c, flags)
           r == AppCall(w, {})
<1>1. /\ ConnShape(c) /\ InFlight(c, slot) /\ ConnOK(c, slot, h) /\ HostShape(h)
      /\ c.len = 0 /\ c.st = "ESTABLISHED"
  BY Begins DEF TimerPolls
<1>2. SyncedOK(c, slot, h) /\ Even(c, h)
  <2>1. SyncedOK(c, slot, h)
    BY <1>1 DEF ConnOK, Synced
  <2> QED BY <1>1, <2>1, EvenWhenAcked
<1>3. AppSend(i, r)
  BY DEF TimerPolls
<1>4. w \in {Call(c, flags), OnTick(c, flags)}
  OBVIOUS
<1>5. flags \intersect {"CLOSE", "TIMEDOUT"} = {} /\ "ACKDATA" \notin flags /\ "CONNECTED" \notin flags /\ {} \in SUBSET Packets
  OBVIOUS
<1>6. w.c = c /\ w.slot = slot /\ w.flags = flags
  BY OnTickIs
<1>7. Own(w) = slot[c.app]
  BY <1>6 DEF Own
<1> HIDE DEF w, flags
<1>8. c.app # NoSlot => Chain(Remaining(w), c.peer, c.snd, h.sent + 1)
  <2>1. Remaining(w) = slot[c.app].out
    BY <1>5, <1>6, <1>7 DEF Remaining
  <2> QED BY <1>2, <2>1 DEF SyncedOK
<1>9. ~Ended(h)
  BY <1>1, <1>2 DEF SyncedOK
<1>10. c.app = conn[i].app /\ c.peer = conn[i].peer /\ c.iss = conn[i].iss /\ h = Host(conn[i].peer)
  OBVIOUS
<1>11. c.len > 0 => ConnOK(c, slot, h)
  BY <1>1
<1>12. \A packet \in {} : Answered(packet.seg, Host(packet.from))
  OBVIOUS
<1> HIDE DEF c, h
<1> QED BY <1>1, <1>2, <1>3, <1>4, <1>5, <1>8, <1>9, <1>10, <1>11, <1>12, AppSendFlows

(***************************************************************************)
(* uip_process(UIP_DATA)                                                   *)
(***************************************************************************)
(* After an acknowledgement, or with nothing outstanding anyway.           *)
LEMMA EvenNow ==
  ASSUME SlotInv, StreamInv, NEW i \in Conns, Synced(conn[i]), NEW h, h = Host(conn[i].peer),
         NEW m \in SegRec, Answered(m, h), NEW a, a = AfterAck(conn[i], m), a.len = 0,
         NEW d, d.iss = conn[i].iss, d.snd = a.snd, d.peer = conn[i].peer
  PROVE  Even(d, h)
<1>1. Used(conn[i])
  BY DEF Synced, Used, Sent_Fin, Fin_Acked
<1>2. ConnShape(conn[i]) /\ ConnOK(conn[i], slot, h) /\ HostShape(h)
  BY <1>1, Begins
<1>3. a.snd = (IF Acks(conn[i], m) THEN conn[i].snd + conn[i].len ELSE conn[i].snd)
      /\ a.len = (IF Acks(conn[i], m) THEN 0 ELSE conn[i].len)
  BY <1>2, AfterAckIs
<1>4. CASE Acks(conn[i], m)
  BY <1>2, <1>3, <1>4, EvenAfterAck
<1>5. CASE ~Acks(conn[i], m)
  <2>1. SyncedOK(conn[i], slot, h) /\ conn[i].len = 0
    BY <1>2, <1>3, <1>5 DEF ConnOK
  <2>2. Even(conn[i], h)
    BY <1>2, <2>1, EvenWhenAcked
  <2> QED BY <1>3, <1>5, <2>2 DEF Even
<1> QED BY <1>4, <1>5

LEMMA OutOfOrderFlows ==
  ASSUME SlotInv, StreamInv, NEW i \in Conns, Used(conn[i]), NEW m, OutOfOrder(i, m) PROVE Flows(i)
<1> DEFINE h == Host(conn[i].peer)
           out == Reply(conn[i], {"ACK"}, <<>>)
           w == Call(conn[i], {})
<1>1. ConnShape(conn[i]) /\ ConnOK(conn[i], slot, h) /\ conn[i].iss >= 1
  BY Begins
<1>2. Done(i, w, out) /\ w \in {Call(conn[i], {}), OnTick(conn[i], {})}
  BY DEF OutOfOrder
<1>3. \A n \in out : SendGood(conn[i], slot, h, n)
  BY <1>1, BareGood
<1> HIDE DEF out, w
<1> QED BY <1>1, <1>2, <1>3, PlainFlows

(* Nothing happens to the connection.                                      *)
LEMMA StillFlows ==
  ASSUME SlotInv, StreamInv, NEW i \in Conns, Used(conn[i]), Done(i, Call(conn[i], {}), {}) PROVE Flows(i)
<1> DEFINE w == Call(conn[i], {})
<1>1. ConnShape(conn[i]) /\ ConnOK(conn[i], slot, Host(conn[i].peer))
  BY Begins
<1>2. Done(i, w, {}) /\ w \in {Call(conn[i], {}), OnTick(conn[i], {})}
  OBVIOUS
<1> HIDE DEF w
<1> QED BY <1>1, <1>2, PlainFlows

LEMMA MadeIs ==
  ASSUME SlotInv, StreamInv, NEW i \in Conns, conn[i].st \in Half, NEW h, h = Host(conn[i].peer),
         NEW m \in SegRec, Answered(m, h), Acks(conn[i], m),
         NEW d, d.iss = conn[i].iss, d.snd = AfterAck(conn[i], m).snd, d.peer = conn[i].peer
  PROVE  Even(d, h) /\ d.snd = h.sent + 1 /\ ~Ended(h) /\ conn[i].app = NoSlot
<1>1. Used(conn[i]) /\ conn[i].st # "ESTABLISHED"
  BY DEF Used, Half
<1>2. /\ ConnShape(conn[i]) /\ ConnOK(conn[i], slot, h) /\ HostShape(h) /\ HostOK(conn[i].peer, h) /\ conn[i].iss >= 1
      /\ conn[i].app = NoSlot
  BY <1>1, Begins
<1>3. d.snd = conn[i].snd + conn[i].len
  BY <1>2, AfterAckIs
<1>4. Even(d, h) /\ h.sent = 0 /\ d.snd = 1
  BY <1>2, <1>3, EvenAfterAck
<1>5. h.rcv = 1 /\ h.conn # 0
  BY <1>2, <1>4 DEF Even, ConnShape
<1>6. Len(h.got) \in Nat /\ Len(h.got) <= 0
  BY <1>2, <1>4 DEF HostShape, Block, HostOK
<1> QED BY <1>2, <1>4, <1>5, <1>6 DEF Ended

LEMMA InSynRcvdFlows ==
  ASSUME SlotInv, StreamInv, NEW i \in Conns, Used(conn[i]), NEW p \in Peers, p = conn[i].peer, NEW m \in SegRec,
         Answered(m, Host(p)), InSynRcvd(i, p, m)
  PROVE  Flows(i)
<1> DEFINE b == AfterAck(conn[i], m)
           a == Advanced(b, Len(m.data))
           c == [a EXCEPT !.st = "ESTABLISHED"]
           flags == {"CONNECTED"} \union DataFlag(m)
           w == Call(c, flags)
           new == Packet(p, m)
           r == AppCall(w, new)
           h == Host(conn[i].peer)
<1>1. CASE ~Acks(conn[i], m)
  <2>1. Done(i, Call(conn[i], {}), {})
    BY <1>1 DEF InSynRcvd
  <2> QED BY <2>1, StillFlows
<1>2. CASE Acks(conn[i], m)
  <2>1. AppSend(i, r) /\ conn[i].st \in Half
    BY <1>2 DEF InSynRcvd, Half
  <2>2. /\ ConnShape(b) /\ b.app = conn[i].app /\ b.len = 0 /\ b.peer = conn[i].peer
        /\ b.iss = conn[i].iss
    BY <1>2, ConnIs, AfterAckIs
  <2>3. ConnShape(a) /\ a.app = conn[i].app /\ a.len = 0 /\ a.snd = b.snd /\ a.peer = conn[i].peer /\ a.iss = conn[i].iss
    BY <2>2, AdvancedIs, PacketType
  <2> HIDE DEF a
  <2>4. /\ ConnShape(c) /\ c.app = conn[i].app /\ c.len = 0 /\ c.st = "ESTABLISHED" /\ c.snd = b.snd
        /\ c.peer = conn[i].peer /\ c.iss = conn[i].iss
    BY <2>3 DEF ConnShape
  <2>5. /\ flags \intersect {"CLOSE", "TIMEDOUT"} = {} /\ "ACKDATA" \notin flags
        /\ flags \intersect {"POLL", "REXMIT"} = {} /\ new \in SUBSET Packets
    BY PacketType DEF DataFlag
  <2>6. \A packet \in new : Answered(packet.seg, Host(packet.from))
    BY DEF Packet
  <2>7. h = Host(conn[i].peer) /\ w \in {Call(c, flags), OnTick(c, flags)} /\ r = AppCall(w, new)
    OBVIOUS
  <2> HIDE DEF c, h, w, new, r, flags
  <2>8. InFlight(c, slot)
    BY <2>4 DEF InFlight
  <2>9. Even(c, h) /\ c.snd = h.sent + 1 /\ ~Ended(h) /\ conn[i].app = NoSlot
    BY <1>2, <2>1, <2>4, <2>7, MadeIs
  <2> HIDE DEF b
  <2> QED BY <2>1, <2>4, <2>5, <2>6, <2>7, <2>8, <2>9, AppSendFlows
<1> QED BY <1>1, <1>2

LEMMA InSynSentFlows ==
  ASSUME SlotInv, StreamInv, NEW i \in Conns, Used(conn[i]), NEW m \in SegRec, Answered(m, Host(conn[i].peer)), InSynSent(i, m)
  PROVE  Flows(i)
<1> DEFINE a == AfterAck(conn[i], m)
           c == [a EXCEPT !.st = "ESTABLISHED", !.rcv = m.seq + 1]
           flags == {"CONNECTED", "NEWDATA"}
           w == Call(c, flags)
           r == AppCall(w, {})
           h == Host(conn[i].peer)
<1>1. AppSend(i, r) /\ Acks(conn[i], m) /\ conn[i].st \in Half
  BY DEF InSynSent, Half
<1>2. ConnShape(a) /\ a.app = conn[i].app /\ a.len = 0 /\ a.peer = conn[i].peer /\ a.iss = conn[i].iss
  BY <1>1, ConnIs, AfterAckIs
<1>3. /\ ConnShape(c) /\ c.app = conn[i].app /\ c.len = 0 /\ c.st = "ESTABLISHED" /\ c.snd = a.snd
      /\ c.peer = conn[i].peer /\ c.iss = conn[i].iss
  <2> HIDE DEF a
  <2> QED BY <1>2 DEF ConnShape, SegRec
<1>4. /\ flags \intersect {"CLOSE", "TIMEDOUT"} = {} /\ "ACKDATA" \notin flags
      /\ flags \intersect {"POLL", "REXMIT"} = {} /\ {} \in SUBSET Packets
  OBVIOUS
<1>5. h = Host(conn[i].peer) /\ w \in {Call(c, flags), OnTick(c, flags)} /\ r = AppCall(w, {})
  OBVIOUS
<1> HIDE DEF c, h, w, r, flags
<1>6. InFlight(c, slot)
  BY <1>3 DEF InFlight
<1>7. Even(c, h) /\ c.snd = h.sent + 1 /\ ~Ended(h) /\ conn[i].app = NoSlot
  BY <1>1, <1>3, <1>5, MadeIs
<1> HIDE DEF a
<1>8. \A packet \in {} : Answered(packet.seg, Host(packet.from))
  OBVIOUS
<1> QED BY <1>1, <1>3, <1>4, <1>5, <1>6, <1>7, <1>8, AppSendFlows

LEMMA RstToIs ==
  ASSUME NEW p \in Peers, NEW m \in SegRec, RstTo(p, m)
  PROVE  \E out : Reaches(p, out) /\ \A n \in out : Harmless(n)
<1> DEFINE rst == Segment(m.conn, {"RST", "ACK"}, m.ack, <<>>, m.seq + 1)
<1>1. Harmless(rst)
  BY ResetHarmless DEF SegRec
<1>2. PICK under \in Sent(toPeer[p], rst) : toPeer' = [toPeer EXCEPT ![p] = under] \/ toPeer' = toPeer
  BY DEF RstTo
<1> HIDE DEF rst
<1>3. Reaches(p, {rst})
  BY <1>2 DEF Reaches
<1> QED BY <1>1, <1>3

LEMMA InSynSentOtherFlows ==
  ASSUME SlotInv, StreamInv, NEW i \in Conns, Used(conn[i]), NEW p \in Peers, p = conn[i].peer, NEW m \in SegRec,
         InSynSentOther(i, p, m)
  PROVE  Flows(i)
<1> DEFINE c == AfterAck(conn[i], m)
           u == Call(c, {"ABORT"})
           w == AppCall(u, {})
           d == ClosedConn(w.c.app, w.c.lport)
           v == [w EXCEPT !.c = d]
<1>1. /\ conn' = [conn EXCEPT ![i] = d] /\ slot' = w.slot /\ free' = w.free
      /\ in_packet' = {} /\ RstTo(p, m) /\ conn[i].st # "ESTABLISHED"
  BY DEF InSynSentOther
<1>2. ConnShape(c) /\ c.app = conn[i].app /\ c.app = NoSlot
  BY <1>1, ConnIs, AfterAckIs, Begins
<1> HIDE DEF c
<1>3. w = u /\ Moves(i, u) /\ u.c = c /\ u.kept = {}
  <2>1. w = u
    BY <1>2, CallsNone
  <2>2. Moves(i, u)
    BY <1>2, CallStarts
  <2>3. u.c = c /\ u.kept = {}
    BY CallIs
  <2> QED BY <2>1, <2>2, <2>3
<1> HIDE DEF u, w
<1>4. ConnShape(d) /\ d.app = w.c.app /\ d.st = "CLOSED" /\ ~d.stopped /\ d.len = 0 /\ d.app = NoSlot
  BY <1>2, <1>3, ClosedConnIs
<1> HIDE DEF d
<1>5. Effect(w)
  BY <1>3 DEF Moves
<1>6. Follows(v, w) /\ v.c = d
  BY <1>4, <1>5, WithConn
<1> HIDE DEF v
<1>7. Moves(i, v) /\ Adopts(i, v) /\ v.kept = {}
  <2>1. Moves(i, v)
    BY <1>3, <1>6, MovesFollows
  <2> QED BY <1>1, <1>3, <1>6, <2>1 DEF Follows, Adopts
<1>8. PICK out : Reaches(p, out) /\ \A n \in out : Harmless(n)
  BY <1>1, RstToIs
<1>9. ConnOK(v.c, v.slot, Host(conn[i].peer)) /\ ~Used(v.c)
  BY <1>4, <1>6, UnusedOK DEF Used
<1>10. Yields(i, v, out)
  BY <1>7, <1>8, <1>9 DEF Yields
<1> QED BY <1>7, <1>8, <1>10 DEF Flows

LEMMA InEstablishedFinFlows ==
  ASSUME SlotInv, StreamInv, NEW i \in Conns, Used(conn[i]), NEW p \in Peers, p = conn[i].peer, NEW m \in SegRec,
         Answered(m, Host(p)), InEstablishedFin(i, p, m)
  PROVE  Flows(i)
<1> DEFINE b == AfterAck(conn[i], m)
           n == 1 + Len(m.data)
           c == Advanced(b, n)
           flags == {"CLOSE"} \union AckFlag(conn[i], m) \union DataFlag(m)
           new == Packet(p, m)
           u == Call(c, flags)
           w == AppCall(u, new)
           v == Finned(w, "LAST_ACK")
           out == Reply(v.c, {"FIN", "ACK"}, <<>>)
           h == Host(conn[i].peer)
<1>1. CASE b.len > 0
  <2>1. Done(i, Call(conn[i], {}), {})
    BY <1>1 DEF InEstablishedFin
  <2> QED BY <2>1, StillFlows
<1>2. CASE ~(b.len > 0)
  <2>1. FinAck(i, v) /\ conn[i].st = "ESTABLISHED"
    BY <1>2 DEF InEstablishedFin, Finned
  <2>2. /\ ConnShape(conn[i]) /\ ConnOK(conn[i], slot, h) /\ HostOK(conn[i].peer, h) /\ HostShape(h)
        /\ UsedOK(conn[i], h) /\ \A packet \in in_packet : Answered(packet.seg, Host(packet.from))
    BY Begins
  <2>3. ConnShape(b) /\ b.app = conn[i].app /\ b.peer = conn[i].peer /\ b.iss = conn[i].iss /\ b.len \in Nat
    <3>1. ConnShape(b) /\ b.app = conn[i].app /\ b.peer = conn[i].peer /\ b.iss = conn[i].iss
      BY <2>2, AfterAckIs
    <3> HIDE DEF b
    <3> QED BY <3>1 DEF ConnShape
  <2>4. b.len = 0
    BY <1>2, <2>3
  <2>5. n \in Nat /\ new \in SUBSET Packets /\ \A packet \in new : Answered(packet.seg, Host(packet.from))
    <3>1. n \in Nat /\ new \in SUBSET Packets
      BY PacketType
    <3>2. \A packet \in new : packet.from = p /\ packet.seg = m
      BY DEF Packet
    <3> QED BY <3>1, <3>2
  <2> HIDE DEF n, new
  <2>6. /\ ConnShape(c) /\ c.app = conn[i].app /\ c.snd = b.snd /\ c.peer = conn[i].peer /\ c.iss = conn[i].iss
    BY <2>3, <2>5, AdvancedIs
  <2>7. "CONNECTED" \notin flags /\ "CLOSE" \in flags
    BY DEF AckFlag, DataFlag
  <2>8. Synced(conn[i]) /\ ~Ended(h) /\ h = Host(conn[i].peer) /\ u \in {Call(c, flags), OnTick(c, flags)}
    BY <2>1, <2>2 DEF Synced, ConnOK, SyncedOK
  <2>9. b = AfterAck(conn[i], m)
    OBVIOUS
  <2> HIDE DEF c, h, flags, b
  <2>10. Even(c, h)
    BY <2>4, <2>6, <2>8, <2>9, EvenNow
  <2>11. u.c = c /\ u.flags = flags /\ u.kept = {} /\ "kept" \in DOMAIN u
    BY CallIs
  <2> HIDE DEF u
  <2>12. Moves(i, w) /\ Called(w, u)
    BY <2>5, <2>6, <2>7, <2>8, AppCallMoves
  <2>13. w.kept \subseteq new
    <3>1. w.kept \subseteq u.kept \union new
      BY <2>11, KeptIs
    <3> QED BY <2>11, <3>1
  <2> HIDE DEF w
  <2>14. w.c.app = NoSlot /\ SameConn(w.c, c) /\ Effect(w)
    <3>1. \A s \in Conns : s # NoSlot
      BY SlotAssumption DEF NoSlot
    <3>2. \A s : Outcome(w, u, s) => w.c.app = NoSlot
      BY <2>7, <2>11 DEF Outcome, Drops
    <3>3. w.c.app = NoSlot
      BY <2>7, <2>11, <2>12, <3>1, <3>2 DEF Called, Nothing, Fresh, Has
    <3> QED BY <2>11, <2>12, <3>3 DEF Called
  <2>15. /\ Follows(v, w) /\ ConnShape(v.c) /\ v.c.st = "LAST_ACK" /\ v.c.peer = conn[i].peer /\ v.c.iss = conn[i].iss
         /\ v.c.snd = c.snd /\ v.c.len = 1
    BY <2>6, <2>14, FinnedIs DEF SameConn
  <2> HIDE DEF v
  <2>16. Done(i, v, out)
    BY <2>1 DEF FinAck
  <2>17. /\ Even(v.c, h) /\ UsedOK(v.c, h) /\ Synced(v.c) /\ Used(v.c) /\ v.c.st \in Sent_Fin /\ v.c.st \notin Fin_Acked
         /\ v.c.st \notin Ending /\ v.c.app = NoSlot
    BY <2>2, <2>6, <2>10, <2>14, <2>15 DEF Even, UsedOK, Synced, Used, Sent_Fin, Fin_Acked, Ending, Follows
  <2>18. ConnOK(v.c, v.slot, h)
    BY <2>2, <2>8, <2>15, <2>17, EvenOK
  <2>19. \A x \in out : SendGood(v.c, v.slot, h, x)
    BY <2>2, <2>15, <2>17, <2>18, FinGood
  <2> HIDE DEF out
  <2>20. Yields(i, v, out)
    BY <2>5, <2>13, <2>15, <2>17, <2>18, <2>19 DEF Yields, Follows, h
  <2>21. Moves(i, v)
    BY <2>12, <2>15, MovesFollows
  <2> QED BY <2>16, <2>20, <2>21, DoneFlows
<1> QED BY <1>1, <1>2

(* The slot after an acknowledgement has eaten its first block.            *)
LEMMA EatenChain ==
  ASSUME SlotInv, StreamInv, NEW i \in Conns, conn[i].st = "ESTABLISHED", NEW h, h = Host(conn[i].peer), NEW m,
         NEW w, w.slot = slot, w.c.app = conn[i].app, "ACKDATA" \in w.flags <=> Acks(conn[i], m), conn[i].app # NoSlot,
         AfterAck(conn[i], m).len = 0
  PROVE  Chain(Remaining(w), conn[i].peer, AfterAck(conn[i], m).snd, h.sent + 1)
<1> DEFINE c == conn[i]
           out == slot[c.app].out
<1>1. Used(c)
  BY DEF Used
<1>2. ConnShape(c) /\ InFlight(c, slot) /\ ConnOK(c, slot, h) /\ HostShape(h)
  BY <1>1, Begins
<1>3. Chain(out, c.peer, c.snd, h.sent + 1)
  BY <1>2 DEF ConnOK, SyncedOK, Synced
<1>4. AfterAck(c, m).snd = (IF Acks(c, m) THEN c.snd + c.len ELSE c.snd)
  BY <1>2, AfterAckIs
<1>5. Own(w).out = out
  BY DEF Own
<1>6. CASE ~Acks(c, m)
  <2>1. Remaining(w) = out
    BY <1>5, <1>6 DEF Remaining
  <2> HIDE DEF out, c
  <2> QED BY <1>3, <1>4, <1>6, <2>1 DEF c
<1>7. CASE Acks(c, m)
  <2>1. c.len > 0
    BY <1>7 DEF Acks
  <2>2. out # <<>> /\ c.len = Len(Head(out))
    BY <1>2, <2>1 DEF InFlight
  <2>3. Remaining(w) = Tail(out)
    BY <1>5, <1>7, <2>2 DEF Remaining
  <2>4. c.app \in Conns
    BY <1>2 DEF ConnShape
  <2>5. out \in Seq(Block) /\ Filled(out)
    BY <2>4 DEF SlotInv, UipTypes, SlotOK, SlotShape
  <2>7. c.snd \in Nat /\ h.sent + 1 \in Nat
    BY <1>2 DEF ConnShape, HostShape
  <2> HIDE DEF out, c
  <2>6. Chain(Tail(out), c.peer, c.snd + Len(Head(out)), h.sent + 1)
    BY <1>3, <2>2, <2>5, <2>7, ChainTail
  <2> QED BY <1>4, <1>7, <2>2, <2>3, <2>6 DEF c
<1> QED BY <1>6, <1>7

LEMMA InEstablishedFlows ==
  ASSUME SlotInv, StreamInv, NEW i \in Conns, Used(conn[i]), NEW p \in Peers, p = conn[i].peer, NEW m \in SegRec,
         Answered(m, Host(p)), InEstablished(i, p, m)
  PROVE  Flows(i)
<1> DEFINE new == IF conn[i].stopped THEN {} ELSE Packet(p, m)
           n == IF new = {} THEN 0 ELSE Len(m.data)
           a == AfterAck(conn[i], m)
           c == Advanced(a, n)
           flags == AckFlag(conn[i], m) \union (IF new = {} THEN {} ELSE {"NEWDATA"})
           w == Call(c, flags)
           r == AppCall(w, new)
           h == Host(conn[i].peer)
<1>1. conn[i].st = "ESTABLISHED" /\ IF flags = {} THEN Done(i, Call(c, {}), {}) ELSE AppSend(i, r)
  BY DEF InEstablished
<1>2. new \in SUBSET Packets /\ n \in Nat /\ \A packet \in new : Answered(packet.seg, Host(packet.from))
  <2>1. new \in SUBSET Packets /\ n \in Nat
    BY PacketType
  <2>2. \A packet \in new : packet.from = p /\ packet.seg = m
    BY DEF Packet
  <2> QED BY <2>1, <2>2
<1>3. /\ ConnShape(conn[i]) /\ InFlight(conn[i], slot) /\ ConnOK(conn[i], slot, h)
  BY Begins
<1>4. /\ ConnShape(a) /\ a.app = conn[i].app /\ a.st = "ESTABLISHED" /\ a.peer = conn[i].peer /\ a.iss = conn[i].iss
      /\ a.len = (IF Acks(conn[i], m) THEN 0 ELSE conn[i].len) /\ (~Acks(conn[i], m) => a.snd = conn[i].snd)
  BY <1>1, <1>3, AfterAckIs
<1>5. "ACKDATA" \in flags <=> Acks(conn[i], m)
  BY DEF AckFlag
<1>6. flags \intersect {"CLOSE", "TIMEDOUT"} = {} /\ flags \intersect {"POLL", "REXMIT"} = {} /\ "CONNECTED" \notin flags
  BY DEF AckFlag
<1>7. a = AfterAck(conn[i], m)
  OBVIOUS
<1> HIDE DEF a, n
<1>8. /\ ConnShape(c) /\ c.app = conn[i].app /\ c.st = "ESTABLISHED" /\ c.len = a.len /\ c.snd = a.snd
      /\ c.peer = conn[i].peer /\ c.iss = conn[i].iss
  BY <1>2, <1>4, AdvancedIs
<1> HIDE DEF c
<1>9. InFlight(c, slot) /\ (~Acks(conn[i], m) => ConnOK(c, slot, h)) /\ Used(c)
  <2>1. Used(c)
    BY <1>8 DEF Used
  <2>2. ~Acks(conn[i], m) => ConnOK(c, slot, h)
    BY <1>1, <1>3, <1>4, <1>8, <2>1, ConnOKSame
  <2> QED BY <1>1, <1>3, <1>4, <1>8, <2>1, <2>2 DEF InFlight
<1>10. w \in {Call(c, flags), OnTick(c, flags)} /\ ("ACKDATA" \in flags => c.len = 0) /\ r = AppCall(w, new)
  BY <1>4, <1>5, <1>8
<1>11. h = Host(conn[i].peer) /\ ~Ended(h) /\ Synced(conn[i])
  BY <1>1, <1>3 DEF ConnOK, SyncedOK, Synced
<1>12. w.c = c /\ w.slot = slot /\ w.flags = flags
  BY CallIs
<1> HIDE DEF flags, w, new, h, r
<1>13. CASE flags = {}
  <2> DEFINE u == Call(c, {})
  <2>1. Done(i, u, {}) /\ u \in {Call(c, {}), OnTick(c, {})} /\ ConnOK(c, slot, h)
    BY <1>1, <1>5, <1>9, <1>13
  <2> HIDE DEF u
  <2> QED BY <1>8, <1>11, <2>1, PlainFlows
<1>14. CASE flags # {}
  <2>1. c.len > 0 => ConnOK(c, slot, h)
    BY <1>4, <1>8, <1>9
  <2>2. c.len = 0 => Even(c, h)
    BY <1>7, <1>8, <1>11, EvenNow
  <2>3. c.len = 0 /\ c.app # NoSlot => Chain(Remaining(w), c.peer, c.snd, h.sent + 1)
    BY <1>1, <1>5, <1>7, <1>8, <1>11, <1>12, EatenChain
  <2>4. AppSend(i, r)
    BY <1>1, <1>14
  <2> QED BY <1>2, <1>6, <1>8, <1>9, <1>10, <1>11, <2>1, <2>2, <2>3, <2>4, AppSendFlows
<1> QED BY <1>13, <1>14

LEMMA InLastAckFlows ==
  ASSUME SlotInv, StreamInv, NEW i \in Conns, Used(conn[i]), NEW m, InLastAck(i, m) PROVE Flows(i)
<1>1. CASE ~Acks(conn[i], m)
  <2>1. Done(i, Call(conn[i], {}), {})
    BY <1>1 DEF InLastAck
  <2> QED BY <2>1, StillFlows
<1>2. CASE Acks(conn[i], m)
  <2> DEFINE c == [conn[i] EXCEPT !.st = "CLOSED", !.stopped = FALSE]
             flags == {"CLOSE"}
             u == Call(c, flags)
             w == AppCall(u, {})
             v == Gone(w)
  <2>1. ConnShape(conn[i]) /\ conn[i].app = NoSlot
    BY Begins DEF InLastAck
  <2>2. ConnShape(c) /\ c.app = conn[i].app /\ c.app = NoSlot /\ c.st = "CLOSED" /\ ~c.stopped
    BY <2>1 DEF ConnShape
  <2>3. Done(i, v, {})
    BY <1>2 DEF InLastAck
  <2>4. "CONNECTED" \notin flags /\ u \in {Call(c, flags), OnTick(c, flags)}
    OBVIOUS
  <2> HIDE DEF c, flags
  <2>5. u.c = c /\ u.kept = {}
    BY CallIs
  <2> HIDE DEF u
  <2>6. w = u
    BY <2>2, <2>4, CallsNone
  <2> HIDE DEF w
  <2>7. Moves(i, u)
    <3> DEFINE x == u
    <3>1. ConnShape(c) /\ c.app = conn[i].app /\ x \in {Call(c, flags), OnTick(c, flags)}
      BY <2>2, <2>4
    <3> QED BY <3>1, CallStarts
  <2>8. Effect(w)
    BY <2>6, <2>7 DEF Moves
  <2>9. Follows(v, w) /\ v.c = ClosedConn(NoSlot, w.c.lport)
    BY <2>2, <2>5, <2>6, <2>8, GoneIs
  <2>10. v.c.st = "CLOSED" /\ ~v.c.stopped /\ v.c.len = 0 /\ v.c.app = NoSlot
    BY <2>9, ClosedConnIs
  <2> HIDE DEF v
  <2>11. Moves(i, v) /\ v.kept = {}
    BY <2>5, <2>6, <2>7, <2>9, MovesFollows DEF Follows
  <2> QED BY <2>3, <2>10, <2>11, ClosedFlows
<1> QED BY <1>1, <1>2

(* Our FIN is not acknowledged yet: only the state changes.                *)
LEMMA StillEnding ==
  ASSUME NEW c, NEW slots, NEW h, ConnOK(c, slots, h), c.st \in {"FIN_WAIT_1", "CLOSING"}, NEW d,
         d.st \in {"FIN_WAIT_1", "CLOSING"}, d.peer = c.peer, d.iss = c.iss, d.snd = c.snd, d.len = c.len, d.app = c.app,
         c.app = NoSlot
  PROVE  ConnOK(d, slots, h)
<1>1. SyncedOK(c, slots, h) /\ UsedOK(c, h)
  BY DEF ConnOK, Used, Synced, Sent_Fin
<1>2. \A m : Payload(c, m, slots) => Payload(d, m, slots)
  BY DEF Payload
<1>3. SyncedOK(d, slots, h)
  BY <1>1, <1>2 DEF SyncedOK, Sent_Fin, Ending, Fin_Acked
<1>4. UsedOK(d, h)
  BY <1>1 DEF UsedOK
<1>5. Used(d) /\ d.st \notin Half
  BY DEF Used, Half
<1> QED BY <1>3, <1>4, <1>5 DEF ConnOK

(* Our FIN is acknowledged.                                                *)
LEMMA FinAcked ==
  ASSUME SlotInv, StreamInv, NEW i \in Conns, conn[i].st \in {"FIN_WAIT_1", "FIN_WAIT_2", "CLOSING"}, NEW h, h = Host(conn[i].peer),
         NEW m \in SegRec, Answered(m, h), NEW a, a = AfterAck(conn[i], m), a.len = 0,
         NEW d, ConnShape(d), d.st \in Fin_Acked, d.peer = conn[i].peer, d.iss = conn[i].iss, d.snd = a.snd, d.len = 0, d.app = NoSlot
  PROVE  ConnOK(d, slot, h)
<1>1. Synced(conn[i]) /\ conn[i].st \in Ending /\ Used(conn[i])
  BY DEF Synced, Sent_Fin, Fin_Acked, Ending, Used
<1>2. ConnOK(conn[i], slot, h) /\ HostShape(h)
  BY <1>1, Begins
<1>3. Even(d, h)
  BY <1>1, EvenNow
<1>4. Len(h.got) = h.sent /\ UsedOK(d, h)
  BY <1>1, <1>2 DEF ConnOK, SyncedOK, UsedOK
<1>5. Synced(d) /\ d.st \notin Sent_Fin /\ d.st # "ESTABLISHED"
  BY DEF Synced, Sent_Fin, Fin_Acked
<1> QED BY <1>2, <1>3, <1>4, <1>5, EvenOK

LEMMA InFinWaitFlows ==
  ASSUME SlotInv, StreamInv, NEW i \in Conns, Used(conn[i]), NEW m \in SegRec, Answered(m, Host(conn[i].peer)), InFinWait(i, m)
  PROVE  Flows(i)
<1> DEFINE acked == conn[i].st = "FIN_WAIT_2" \/ Acks(conn[i], m)
           fin == "FIN" \in m.flags
           n == Len(m.data) + (IF fin THEN 1 ELSE 0)
           b == AfterAck(conn[i], m)
           a == Advanced(b, n)
           c == [a EXCEPT !.st = IF fin THEN IF acked THEN "TIME_WAIT" ELSE "CLOSING"
                                 ELSE IF acked THEN "FIN_WAIT_2" ELSE @]
           w == IF fin THEN AppCall(Call(c, {"CLOSE"}), {}) ELSE Call(c, {})
           out == IF ~fin /\ (m.data = <<>> \/ (conn[i].st = "FIN_WAIT_1" /\ acked)) THEN {} ELSE Reply(c, {"ACK"}, <<>>)
           h == Host(conn[i].peer)
<1>1. conn[i].st \in {"FIN_WAIT_1", "FIN_WAIT_2"} /\ Done(i, w, out)
  BY DEF InFinWait
<1>2. n \in Nat
  <2>1. Len(m.data) \in Nat
    BY PacketType
  <2>2. \A x, y \in Nat : x + y \in Nat
    OBVIOUS
  <2>3. (IF fin THEN 1 ELSE 0) \in Nat
    OBVIOUS
  <2> QED BY <2>1, <2>2, <2>3, Zenon DEF n
<1>3. ConnShape(conn[i]) /\ ConnOK(conn[i], slot, h) /\ conn[i].app = NoSlot /\ conn[i].iss >= 1
  BY <1>1, Begins
<1>4. /\ ConnShape(b) /\ b.app = conn[i].app /\ b.st = conn[i].st /\ b.peer = conn[i].peer /\ b.iss = conn[i].iss
      /\ b.len = (IF Acks(conn[i], m) THEN 0 ELSE conn[i].len) /\ (~Acks(conn[i], m) => b.snd = conn[i].snd)
  BY <1>3, AfterAckIs
<1> HIDE DEF n
<1>5. /\ ConnShape(a) /\ a.app = conn[i].app /\ a.st = conn[i].st /\ a.snd = b.snd /\ a.len = b.len
      /\ a.peer = conn[i].peer /\ a.iss = conn[i].iss
  BY <1>2, <1>4, AdvancedIs
<1> HIDE DEF a
<1>6. /\ ConnShape(c) /\ c.app = conn[i].app /\ c.peer = conn[i].peer /\ c.iss = conn[i].iss /\ c.snd = b.snd /\ c.len = b.len
      /\ acked => c.st \in Fin_Acked
      /\ ~acked => c.st \in {"FIN_WAIT_1", "CLOSING"}
  BY <1>1, <1>5 DEF ConnShape, Fin_Acked
<1>7. ~acked => conn[i].st = "FIN_WAIT_1" /\ ~Acks(conn[i], m)
  BY <1>1
<1>8. acked => b.len = 0
  <2>1. CASE conn[i].st = "FIN_WAIT_2"
    BY <1>3, <1>4, <2>1 DEF ConnOK, SyncedOK, Synced, Fin_Acked
  <2>2. CASE Acks(conn[i], m)
    BY <1>4, <2>2
  <2> QED BY <2>1, <2>2
<1>9. b = AfterAck(conn[i], m) /\ h = Host(conn[i].peer)
  OBVIOUS
<1> HIDE DEF c, acked, b, h
<1>10. ConnOK(c, slot, h)
  <2>1. CASE acked
    BY <1>1, <1>3, <1>6, <1>8, <1>9, <2>1, FinAcked
  <2>2. CASE ~acked
    BY <1>3, <1>4, <1>6, <1>7, <2>2, StillEnding
  <2> QED BY <2>1, <2>2
<1>11. Used(c)
  BY <1>6 DEF Used, Fin_Acked
<1>12. \A x \in out : SendGood(c, slot, h, x)
  BY <1>3, <1>6, BareGood
<1> HIDE DEF out
<1>13. \E flags : w \in {Call(c, flags), OnTick(c, flags)}
  <2>1. CASE fin
    <3> DEFINE flags == {"CLOSE"}
               u == Call(c, flags)
    <3>1. "CONNECTED" \notin flags /\ u \in {Call(c, flags), OnTick(c, flags)} /\ w = AppCall(u, {})
      BY <2>1
    <3> HIDE DEF u, flags, w
    <3>2. AppCall(u, {}) = u
      BY <1>3, <1>6, <3>1, CallsNone
    <3> QED BY <3>1, <3>2
  <2>2. CASE ~fin
    BY <2>2
  <2> QED BY <2>1, <2>2
<1> HIDE DEF w
<1> QED BY <1>1, <1>6, <1>9, <1>10, <1>11, <1>12, <1>13, PlainFlows

LEMMA InClosingFlows ==
  ASSUME SlotInv, StreamInv, NEW i \in Conns, Used(conn[i]), NEW m \in SegRec, Answered(m, Host(conn[i].peer)), InClosing(i, m)
  PROVE  Flows(i)
<1> DEFINE a == AfterAck(conn[i], m)
           d == [a EXCEPT !.st = "TIME_WAIT", !.stopped = FALSE]
           h == Host(conn[i].peer)
<1>1. conn[i].st = "CLOSING" /\ Done(i, Call(IF Acks(conn[i], m) THEN d ELSE a, {}), {})
  BY DEF InClosing, Used
<1>2. ConnShape(conn[i]) /\ ConnOK(conn[i], slot, h) /\ conn[i].app = NoSlot
  BY <1>1, Begins
<1>3. CASE ~Acks(conn[i], m)
  BY <1>1, <1>3, StillFlows DEF AfterAck
<1>4. CASE Acks(conn[i], m)
  <2>1. ConnShape(a) /\ a.app = conn[i].app /\ a.peer = conn[i].peer /\ a.iss = conn[i].iss /\ a.len = 0
    BY <1>2, <1>4, AfterAckIs
  <2>2. a = AfterAck(conn[i], m) /\ h = Host(conn[i].peer)
    OBVIOUS
  <2> HIDE DEF a, h
  <2>3. /\ ConnShape(d) /\ d.app = conn[i].app /\ d.peer = conn[i].peer /\ d.iss = conn[i].iss /\ d.snd = a.snd /\ d.len = 0
        /\ d.st \in Fin_Acked
    BY <2>1 DEF ConnShape, Fin_Acked
  <2> HIDE DEF d
  <2>4. ConnOK(d, slot, h)
    BY <1>1, <1>2, <2>1, <2>2, <2>3, FinAcked
  <2> DEFINE w == Call(d, {})
  <2>5. Done(i, w, {}) /\ w \in {Call(d, {}), OnTick(d, {})}
    BY <1>1, <1>4
  <2> HIDE DEF w
  <2> QED BY <2>2, <2>3, <2>4, <2>5, PlainFlows
<1> QED BY <1>3, <1>4

LEMMA InTimeWaitFlows ==
  ASSUME SlotInv, StreamInv, NEW i \in Conns, Used(conn[i]), NEW m, InTimeWait(i, m)
  PROVE  Flows(i)
<1> DEFINE h == Host(conn[i].peer)
           out == Reply(conn[i], {"ACK"}, <<>>)
           w == Call(conn[i], {})
<1>1. conn[i].st = "TIME_WAIT" /\ Done(i, Call(AfterAck(conn[i], m), {}), out)
  BY DEF InTimeWait
<1>2. ConnShape(conn[i]) /\ ConnOK(conn[i], slot, h) /\ conn[i].iss >= 1
  BY Begins
<1>3. conn[i].len = 0
  BY <1>1, <1>2 DEF ConnOK, SyncedOK, Synced, Fin_Acked
<1>4. AfterAck(conn[i], m) = conn[i]
  BY <1>3 DEF AfterAck, Acks
<1>5. Done(i, w, out) /\ w \in {Call(conn[i], {}), OnTick(conn[i], {})}
  BY <1>1, <1>4
<1>6. \A n \in out : SendGood(conn[i], slot, h, n)
  BY <1>2, BareGood
<1> HIDE DEF out, w
<1> QED BY <1>2, <1>5, <1>6, PlainFlows

LEMMA MatchedFlows ==
  ASSUME SlotInv, StreamInv, NEW i \in Conns, NEW p \in Peers, NEW m \in SegRec, Answered(m, Host(p)), Matched(i, p, m)
  PROVE  Used(conn[i]) /\ Flows(i)
<1>1. Used(conn[i])
  BY DEF Matched, Matches, Unused, Used, StreamInv, ConnsOK, ConnOK
<1>2. p = conn[i].peer /\ ~GotReset(i, m)
  BY DEF Matched, Matches, GotReset, Answered
<1>3. CASE OutOfOrder(i, m)
  BY <1>1, <1>3, OutOfOrderFlows
<1>4. CASE InSynRcvd(i, p, m)
  BY <1>1, <1>2, <1>4, InSynRcvdFlows
<1>5. CASE InSynSent(i, m)
  BY <1>1, <1>2, <1>5, InSynSentFlows
<1>6. CASE InSynSentOther(i, p, m)
  BY <1>1, <1>2, <1>6, InSynSentOtherFlows
<1>7. CASE InEstablishedFin(i, p, m)
  BY <1>1, <1>2, <1>7, InEstablishedFinFlows
<1>8. CASE InEstablished(i, p, m)
  BY <1>1, <1>2, <1>8, InEstablishedFlows
<1>9. CASE InLastAck(i, m)
  BY <1>1, <1>9, InLastAckFlows
<1>10. CASE InFinWait(i, m)
  BY <1>1, <1>2, <1>10, InFinWaitFlows
<1>11. CASE InClosing(i, m)
  BY <1>1, <1>2, <1>11, InClosingFlows
<1>12. CASE InTimeWait(i, m)
  BY <1>1, <1>12, InTimeWaitFlows
<1> QED BY <1>1, <1>2, <1>3, <1>4, <1>5, <1>6, <1>7, <1>8, <1>9, <1>10, <1>11, <1>12 DEF Matched

LEMMA TimerFlows ==
  ASSUME SlotInv, StreamInv, NEW i \in Conns, Timer(i) PROVE Used(conn[i]) /\ Flows(i)
<1>1. Used(conn[i])
  <2>1. CASE Used(conn[i])
    BY <2>1
  <2>2. CASE ~Used(conn[i])
    <3>1. conn[i].st = "CLOSED" /\ conn[i].len = 0
      BY <2>2 DEF Used, StreamInv, ConnsOK, ConnOK
    <3> QED BY <3>1 DEF Timer, TimerIdle, TimerGivesUp, TimerRetransmits, TimerPolls, Outstanding
  <2> QED BY <2>1, <2>2
<1>2. CASE TimerIdle(i)
  BY <1>1, <1>2, TimerIdleFlows
<1>3. CASE TimerGivesUp(i)
  BY <1>1, <1>3, TimerGivesUpFlows
<1>4. CASE TimerRetransmits(i)
  BY <1>1, <1>4, TimerRetransmitsFlows
<1>5. CASE TimerPolls(i)
  BY <1>1, <1>5, TimerPollsFlows
<1> QED BY <1>1, <1>2, <1>3, <1>4, <1>5 DEF Timer

LEMMA ArrivingIs ==
  ASSUME SlotInv, StreamInv, NEW p \in Peers, NEW m \in Waiting(p), Arriving(p, m)
  PROVE  m \in SegRec /\ Answered(m, Host(p)) /\ \A q \in Peers : toUs'[q] \subseteq toUs[q]
<1>1. CASE in_packet = {}
  <2>1. m \in toUs[p] /\ toUs' = [toUs EXCEPT ![p] = @ \ {m}]
    BY <1>1 DEF Arriving
  <2> QED BY <2>1 DEF SlotInv, NetTypes, StreamInv, AnswersOK
<1>2. CASE in_packet # {}
  <2>1. [from |-> p, seg |-> m] \in in_packet /\ toUs' = toUs
    BY <1>2 DEF Arriving
  <2>2. [from |-> p, seg |-> m] \in Packets /\ Answered(m, Host(p))
    BY <2>1 DEF SlotInv, UipTypes, StreamInv, AnswersOK
  <2> QED BY <2>1, <2>2 DEF Packets
<1> QED BY <1>1, <1>2

(* The connections stay, and no block of theirs is written or eaten.       *)
LEMMA StillStep ==
  ASSUME SlotInv, SlotInv', StreamInv, conn' = conn, UNCHANGED <<opened, peer, received>>,
         \A j \in Conns : conn[j].app # NoSlot => slot'[conn[j].app].out = slot[conn[j].app].out,
         in_packet' \subseteq in_packet, \A q \in Peers : toUs'[q] \subseteq toUs[q] /\ written'[q] = written[q],
         \A q \in Peers : \/ toPeer'[q] = toPeer[q]
                          \/ NoMatch(q) /\ \A m \in toPeer'[q] : m \in toPeer[q] \/ Harmless(m)
  PROVE  StreamInv'
<1>1. \A q \in Peers : SameButUnder(Host(q), NewHost(q)) /\ NewHost(q).under = toPeer'[q] /\ Host(q).under = toPeer[q]
  BY HostIs, NewHostIs DEF SameButUnder
<1>2. \A q \in Peers : toPeer'[q] = toPeer[q] => NewHost(q) = Host(q)
  BY DEF Host, NewHost
<1>3. ASSUME NEW q \in Peers
      PROVE  HostOK(q, NewHost(q)) /\ Numbered(NewHost(q), opened) /\ \A m \in toPeer'[q] : SegOK(q, m, NewHost(q))
  <2> DEFINE h == Host(q)
             g == NewHost(q)
             c == ClosedConn(NoSlot, "none")
  <2>1. HostOK(q, h) /\ Numbered(h, opened) /\ (\A m \in h.under : SegOK(q, m, h)) /\ SameButUnder(h, g)
    BY <1>1 DEF StreamInv, HostsOK
  <2>2. CASE toPeer'[q] = toPeer[q]
    BY <1>1, <1>2, <2>1, <2>2
  <2>3. CASE \A m \in toPeer'[q] : m \in toPeer[q] \/ Harmless(m)
    <3>1. \A m \in g.under : m \in h.under \/ Harmless(m)
      BY <1>1, <2>3
    <3>2. g.under = toPeer'[q]
      BY <1>1
    <3>3. ~Used(c) /\ ConnOK(c, slot, h)
      <4>1. c.st = "CLOSED" /\ ~c.stopped /\ c.len = 0 /\ c.app = NoSlot
        BY ClosedConnIs
      <4> HIDE DEF c
      <4> QED BY <4>1, UnusedOK DEF Used
    <3> HIDE DEF h, g, c
    <3>4. HostOK(q, g) /\ Numbered(g, opened) /\ \A m \in g.under : SegOK(q, m, g)
      <4>1. (Used(c) => c.peer = q) /\ (Used(c) => c.iss <= opened)
            /\ \A m \in g.under : m \in h.under \/ Harmless(m) \/ (Used(c) /\ SendGood(c, slot, h, m))
        BY <3>1, <3>3
      <4>2. SameButUnder(h, g) /\ HostOK(q, h) /\ ConnOK(c, slot, h) /\ Numbered(h, opened) /\ \A m \in h.under : SegOK(q, m, h)
        BY <2>1, <3>3
      <4> DEFINE slots == slot
                 top == opened
      <4>3. /\ (Used(c) => c.peer = q) /\ (Used(c) => c.iss <= top) /\ SameButUnder(h, g) /\ HostOK(q, h)
            /\ ConnOK(c, slots, h) /\ Numbered(h, top) /\ (\A m \in h.under : SegOK(q, m, h))
            /\ \A m \in g.under : m \in h.under \/ Harmless(m) \/ (Used(c) /\ SendGood(c, slots, h, m))
        BY <4>1, <4>2
      <4> HIDE DEF slots, top
      <4>4. HostOK(q, g) /\ ConnOK(c, slots, g) /\ Numbered(g, top) /\ \A m \in g.under : SegOK(q, m, g)
        BY <4>3, HostSends
      <4> QED BY <4>4 DEF top
    <3> QED BY <3>2, <3>4 DEF g
  <2> QED BY <2>2, <2>3
<1>4. \A q \in Peers : \A m : Answered(m, Host(q)) => Answered(m, NewHost(q))
  BY <1>1 DEF SameButUnder, Answered
<1>5. \A q \in Peers : \A m \in toUs'[q] : Answered(m, NewHost(q))
  BY <1>4 DEF StreamInv, AnswersOK
<1>6. \A packet \in in_packet' : Answered(packet.seg, NewHost(packet.from))
  <2>1. \A packet \in in_packet : packet.from \in Peers
    BY DEF SlotInv, UipTypes, Packets
  <2> QED BY <1>4, <2>1 DEF StreamInv, AnswersOK
<1>7. ASSUME NEW j \in Conns
      PROVE  ConnOK(conn'[j], slot', NewHost(conn'[j].peer)) /\ (Used(conn'[j]) => conn'[j].iss <= opened')
  <2>1. ConnOK(conn[j], slot, Host(conn[j].peer)) /\ (Used(conn[j]) => conn[j].iss <= opened)
    BY DEF StreamInv, ConnsOK
  <2>2. ~Used(conn[j]) => ~conn[j].stopped
    BY <2>1 DEF ConnOK
  <2>3. ConnOK(conn[j], slot', Host(conn[j].peer))
    BY <2>1, <2>2, ConnOKSame
  <2>4. CASE Used(conn[j])
    <3>1. conn[j].peer \in Peers
      BY <2>1, <2>4 DEF ConnOK, UsedOK
    <3>2. ~NoMatch(conn[j].peer)
      BY <2>4 DEF NoMatch, Matches, Unused, Used
    <3>3. NewHost(conn[j].peer) = Host(conn[j].peer)
      BY <1>2, <3>1, <3>2
    <3> QED BY <2>1, <2>3, <3>3
  <2>5. CASE ~Used(conn[j])
    <3>1. \A x : ConnOK(conn[j], slot', x)
      BY <2>3, <2>5 DEF ConnOK, Used, Half, Synced, Sent_Fin, Fin_Acked
    <3> QED BY <2>1, <2>5, <3>1
  <2> QED BY <2>4, <2>5
<1>8. \A j, k \in Conns : Used(conn'[j]) /\ Used(conn'[k]) /\ conn'[j].peer = conn'[k].peer => j = k
  BY DEF StreamInv, OneEach
<1> QED BY <1>3, <1>5, <1>6, <1>7, <1>8, StreamsNext

(* A connection that may be taken has no slot.                             *)
LEMMA CandidateFree ==
  ASSUME SlotInv, StreamInv, NEW i \in Candidates
  PROVE  i \in Conns /\ conn[i].app = NoSlot
<1>1. i \in Conns
  BY CandidateIs
<1>2. conn[i].st # "ESTABLISHED"
  <2> DEFINE closed == {j \in Conns : Unused(conn[j])}
  <2>1. CASE closed # {}
    <3>1. closed \in SUBSET Conns /\ i = Min(closed)
      BY <2>1 DEF Candidates
    <3>2. i \in closed
      BY <2>1, <3>1, MinIn
    <3> QED BY <3>2 DEF Unused
  <2>2. CASE closed = {}
    BY <2>2 DEF Candidates
  <2> QED BY <2>1, <2>2
<1> QED BY <1>1, <1>2 DEF StreamInv, ConnsOK, ConnOK

LEMMA NoMatchIs == ASSUME StreamInv, NEW p, NoMatch(p), NEW i PROVE Alone(i, p)
BY DEF NoMatch, Matches, Unused, Alone, Used

(* A connection is opened to host p.                                       *)
LEMMA OpenedStreams ==
  ASSUME SlotInv, SlotInv', StreamInv, NEW p \in Peers, NoMatch(p), NEW i \in Candidates,
         NEW state, NEW rcv \in Nat, NEW lport, NEW c, c = Opened(i, state, p, rcv, lport),
         \/ state = "SYN_RCVD" /\ p \in Clients
         \/ state = "SYN_SENT" /\ p \in Servers /\ peer[p].st = "idle" /\ toPeer[p] = {},
         NEW out, Reaches(p, out), \A m \in out : m \in Reply(c, {"SYN", "ACK"}, <<>>),
         conn' = [conn EXCEPT ![i] = c], opened' = opened + 1, UNCHANGED <<slot, free, peer, received, written>>,
         NEW kept, kept \in SUBSET in_packet, in_packet' = kept, \A q \in Peers : toUs'[q] \subseteq toUs[q]
  PROVE  StreamInv'
<1> DEFINE h == Host(p)
           v == [Call(c, {}) EXCEPT !.kept = kept]
<1>1. i \in Conns /\ conn[i].app = NoSlot
  BY CandidateFree
<1>2. /\ ConnShape(c) /\ c.app = NoSlot /\ c.st = state /\ c.peer = p /\ c.iss = opened + 1 /\ c.snd = 0 /\ c.len = 1
      /\ state \in Half
  BY <1>1, OpenedIs DEF Half
<1>3. opened \in Nat /\ HostShape(h) /\ HostOK(p, h) /\ Numbered(h, opened) /\ h.st = peer[p].st /\ h.under = toPeer[p]
  BY HostIs DEF SlotInv, UipTypes, StreamInv, HostsOK
<1>4. Used(c) /\ ~Synced(c) /\ c.iss >= 1
  BY <1>2, <1>3 DEF Used, Half, Synced, Sent_Fin, Fin_Acked
<1> HIDE DEF h
<1>5. UsedOK(c, h) /\ HalfOK(c, h)
  <2>1. CASE state = "SYN_RCVD" /\ p \in Clients
    <3>1. p \notin Servers
      BY <2>1, PeerAssumption
    <3>2. h.conn # c.iss
      BY <1>2, <1>3 DEF Numbered, HostShape
    <3> QED BY <1>2, <1>3, <1>4, <2>1, <3>1, <3>2 DEF UsedOK, HalfOK
  <2>2. CASE state = "SYN_SENT" /\ p \in Servers /\ peer[p].st = "idle" /\ toPeer[p] = {}
    <3>1. h.conn = 0 /\ h.under = {} /\ h.sent = 0
      BY <1>3, <2>2 DEF HostOK
    <3> QED BY <1>2, <1>3, <1>4, <2>2, <3>1 DEF UsedOK, HalfOK
  <2> QED BY <2>1, <2>2
<1>6. ConnOK(c, slot, h)
  BY <1>2, <1>4, <1>5 DEF ConnOK
<1>7. v.c = c /\ v.slot = slot /\ v.free = free /\ v.kept = kept /\ v.send = <<>>
      /\ DOMAIN v = {"c", "slot", "free", "flags", "send", "kept"}
  BY DEF Call
<1> HIDE DEF v
<1>8. Moves(i, v) /\ Adopts(i, v)
  <2>1. kept \in SUBSET Packets
    BY DEF SlotInv, UipTypes
  <2>2. Effect(v)
    BY <1>2, <1>7, <2>1, NoBytesType DEF Effect, SlotInv, UipTypes
  <2> QED BY <1>1, <1>2, <1>7, <2>2 DEF Moves, Adopts
<1>9. \A m \in out : SendGood(v.c, v.slot, h, m)
  BY <1>2, <1>4, <1>7, BareGood
<1>10. \A packet \in v.kept : Answered(packet.seg, Host(packet.from))
  BY <1>7 DEF StreamInv, AnswersOK
<1>11. Alone(i, p)
  BY NoMatchIs
<1>12. ConnOK(v.c, v.slot, Host(p)) /\ \A m \in out : Used(v.c) /\ SendGood(v.c, v.slot, Host(p), m)
  BY <1>4, <1>6, <1>7, <1>9 DEF h
<1>13. v.c.peer = p /\ v.c.iss <= opened' /\ opened' \in Nat /\ opened <= opened'
  BY <1>2, <1>3, <1>7
<1> QED BY <1>1, <1>8, <1>10, <1>11, <1>12, <1>13, StreamsStep

LEMMA InputStreams == ASSUME SlotInv, SlotInv', StreamInv, NEW p \in Peers, Input(p) PROVE StreamInv'
<1>1. PICK m \in Waiting(p) :
        /\ Arriving(p, m)
        /\ NoConnection(p, m) \/ Listens(p, m) \/ NoneLeft(p, m) \/ \E i \in Conns : Matched(i, p, m)
        /\ UNCHANGED <<client, call, read, written, peer, received>>
  BY DEF Input
<1>2. m \in SegRec /\ Answered(m, Host(p)) /\ \A q \in Peers : toUs'[q] \subseteq toUs[q]
  BY <1>1, ArrivingIs
<1>3. CASE NoConnection(p, m) \/ NoneLeft(p, m)
  <2>1. /\ UNCHANGED <<conn, slot, opened>> /\ in_packet' = {} /\ NoMatch(p)
        /\ toPeer' = toPeer \/ RstTo(p, m)
    BY <1>3 DEF NoConnection, NoneLeft
  <2>2. \A q \in Peers : \/ toPeer'[q] = toPeer[q]
                         \/ NoMatch(q) /\ \A n \in toPeer'[q] : n \in toPeer[q] \/ Harmless(n)
    <3>1. CASE toPeer' = toPeer
      BY <3>1
    <3>2. CASE RstTo(p, m)
      <4>1. PICK out : Reaches(p, out) /\ \A n \in out : Harmless(n)
        BY <1>2, <3>2, RstToIs
      <4>2. (\A q \in Peers \ {p} : toPeer'[q] = toPeer[q]) /\ \A n \in toPeer'[p] : n \in toPeer[p] \/ n \in out
        BY <4>1, ReachesIs
      <4> QED BY <2>1, <4>1, <4>2
    <3> QED BY <2>1, <3>1, <3>2
  <2> QED BY <1>1, <1>2, <2>1, <2>2, StillStep
<1>4. CASE Listens(p, m)
  <2>1. PICK i \in Candidates :
          LET c == Opened(i, "SYN_RCVD", p, m.seq + 1, "listen")
          IN  /\ conn' = [conn EXCEPT ![i] = c]
              /\ \E reply \in Reply(c, {"SYN", "ACK"}, <<>>) : \E under \in Sent(toPeer[p], reply) :
                   toPeer' = IF free > 0 THEN [toPeer EXCEPT ![p] = under] ELSE toPeer
    BY <1>4 DEF Listens
  <2> DEFINE c == Opened(i, "SYN_RCVD", p, m.seq + 1, "listen")
             out == Reply(c, {"SYN", "ACK"}, <<>>)
  <2>2. conn' = [conn EXCEPT ![i] = c] /\ Reaches(p, out)
    <3> HIDE DEF c
    <3>1. \E reply \in out : \E under \in Sent(toPeer[p], reply) :
            toPeer' = IF free > 0 THEN [toPeer EXCEPT ![p] = under] ELSE toPeer
      BY <2>1 DEF c
    <3> HIDE DEF out
    <3> QED BY <2>1, <3>1 DEF Reaches, c
  <2>3. m.seq + 1 \in Nat /\ NoMatch(p) /\ p \in Clients /\ opened' = opened + 1 /\ in_packet' = {} /\ UNCHANGED <<slot, free>>
    BY <1>2, <1>4 DEF Listens, SegRec
  <2>4. c = Opened(i, "SYN_RCVD", p, m.seq + 1, "listen") /\ (\A n \in out : n \in Reply(c, {"SYN", "ACK"}, <<>>))
        /\ {} \in SUBSET in_packet
    OBVIOUS
  <2> HIDE DEF c, out
  <2> QED BY <1>1, <1>2, <2>2, <2>3, <2>4, OpenedStreams
<1>5. ASSUME NEW i \in Conns, Matched(i, p, m) PROVE StreamInv'
  <2>1. Used(conn[i]) /\ Flows(i)
    BY <1>2, <1>5, MatchedFlows
  <2>2. opened' = opened
    BY <1>5 DEF Matched
  <2> QED BY <1>1, <1>2, <2>1, <2>2, FlowsKeeps
<1> QED BY <1>1, <1>3, <1>4, <1>5

LEMMA TimerStreams == ASSUME SlotInv, SlotInv', StreamInv, NEW i \in Conns, Timer(i) PROVE StreamInv'
<1>1. Used(conn[i]) /\ Flows(i)
  BY TimerFlows
<1>2. UNCHANGED <<opened, written, toUs, peer, received>>
  BY DEF Timer, sketchVars
<1> QED BY <1>1, <1>2, FlowsKeeps

(***************************************************************************)
(* Steps of the hosts and the network                                      *)
(***************************************************************************)
(* Less may be under way, and the host may have changed its state.         *)
LEMMA StayGood ==
  ASSUME NEW p, NEW h, NEW g, g.conn = h.conn, g.rcv = h.rcv, g.got = h.got, g.sent = h.sent, g.under \subseteq h.under,
         \A m \in h.under : SegOK(p, m, h), NEW top, Numbered(h, top)
  PROVE  /\ Numbered(g, top) /\ (\A m \in g.under : SegOK(p, m, g)) /\ (\A m : Answered(m, h) => Answered(m, g))
         /\ \A c, slots : ConnOK(c, slots, h) => ConnOK(c, slots, g)
<1>1. Numbered(g, top)
  BY DEF Numbered
<1>2. \A m : CarriesOK(p, m, h) => CarriesOK(p, m, g)
  BY DEF CarriesOK, Ended
<1>3. \A m \in g.under : SegOK(p, m, g)
  BY <1>2 DEF SegOK
<1>4. \A m : Answered(m, h) => Answered(m, g)
  BY DEF Answered
<1>5. ASSUME NEW c, NEW slots, ConnOK(c, slots, h) PROVE ConnOK(c, slots, g)
  <2>1. UsedOK(c, h) => UsedOK(c, g)
    BY DEF UsedOK
  <2>2. HalfOK(c, h) => HalfOK(c, g)
    BY DEF HalfOK
  <2>3. SyncedOK(c, slots, h) => SyncedOK(c, slots, g)
    BY DEF SyncedOK, Ended
  <2> QED BY <1>5, <2>1, <2>2, <2>3 DEF ConnOK
<1> QED BY <1>1, <1>3, <1>4, <1>5

(* A host without a connection takes the one of m.                         *)
LEMMA JoinGood ==
  ASSUME NEW p, NEW h, NEW g, HostShape(h), HostOK(p, h), h.conn = 0, NEW m \in h.under,
         (m.flags = {"SYN"} /\ p \in Servers) \/ ("RST" \notin m.flags /\ p \notin Servers),
         g.conn = m.conn, g.rcv = 1, g.got = h.got, g.sent = h.sent, g.under \subseteq h.under, g.st \in {"synrcvd", "est"},
         \A n \in h.under : SegOK(p, n, h), NEW top, Numbered(h, top)
  PROVE  /\ HostOK(p, g) /\ Numbered(g, top) /\ (\A n \in g.under : SegOK(p, n, g)) /\ (\A n : Answered(n, h) => Answered(n, g))
         /\ \A c, slots : ConnOK(c, slots, h) /\ c.peer = p => ConnOK(c, slots, g)
<1>1. "RST" \notin m.flags /\ m.conn # 0 /\ m.conn <= top
  <2>1. "RST" \notin m.flags
    OBVIOUS
  <2> QED BY <2>1 DEF SegOK, Numbered
<1>2. h.got = <<>> /\ h.sent = 0 /\ \A n \in h.under : ~Carries(n)
  BY DEF HostOK, SegOK, CarriesOK
<1>3. HostOK(p, g)
  <2>1. Len(<<>>) = 0
    OBVIOUS
  <2> QED BY <1>1, <1>2, <2>1 DEF HostOK
<1>4. Numbered(g, top)
  BY <1>1 DEF Numbered
<1>5. ASSUME NEW n \in g.under PROVE SegOK(p, n, g)
  <2>1. SegOK(p, n, h) /\ SegOK(p, m, h) /\ ~Carries(n)
    BY <1>2
  <2>2. p \in Servers => m.flags = {"SYN"}
    OBVIOUS
  <2> QED BY <2>1, <2>2 DEF SegOK
<1>6. \A n : Answered(n, h) => Answered(n, g)
  BY DEF Answered
<1>7. ASSUME NEW c, NEW slots, ConnOK(c, slots, h), c.peer = p PROVE ConnOK(c, slots, g)
  <2>1. UsedOK(c, h) => UsedOK(c, g)
    BY <1>7 DEF UsedOK
  <2>2. HalfOK(c, h) => HalfOK(c, g)
    BY <1>2, <1>7 DEF HalfOK
  <2>3. UsedOK(c, h) => ~SyncedOK(c, slots, h)
    BY DEF UsedOK, SyncedOK
  <2>4. Synced(c) => Used(c)
    BY DEF Synced, Used, Sent_Fin, Fin_Acked
  <2> QED BY <1>7, <2>1, <2>2, <2>3, <2>4 DEF ConnOK
<1> QED BY <1>3, <1>4, <1>5, <1>6, <1>7

(* The host takes what comes next, m.                                      *)
LEMMA AdvanceGood ==
  ASSUME NEW p \in Peers, NEW h, NEW g, HostShape(h), HostOK(p, h), NEW m \in h.under, Carries(m), m.seq = h.rcv,
         g.conn = h.conn, g.rcv = h.rcv + Size(m), g.got = h.got \o m.data, g.sent = h.sent, g.under \subseteq h.under, g.st = "est",
         \A n \in h.under : SegOK(p, n, h), NEW top, Numbered(h, top)
  PROVE  /\ HostOK(p, g) /\ Numbered(g, top) /\ (\A n \in g.under : SegOK(p, n, g)) /\ (\A n \in SegRec : Answered(n, h) => Answered(n, g))
         /\ \A c, slots : ConnShape(c) /\ ConnOK(c, slots, h) /\ c.peer = p => ConnOK(c, slots, g)
<1>1. m \in SegRec /\ CarriesOK(p, m, h) /\ h.rcv \in Nat /\ h.got \in Block /\ h.sent \in Nat /\ Len(h.got) \in Nat
  BY DEF HostShape, SegOK, Block
<1>2. Size(m) \in Nat /\ Size(m) > 0 /\ Len(m.data) \in Nat /\ m.data \in Block
  BY <1>1, SizeIs
<1>3. ~Ended(h) /\ h.conn # 0 /\ h.rcv = Len(h.got) + 1
  <2>1. ~Ended(h) /\ h.conn # 0
    BY <1>1 DEF CarriesOK
  <2> QED BY <2>1 DEF HostOK, Ended
<1>4. g.got \in Block /\ Len(g.got) = Len(h.got) + Len(m.data) /\ Bytes(g.got, p, 1)
  <2>1. Bytes(h.got, p, 1) /\ Bytes(m.data, p, 1 + Len(h.got))
    BY <1>1, <1>3 DEF HostOK, CarriesOK
  <2> QED BY <1>1, <1>2, <2>1, BytesJoin
<1>5. /\ "FIN" \in m.flags => g.rcv = Len(g.got) + 2 /\ Len(m.data) = 0 /\ Len(g.got) = Len(h.got)
      /\ "FIN" \notin m.flags => g.rcv = Len(g.got) + 1
  <2>1. "FIN" \in m.flags => Len(m.data) = 0
    <3>1. "FIN" \in m.flags => m.data = <<>>
      BY <1>1 DEF CarriesOK
    <3> QED BY <1>2, <3>1, BlockIs
  <2>2. g.rcv = (Len(h.got) + 1) + (Len(m.data) + Fin(m))
    BY <1>3 DEF Size
  <2>3. \A x, y \in Nat : (x + 1) + (y + 0) = (x + y) + 1 /\ (y = 0 => (x + 1) + (y + 1) = (x + y) + 2 /\ x + y = x)
    OBVIOUS
  <2>4. (Len(h.got) + 1) + (Len(m.data) + 0) = (Len(h.got) + Len(m.data)) + 1
        /\ (Len(m.data) = 0 => (Len(h.got) + 1) + (Len(m.data) + 1) = (Len(h.got) + Len(m.data)) + 2
                              /\ Len(h.got) + Len(m.data) = Len(h.got))
    BY <1>1, <1>2, <2>3, Zenon
  <2>5. CASE "FIN" \in m.flags
    <3>1. Fin(m) = 1
      BY <2>5 DEF Fin
    <3> QED BY <1>4, <2>1, <2>2, <2>4, <2>5, <3>1, Zenon
  <2>6. CASE "FIN" \notin m.flags
    <3>1. Fin(m) = 0
      BY <2>6 DEF Fin
    <3> QED BY <1>4, <2>2, <2>4, <2>6, <3>1, Zenon
  <2> QED BY <2>5, <2>6
<1>6. Len(g.got) <= h.sent /\ Len(g.got) \in Nat
  <2>1. m.seq + Len(m.data) <= h.sent + 1 /\ m.seq = Len(h.got) + 1
    BY <1>1, <1>3 DEF CarriesOK
  <2>2. \A x, y, z \in Nat : (x + 1) + y <= z + 1 => x + y <= z
    OBVIOUS
  <2>3. \A x, y \in Nat : x + y \in Nat
    OBVIOUS
  <2>4. (Len(h.got) + 1) + Len(m.data) <= h.sent + 1
    BY <2>1, Zenon
  <2>5. Len(h.got) + Len(m.data) <= h.sent
    BY <1>1, <1>2, <2>2, <2>4, Zenon
  <2>6. Len(h.got) + Len(m.data) \in Nat
    BY <1>1, <1>2, <2>3, Zenon
  <2> QED BY <1>4, <2>5, <2>6, Zenon
<1>7. HostOK(p, g)
  BY <1>3, <1>4, <1>5, <1>6 DEF HostOK
<1>8. Numbered(g, top)
  BY DEF Numbered
<1>9. \A x \in Nat : x <= h.rcv => x < g.rcv /\ x <= g.rcv
  BY <1>1, <1>2
<1>10. ASSUME NEW n \in g.under PROVE SegOK(p, n, g) /\ (Carries(n) => n.seq < g.rcv /\ n.seq \in Nat)
  <2>1. SegOK(p, n, h) /\ n.seq \in Nat
    BY DEF HostShape, SegRec
  <2>2. Carries(n) => CarriesOK(p, n, g) /\ n.seq < g.rcv
    BY <1>9, <2>1 DEF SegOK, CarriesOK
  <2> QED BY <2>1, <2>2 DEF SegOK
<1>11. ASSUME NEW n \in SegRec, Answered(n, h) PROVE Answered(n, g)
  <2>1. n.ack \in Nat
    BY DEF SegRec
  <2> QED BY <1>9, <1>11, <2>1 DEF Answered
<1>12. ASSUME NEW c, NEW slots, ConnShape(c), ConnOK(c, slots, h), c.peer = p PROVE ConnOK(c, slots, g)
  <2>1. UsedOK(c, h) => UsedOK(c, g)
    BY DEF UsedOK
  <2>2. HalfOK(c, h) => HalfOK(c, g)
    BY DEF HalfOK
  <2>3. ASSUME SyncedOK(c, slots, h) PROVE SyncedOK(c, slots, g)
    <3>1. Payload(c, m, slots)
      BY <2>3 DEF SyncedOK
    <3>2. c.snd \in Nat /\ c.len \in Nat
      BY <1>12 DEF ConnShape
    <3>3. g.rcv = c.snd + c.len
      BY <3>1 DEF Payload
    <3>4. \A n \in g.under : ~(Carries(n) /\ n.seq = g.rcv)
      BY <1>1, <1>2, <1>10
    <3>5. c.st = "ESTABLISHED" => ~Ended(g)
      <4>1. c.st = "ESTABLISHED" => "FIN" \notin m.flags
        BY <3>1 DEF Payload
      <4>2. \A x \in Nat : x + 1 # x + 2
        OBVIOUS
      <4>3. Len(g.got) + 1 # Len(g.got) + 2
        BY <1>6, <4>2, Zenon
      <4> QED BY <1>5, <4>1, <4>3, Zenon DEF Ended
    <3>6. c.st \in Ending => Len(g.got) = g.sent
      <4>1. c.st \in Ending => "FIN" \in m.flags
        BY <3>1 DEF Payload, Ending
      <4>2. c.st \in Ending => Len(h.got) = h.sent
        BY <2>3 DEF SyncedOK
      <4> QED BY <1>5, <4>1, <4>2, Zenon
    <3> QED BY <2>3, <3>2, <3>3, <3>4, <3>5, <3>6 DEF SyncedOK
  <2> QED BY <1>12, <2>1, <2>2, <2>3 DEF ConnOK
<1> QED BY <1>7, <1>8, <1>10, <1>11, <1>12

(* A step of host p.                                                       *)
LEMMA HostMoves ==
  ASSUME SlotInv, SlotInv', StreamInv, NEW p \in Peers, UNCHANGED <<conn, slot, in_packet, opened, written>>,
         \A q \in Peers \ {p} : peer'[q] = peer[q] /\ received'[q] = received[q] /\ toPeer'[q] = toPeer[q] /\ toUs'[q] = toUs[q],
         NEW h, h = Host(p), NEW g, g = NewHost(p), HostOK(p, g), Numbered(g, opened), \A m \in g.under : SegOK(p, m, g),
         \A m \in SegRec : Answered(m, h) => Answered(m, g), \A m \in toUs'[p] : m \in toUs[p] \/ Answered(m, g),
         \A c, slots : ConnShape(c) /\ ConnOK(c, slots, h) /\ c.peer = p => ConnOK(c, slots, g)
  PROVE  StreamInv'
<1>1. \A q \in Peers \ {p} : NewHost(q) = Host(q)
  BY DEF Host, NewHost
<1>2. g.under = toPeer'[p]
  BY NewHostIs
<1>3. ASSUME NEW q \in Peers
      PROVE  HostOK(q, NewHost(q)) /\ Numbered(NewHost(q), opened') /\ \A m \in toPeer'[q] : SegOK(q, m, NewHost(q))
  <2>1. CASE q = p
    BY <1>2, <2>1
  <2>2. CASE q # p
    BY <1>1, <2>2 DEF StreamInv, HostsOK
  <2> QED BY <2>1, <2>2
<1>4. \A q \in Peers : \A m \in SegRec : Answered(m, Host(q)) => Answered(m, NewHost(q))
  BY <1>1
<1>5. ASSUME NEW q \in Peers, NEW m \in toUs'[q] PROVE Answered(m, NewHost(q))
  <2>1. m \in toUs[q] => m \in SegRec /\ Answered(m, Host(q))
    BY DEF SlotInv, NetTypes, StreamInv, AnswersOK
  <2> QED BY <1>4, <1>5, <2>1
<1>6. \A packet \in in_packet' : Answered(packet.seg, NewHost(packet.from))
  <2>1. \A packet \in in_packet : packet.from \in Peers /\ packet.seg \in SegRec /\ Answered(packet.seg, Host(packet.from))
    BY DEF SlotInv, UipTypes, Packets, StreamInv, AnswersOK
  <2> QED BY <1>4, <2>1
<1>7. ASSUME NEW j \in Conns
      PROVE  ConnOK(conn'[j], slot', NewHost(conn'[j].peer)) /\ (Used(conn'[j]) => conn'[j].iss <= opened')
  <2>1. ConnShape(conn[j]) /\ ConnOK(conn[j], slot, Host(conn[j].peer)) /\ (Used(conn[j]) => conn[j].iss <= opened)
    BY DEF SlotInv, UipTypes, StreamInv, ConnsOK
  <2>2. CASE conn[j].peer = p
    BY <2>1, <2>2
  <2>3. CASE conn[j].peer # p
    <3>1. CASE Used(conn[j])
      <4>1. conn[j].peer \in Peers \ {p}
        BY <2>1, <2>3, <3>1 DEF ConnOK, UsedOK
      <4> QED BY <1>1, <2>1, <4>1
    <3>2. CASE ~Used(conn[j])
      <4>1. \A x : ConnOK(conn[j], slot, x)
        BY <2>1, <3>2 DEF ConnOK, Used, Half, Synced, Sent_Fin, Fin_Acked
      <4> QED BY <2>1, <4>1
    <3> QED BY <3>1, <3>2
  <2> QED BY <2>2, <2>3
<1>8. \A j, k \in Conns : Used(conn'[j]) /\ Used(conn'[k]) /\ conn'[j].peer = conn'[k].peer => j = k
  BY DEF StreamInv, OneEach
<1> QED BY <1>3, <1>5, <1>6, <1>7, <1>8, StreamsNext

LEMMA SendsIs ==
  ASSUME SlotInv, NEW p \in Peers, NEW m, PeerSends(p, m)
  PROVE  (\A q \in Peers \ {p} : toUs'[q] = toUs[q]) /\ \A n \in toUs'[p] : n \in toUs[p] \/ n = m
<1>1. PICK under \in Sent(toUs[p], m) : toUs' = [toUs EXCEPT ![p] = under]
  BY DEF PeerSends
<1>2. under \subseteq toUs[p] \union {m}
  BY SentIn
<1> QED BY <1>1, <1>2 DEF SlotInv, NetTypes

(* What a host sends acknowledges what it has got.                         *)
LEMMA FromPeerGood ==
  ASSUME SlotInv, SlotInv', NEW p \in Peers, NEW flags, "RST" \notin flags, "ACK" \in flags => peer'[p].conn # 0, NEW data,
         PeerSends(p, FromPeer(p, flags, data))
  PROVE  /\ \A q \in Peers \ {p} : toUs'[q] = toUs[q]
         /\ \A n \in toUs'[p] : n \in toUs[p] \/ Answered(n, NewHost(p))
<1> DEFINE m == FromPeer(p, flags, data)
<1>1. m.flags = flags /\ m.conn = peer'[p].conn /\ m.ack = peer'[p].rcv
  BY DEF FromPeer, Segment
<1>2. PeerSends(p, m)
  OBVIOUS
<1> HIDE DEF m
<1>3. NewHost(p).conn = peer'[p].conn /\ NewHost(p).rcv = peer'[p].rcv /\ NewHost(p).rcv \in Nat
  BY NewHostIs DEF HostShape
<1>4. Answered(m, NewHost(p))
  BY <1>1, <1>3 DEF Answered
<1>5. (\A q \in Peers \ {p} : toUs'[q] = toUs[q]) /\ \A n \in toUs'[p] : n \in toUs[p] \/ n = m
  BY <1>2, SendsIs
<1> QED BY <1>4, <1>5

(* The connection of the host and what it has got stay.                    *)
LEMMA HostStays ==
  ASSUME SlotInv, SlotInv', StreamInv, NEW p \in Peers, UNCHANGED <<conn, slot, in_packet, opened, written>>,
         \A q \in Peers \ {p} : peer'[q] = peer[q] /\ received'[q] = received[q] /\ toPeer'[q] = toPeer[q] /\ toUs'[q] = toUs[q],
         peer'[p].conn = peer[p].conn, peer'[p].rcv = peer[p].rcv, received'[p] = received[p], toPeer'[p] \subseteq toPeer[p],
         HostOK(p, Host(p)) => HostOK(p, NewHost(p)),
         \A m \in toUs'[p] : m \in toUs[p] \/ Answered(m, NewHost(p))
  PROVE  StreamInv'
<1> DEFINE h == Host(p)
           g == NewHost(p)
<1>1. g.conn = h.conn /\ g.rcv = h.rcv /\ g.got = h.got /\ g.sent = h.sent /\ g.under \subseteq h.under
  BY HostIs, NewHostIs
<1>2. HostOK(p, h) /\ Numbered(h, opened) /\ \A m \in h.under : SegOK(p, m, h)
  BY HostIs DEF StreamInv, HostsOK
<1>3. HostOK(p, g)
  BY <1>2
<1>4. h = Host(p) /\ g = NewHost(p) /\ \A m \in toUs'[p] : m \in toUs[p] \/ Answered(m, g)
  OBVIOUS
<1> HIDE DEF h, g
<1>5. /\ Numbered(g, opened) /\ (\A m \in g.under : SegOK(p, m, g)) /\ (\A m : Answered(m, h) => Answered(m, g))
      /\ \A c, slots : ConnOK(c, slots, h) => ConnOK(c, slots, g)
  BY <1>1, <1>2, StayGood
<1> QED BY <1>3, <1>4, <1>5, HostMoves

LEMMA HostSendsStep ==
  ASSUME SlotInv, SlotInv', StreamInv, NEW p \in Peers, UNCHANGED <<conn, slot, in_packet, opened, written>>,
         Connects(p) \/ PeerSendsData(p)
  PROVE  StreamInv'
<1>1. CASE Connects(p)
  <2> DEFINE flags == {"SYN"}
  <2>1. /\ p \in Clients /\ peer[p].st \in {"idle", "synsent"} /\ peer' = [peer EXCEPT ![p].st = "synsent"]
        /\ PeerSends(p, FromPeer(p, flags, <<>>)) /\ toPeer' = toPeer /\ received' = received
    BY <1>1 DEF Connects
  <2>2. "RST" \notin flags /\ "ACK" \notin flags
    OBVIOUS
  <2> HIDE DEF flags
  <2>3. /\ \A q \in Peers \ {p} : toUs'[q] = toUs[q]
        /\ \A n \in toUs'[p] : n \in toUs[p] \/ Answered(n, NewHost(p))
    BY <2>1, <2>2, FromPeerGood
  <2>4. /\ \A q \in Peers \ {p} : peer'[q] = peer[q]
        /\ peer'[p].conn = peer[p].conn /\ peer'[p].rcv = peer[p].rcv /\ peer'[p].st = "synsent"
    BY <2>1 DEF SlotInv, NetTypes, PeerShape
  <2>5. HostOK(p, Host(p)) => HostOK(p, NewHost(p))
    <3>1. NewHost(p).st = "synsent" /\ Host(p).st \in {"idle", "synsent"} /\ SameButUnder([Host(p) EXCEPT !.st = "synsent"], NewHost(p))
      BY <2>1, <2>4 DEF Host, NewHost, SameButUnder
    <3>2. /\ NewHost(p).conn = Host(p).conn /\ NewHost(p).rcv = Host(p).rcv /\ NewHost(p).got = Host(p).got
          /\ NewHost(p).sent = Host(p).sent
      BY <2>1, <2>4 DEF Host, NewHost
    <3> QED BY <2>1, <3>1, <3>2 DEF HostOK
  <2> QED BY <2>1, <2>3, <2>4, <2>5, HostStays
<1>2. ASSUME NEW n, NEW fin, SendsData(p, n, fin) PROVE StreamInv'
  <2> DEFINE flags == IF fin THEN {"ACK", "FIN"} ELSE {"ACK"}
             data == [i \in 1 .. n |-> <<p, peer[p].una + i - 1>>]
  <2>1. peer[p].st = "est" /\ UNCHANGED <<toPeer, peer, received>> /\ PeerSends(p, FromPeer(p, flags, data))
    BY <1>2 DEF SendsData
  <2>2. "RST" \notin flags /\ peer'[p].conn # 0
    <3>1. Host(p).conn = peer[p].conn /\ Host(p).st = "est" /\ HostOK(p, Host(p))
      BY <2>1, HostIs DEF StreamInv, HostsOK
    <3>2. "RST" \notin flags
      OBVIOUS
    <3> QED BY <2>1, <3>1, <3>2 DEF HostOK
  <2> HIDE DEF flags, data
  <2>3. /\ \A q \in Peers \ {p} : toUs'[q] = toUs[q]
        /\ \A m \in toUs'[p] : m \in toUs[p] \/ Answered(m, NewHost(p))
    BY <2>1, <2>2, FromPeerGood
  <2>4. HostOK(p, Host(p)) => HostOK(p, NewHost(p))
    BY <2>1 DEF Host, NewHost
  <2>5. UNCHANGED <<toPeer, peer, received>>
    BY <2>1
  <2> QED BY <2>3, <2>4, <2>5, HostStays
<1> QED BY <1>1, <1>2 DEF PeerSendsData

LEMMA LosesStep ==
  ASSUME SlotInv, SlotInv', StreamInv, NEW p \in Peers, UNCHANGED <<conn, slot, in_packet, opened, written>>, Loses(p)
  PROVE  StreamInv'
<1>1. UNCHANGED <<peer, received>> /\ \A q \in Peers : toUs'[q] \subseteq toUs[q] /\ toPeer'[q] \subseteq toPeer[q]
  BY DEF Loses, SlotInv, NetTypes
<1>2. \A q \in Peers \ {p} : toUs'[q] = toUs[q] /\ toPeer'[q] = toPeer[q]
  BY DEF Loses, SlotInv, NetTypes
<1>3. HostOK(p, Host(p)) => HostOK(p, NewHost(p))
  BY <1>1 DEF Host, NewHost, HostOK
<1> QED BY <1>1, <1>2, <1>3, HostStays

(* Segment m is taken off the network by host p.                           *)
LEMMA TakesIs ==
  ASSUME SlotInv, NEW p \in Peers, NEW m, NEW new, Takes(p, m, new)
  PROVE  /\ \A q \in Peers \ {p} : peer'[q] = peer[q] /\ toPeer'[q] = toPeer[q]
         /\ peer'[p] = new /\ toPeer'[p] \subseteq toPeer[p]
BY DEF Takes, SlotInv, NetTypes

LEMMA AnswersGood ==
  ASSUME SlotInv, SlotInv', NEW p \in Peers, NEW flags, "RST" \notin flags, peer'[p].conn # 0, Answers(p, flags)
  PROVE  /\ \A q \in Peers \ {p} : toUs'[q] = toUs[q]
         /\ \A n \in toUs'[p] : n \in toUs[p] \/ Answered(n, NewHost(p))
BY FromPeerGood DEF Answers

LEMMA GetsSynStep ==
  ASSUME SlotInv, SlotInv', StreamInv, NEW p \in Peers, UNCHANGED <<conn, slot, in_packet, opened, written>>,
         NEW m \in toPeer[p], GetsSyn(p, m)
  PROVE  StreamInv'
<1> DEFINE h == Host(p)
           g == NewHost(p)
           new == [peer[p] EXCEPT !.st = "synrcvd", !.conn = m.conn, !.rcv = 1]
           flags == {"SYN", "ACK"}
<1>1. /\ p \in Servers /\ peer[p].st \in {"idle", "synrcvd"} /\ m.flags = {"SYN"}
      /\ Takes(p, m, new) /\ Answers(p, flags) /\ UNCHANGED received
  BY DEF GetsSyn, IsSyn
<1>2. "RST" \notin flags
  OBVIOUS
<1>3. PeerShape(peer[p]) /\ new.st = "synrcvd" /\ new.conn = m.conn /\ new.rcv = 1
  BY DEF SlotInv, NetTypes, PeerShape
<1> HIDE DEF new, flags
<1>4. /\ \A q \in Peers \ {p} : peer'[q] = peer[q] /\ toPeer'[q] = toPeer[q]
      /\ peer'[p] = new /\ toPeer'[p] \subseteq toPeer[p]
  BY <1>1, TakesIs
<1>5. /\ HostShape(h) /\ h.st = peer[p].st /\ h.conn = peer[p].conn /\ h.rcv = peer[p].rcv /\ h.got = received[p]
      /\ h.sent = written[p] /\ h.under = toPeer[p]
  BY HostIs
<1>6. /\ g.st = "synrcvd" /\ g.conn = m.conn /\ g.rcv = 1 /\ g.got = received'[p] /\ g.sent = written'[p]
      /\ g.under = toPeer'[p]
  BY <1>3, <1>4, NewHostIs
<1>7. h = Host(p) /\ g = NewHost(p) /\ HostOK(p, h) /\ Numbered(h, opened) /\ \A n \in h.under : SegOK(p, n, h)
  BY <1>5 DEF StreamInv, HostsOK
<1> HIDE DEF h, g
<1>8. "RST" \notin m.flags
  BY <1>1
<1>9. m.conn # 0 /\ (h.conn # 0 => m.conn = h.conn)
  BY <1>1, <1>5, <1>7, <1>8 DEF SegOK
<1>10. /\ \A q \in Peers \ {p} : toUs'[q] = toUs[q]
       /\ \A n \in toUs'[p] : n \in toUs[p] \/ Answered(n, NewHost(p))
  BY <1>1, <1>2, <1>3, <1>4, <1>9, AnswersGood
<1>11. \A q \in Peers \ {p} : peer'[q] = peer[q] /\ received'[q] = received[q] /\ toPeer'[q] = toPeer[q] /\ toUs'[q] = toUs[q]
  BY <1>1, <1>4, <1>10
<1>12. CASE h.conn = 0
  <2>1. g.conn = m.conn /\ g.rcv = 1 /\ g.got = h.got /\ g.sent = h.sent /\ g.under \subseteq h.under /\ g.st \in {"synrcvd", "est"}
    BY <1>1, <1>4, <1>5, <1>6
  <2>2. m \in h.under
    BY <1>5
  <2>3. (m.flags = {"SYN"} /\ p \in Servers) \/ ("RST" \notin m.flags /\ p \notin Servers)
    BY <1>1
  <2>4. /\ HostOK(p, g) /\ Numbered(g, opened) /\ (\A n \in g.under : SegOK(p, n, g)) /\ (\A n : Answered(n, h) => Answered(n, g))
        /\ \A c, slots : ConnOK(c, slots, h) /\ c.peer = p => ConnOK(c, slots, g)
    BY <1>5, <1>7, <1>12, <2>1, <2>2, <2>3, JoinGood
  <2>5. \A n \in toUs'[p] : n \in toUs[p] \/ Answered(n, g)
    BY <1>7, <1>10
  <2> QED BY <1>7, <1>11, <2>4, <2>5, HostMoves
<1>13. CASE h.conn # 0
  <2>1. h.st = "synrcvd" /\ h.rcv = 1
    BY <1>1, <1>5, <1>7, <1>13 DEF HostOK
  <2>2. peer'[p].conn = peer[p].conn /\ peer'[p].rcv = peer[p].rcv /\ received'[p] = received[p]
    BY <1>1, <1>3, <1>4, <1>5, <1>9, <1>13, <2>1
  <2>3. HostOK(p, h) => HostOK(p, g)
    BY <1>1, <1>5, <1>6, <1>9, <1>13, <2>1 DEF HostOK
  <2> QED BY <1>4, <1>7, <1>10, <1>11, <2>2, <2>3, HostStays
<1> QED BY <1>12, <1>13

LEMMA GetsSynAckStep ==
  ASSUME SlotInv, SlotInv', StreamInv, NEW p \in Peers, UNCHANGED <<conn, slot, in_packet, opened, written>>,
         NEW m \in toPeer[p], GetsSynAck(p, m)
  PROVE  StreamInv'
<1> DEFINE h == Host(p)
           g == NewHost(p)
           new == [peer[p] EXCEPT !.st = "est", !.conn = m.conn, !.una = 1, !.rcv = 1]
           flags == {"ACK"}
<1>1. peer[p].st = "synsent" /\ m.flags = {"SYN", "ACK"} /\ Takes(p, m, new) /\ Answers(p, flags) /\ UNCHANGED received
  BY DEF GetsSynAck, IsSynAck
<1>2. "RST" \notin flags
  OBVIOUS
<1>3. PeerShape(peer[p]) /\ new.st = "est" /\ new.conn = m.conn /\ new.rcv = 1
  BY DEF SlotInv, NetTypes, PeerShape
<1> HIDE DEF new, flags
<1>4. /\ \A q \in Peers \ {p} : peer'[q] = peer[q] /\ toPeer'[q] = toPeer[q]
      /\ peer'[p] = new /\ toPeer'[p] \subseteq toPeer[p]
  BY <1>1, TakesIs
<1>5. /\ HostShape(h) /\ h.st = peer[p].st /\ h.conn = peer[p].conn /\ h.rcv = peer[p].rcv /\ h.got = received[p]
      /\ h.sent = written[p] /\ h.under = toPeer[p]
  BY HostIs
<1>6. /\ g.st = "est" /\ g.conn = m.conn /\ g.rcv = 1 /\ g.got = received'[p] /\ g.sent = written'[p]
      /\ g.under = toPeer'[p]
  BY <1>3, <1>4, NewHostIs
<1>7. h = Host(p) /\ g = NewHost(p) /\ HostOK(p, h) /\ Numbered(h, opened) /\ \A n \in h.under : SegOK(p, n, h)
  BY <1>5 DEF StreamInv, HostsOK
<1> HIDE DEF h, g
<1>8. "RST" \notin m.flags
  BY <1>1
<1>9. m.conn # 0 /\ h.conn = 0 /\ p \notin Servers
  BY <1>1, <1>5, <1>7, <1>8, PeerAssumption DEF SegOK, HostOK
<1>10. /\ \A q \in Peers \ {p} : toUs'[q] = toUs[q]
       /\ \A n \in toUs'[p] : n \in toUs[p] \/ Answered(n, NewHost(p))
  BY <1>1, <1>2, <1>3, <1>4, <1>9, AnswersGood
<1>11. \A q \in Peers \ {p} : peer'[q] = peer[q] /\ received'[q] = received[q] /\ toPeer'[q] = toPeer[q] /\ toUs'[q] = toUs[q]
  BY <1>1, <1>4, <1>10
<1>12. g.conn = m.conn /\ g.rcv = 1 /\ g.got = h.got /\ g.sent = h.sent /\ g.under \subseteq h.under /\ g.st \in {"synrcvd", "est"}
  BY <1>1, <1>4, <1>5, <1>6
<1>13. m \in h.under
  BY <1>5
<1>14. /\ HostOK(p, g) /\ Numbered(g, opened) /\ (\A n \in g.under : SegOK(p, n, g)) /\ (\A n : Answered(n, h) => Answered(n, g))
       /\ \A c, slots : ConnOK(c, slots, h) /\ c.peer = p => ConnOK(c, slots, g)
  BY <1>5, <1>7, <1>8, <1>9, <1>12, <1>13, JoinGood
<1>15. \A n \in toUs'[p] : n \in toUs[p] \/ Answered(n, g)
  BY <1>7, <1>10
<1> QED BY <1>7, <1>11, <1>14, <1>15, HostMoves

LEMMA GetsNothingStep ==
  ASSUME SlotInv, SlotInv', StreamInv, NEW p \in Peers, UNCHANGED <<conn, slot, in_packet, opened, written>>,
         NEW m \in toPeer[p], GetsReset(p, m) \/ GetsOther(p, m)
  PROVE  StreamInv'
<1> DEFINE new == IF GetsReset(p, m) THEN [peer[p] EXCEPT !.st = "dead"] ELSE peer[p]
<1>1. Takes(p, m, new) /\ UNCHANGED <<toUs, received>>
  BY DEF GetsReset, GetsOther
<1>2. PeerShape(peer[p]) /\ new.conn = peer[p].conn /\ new.rcv = peer[p].rcv /\ new.st \in {"dead", peer[p].st}
  BY DEF SlotInv, NetTypes, PeerShape
<1> HIDE DEF new
<1>3. /\ \A q \in Peers \ {p} : peer'[q] = peer[q] /\ toPeer'[q] = toPeer[q]
      /\ peer'[p] = new /\ toPeer'[p] \subseteq toPeer[p]
  BY <1>1, TakesIs
<1>4. HostOK(p, Host(p)) => HostOK(p, NewHost(p))
  <2>1. /\ NewHost(p).conn = Host(p).conn /\ NewHost(p).rcv = Host(p).rcv /\ NewHost(p).got = Host(p).got
        /\ NewHost(p).sent = Host(p).sent /\ NewHost(p).st \in {"dead", Host(p).st}
    BY <1>1, <1>2, <1>3, HostIs, NewHostIs
  <2> QED BY <2>1 DEF HostOK
<1> QED BY <1>1, <1>2, <1>3, <1>4, HostStays

LEMMA GetsSegmentStep ==
  ASSUME SlotInv, SlotInv', StreamInv, NEW p \in Peers, UNCHANGED <<conn, slot, in_packet, opened, written>>,
         NEW m \in toPeer[p], GetsSegment(p, m)
  PROVE  StreamInv'
<1> DEFINE h == Host(p)
           g == NewHost(p)
           flags == {"ACK"}
           inOrder == m.seq = peer[p].rcv /\ "SYN" \notin m.flags
           fin == IF "FIN" \in m.flags THEN 1 ELSE 0
           new == [peer[p] EXCEPT
                     !.st = "est",
                     !.una = IF m.ack > @ THEN m.ack ELSE @,
                     !.rcv = IF inOrder THEN @ + Len(m.data) + fin ELSE @,
                     !.eof = @ \/ (inOrder /\ fin = 1)]
<1>1. /\ m.conn = peer[p].conn /\ "RST" \notin m.flags /\ peer[p].st \in {"synrcvd", "est"}
      /\ Takes(p, m, new) /\ received' = [received EXCEPT ![p] = IF inOrder THEN @ \o m.data ELSE @]
      /\ UNCHANGED toUs \/ Answers(p, flags)
  BY DEF GetsSegment, IsForConnection
<1>2. "RST" \notin flags
  OBVIOUS
<1>3. PeerShape(peer[p]) /\ new.st = "est" /\ new.conn = peer[p].conn
      /\ new.rcv = IF inOrder THEN peer[p].rcv + Len(m.data) + fin ELSE peer[p].rcv
  BY DEF SlotInv, NetTypes, PeerShape
<1>4. fin = Fin(m)
  BY DEF Fin
<1>5. p \in DOMAIN received
  BY DEF SlotInv, NetTypes
<1>6. received'[p] = (IF inOrder THEN received[p] \o m.data ELSE received[p]) /\ \A q \in Peers \ {p} : received'[q] = received[q]
  BY <1>1, <1>5 DEF SlotInv, NetTypes
<1> HIDE DEF new, flags, fin
<1>7. /\ \A q \in Peers \ {p} : peer'[q] = peer[q] /\ toPeer'[q] = toPeer[q]
      /\ peer'[p] = new /\ toPeer'[p] \subseteq toPeer[p]
  BY <1>1, TakesIs
<1>8. /\ HostShape(h) /\ h.st = peer[p].st /\ h.conn = peer[p].conn /\ h.rcv = peer[p].rcv /\ h.got = received[p]
      /\ h.sent = written[p] /\ h.under = toPeer[p]
  BY HostIs
<1>9. /\ g.st = "est" /\ g.conn = h.conn /\ g.sent = h.sent /\ g.under \subseteq h.under
      /\ g.got = received'[p] /\ g.rcv = peer'[p].rcv
  BY <1>3, <1>7, <1>8, NewHostIs
<1>10. h = Host(p) /\ g = NewHost(p) /\ HostOK(p, h) /\ Numbered(h, opened) /\ (\A n \in h.under : SegOK(p, n, h)) /\ m \in h.under
  BY <1>8 DEF StreamInv, HostsOK
<1>11. m \in SegRec /\ h.rcv \in Nat /\ h.got \in Block /\ h.conn # 0
  BY <1>1, <1>8, <1>10 DEF HostShape, HostOK
<1>12. Len(m.data) \in Nat /\ Fin(m) \in {0, 1} /\ m.data \in Block
  BY <1>11, SizeIs DEF Fin
<1> HIDE DEF h, g
<1>13. /\ \A q \in Peers \ {p} : toUs'[q] = toUs[q]
       /\ \A n \in toUs'[p] : n \in toUs[p] \/ Answered(n, NewHost(p))
  <2>1. CASE UNCHANGED toUs
    BY <2>1
  <2>2. CASE Answers(p, flags)
    BY <1>2, <1>3, <1>7, <1>8, <1>11, <2>2, AnswersGood
  <2> QED BY <1>1, <2>1, <2>2
<1>14. \A q \in Peers \ {p} : peer'[q] = peer[q] /\ received'[q] = received[q] /\ toPeer'[q] = toPeer[q] /\ toUs'[q] = toUs[q]
  BY <1>6, <1>7, <1>13
<1>15. CASE inOrder /\ Carries(m)
  <2>1. g.rcv = h.rcv + Size(m)
    <3>1. g.rcv = h.rcv + Len(m.data) + Fin(m)
      BY <1>3, <1>4, <1>7, <1>8, <1>9, <1>15
    <3>2. \A x, y, z \in Nat : x + y + z = x + (y + z)
      OBVIOUS
    <3>3. Fin(m) \in Nat
      BY <1>12
    <3> QED BY <1>11, <1>12, <3>1, <3>2, <3>3, Zenon DEF Size
  <2>2. g.got = h.got \o m.data /\ m.seq = h.rcv /\ Carries(m)
    BY <1>6, <1>8, <1>9, <1>15
  <2>3. /\ HostOK(p, g) /\ Numbered(g, opened) /\ (\A n \in g.under : SegOK(p, n, g))
        /\ (\A n \in SegRec : Answered(n, h) => Answered(n, g))
        /\ \A c, slots : ConnShape(c) /\ ConnOK(c, slots, h) /\ c.peer = p => ConnOK(c, slots, g)
    BY <1>8, <1>9, <1>10, <2>1, <2>2, AdvanceGood
  <2>4. \A n \in toUs'[p] : n \in toUs[p] \/ Answered(n, g)
    BY <1>10, <1>13
  <2> QED BY <1>10, <1>14, <2>3, <2>4, HostMoves
<1>16. CASE ~(inOrder /\ Carries(m))
  <2>1. g.rcv = h.rcv /\ g.got = h.got
    <3>1. CASE ~inOrder
      BY <1>3, <1>6, <1>7, <1>8, <1>9, <3>1
    <3>2. CASE inOrder
      <4>1. Fin(m) = 0 /\ Len(m.data) = 0
        <5>1. m.data = <<>> /\ Fin(m) = 0
          BY <1>16, <3>2 DEF Carries, Fin
        <5> QED BY <1>12, <5>1, BlockIs
      <4>2. received[p] \o m.data = received[p]
        BY <1>8, <1>11, <1>12, <4>1, JoinEmpty
      <4>3. \A x \in Nat : x + 0 + 0 = x
        OBVIOUS
      <4>4. h.rcv + Len(m.data) + Fin(m) = h.rcv
        BY <1>11, <4>1, <4>3, Zenon
      <4> QED BY <1>3, <1>4, <1>6, <1>7, <1>8, <1>9, <3>2, <4>2, <4>4
    <3> QED BY <3>1, <3>2
  <2>2. peer'[p].conn = peer[p].conn /\ peer'[p].rcv = peer[p].rcv /\ received'[p] = received[p]
    BY <1>3, <1>7, <1>8, <1>9, <2>1
  <2>3. HostOK(p, h) => HostOK(p, g)
    BY <1>9, <1>11, <2>1 DEF HostOK
  <2>4. HostOK(p, Host(p)) => HostOK(p, NewHost(p))
    BY <1>10, <2>3
  <2> QED BY <1>7, <1>13, <1>14, <2>2, <2>4, HostStays
<1> QED BY <1>15, <1>16

LEMMA PeerStreams ==
  ASSUME Resets = {}, SlotInv, SlotInv', StreamInv, Peer PROVE StreamInv'
<1>1. PICK p \in Peers : PeerStep(p)
  BY DEF Peer
<1>2. UNCHANGED <<conn, slot, in_packet, opened, written>>
  BY DEF Peer, sketchVars
<1>3. CASE Connects(p) \/ PeerSendsData(p)
  BY <1>2, <1>3, HostSendsStep
<1>4. CASE Loses(p)
  BY <1>2, <1>4, LosesStep
<1>5. ASSUME NEW m \in toPeer[p], GetsSyn(p, m) PROVE StreamInv'
  BY <1>2, <1>5, GetsSynStep
<1>6. ASSUME NEW m \in toPeer[p], GetsSynAck(p, m) PROVE StreamInv'
  BY <1>2, <1>6, GetsSynAckStep
<1>7. ASSUME NEW m \in toPeer[p], GetsReset(p, m) \/ GetsOther(p, m) PROVE StreamInv'
  BY <1>2, <1>7, GetsNothingStep
<1>8. ASSUME NEW m \in toPeer[p], GetsSegment(p, m) PROVE StreamInv'
  BY <1>2, <1>8, GetsSegmentStep
<1>9. ~ResetsConnection(p)
  BY DEF ResetsConnection
<1> QED BY <1>1, <1>3, <1>4, <1>5, <1>6, <1>7, <1>8, <1>9 DEF PeerStep, Gets

(***************************************************************************)
(* Steps of the sketch                                                     *)
(***************************************************************************)
(* Steps that keep uIP, the network and the blocks to be sent.             *)
LEMMA QuietStreams ==
  ASSUME SlotInv, SlotInv', StreamInv, UNCHANGED tcpVars, UNCHANGED written,
         \A j \in Conns : slot'[j].out = slot[j].out
  PROVE  StreamInv'
<1>1. UNCHANGED <<conn, opened, peer, received, in_packet, toUs, toPeer>>
  BY DEF tcpVars, netVars
<1>2. \A j \in Conns : conn[j].app # NoSlot => slot'[conn[j].app].out = slot[conn[j].app].out
  BY DEF SlotInv, UipTypes, ConnShape
<1> QED BY <1>1, <1>2, StillStep

LEMMA ReadByteStreams ==
  ASSUME SlotInv, SlotInv', StreamInv, ReadByte PROVE StreamInv'
<1> DEFINE o == slot[client]
           n == Read(slot[client], conn[client].stopped)
<1>1. client # NoSlot /\ o.in # <<>> /\ slot' = [slot EXCEPT ![client] = n] /\ UNCHANGED <<tcpVars, written>>
  BY DEF ReadByte
<1>2. client \in Conns /\ SlotOK(o) /\ DOMAIN slot = Conns
  BY <1>1 DEF SlotInv, SketchTypes, UipTypes
<1>3. n.out = o.out
  BY <1>1, <1>2, ReadIs
<1> HIDE DEF n
<1>4. \A j \in Conns : slot'[j].out = slot[j].out
  BY <1>1, <1>2, <1>3
<1> QED BY <1>1, <1>4, QuietStreams

LEMMA StopStreams ==
  ASSUME SlotInv, SlotInv', StreamInv, Stop PROVE StreamInv'
<1>1. client \in Conns /\ DOMAIN slot = Conns /\ SlotOK(slot[client]) /\ UNCHANGED <<tcpVars, written>>
  BY DEF Stop, SlotInv, SketchTypes, UipTypes
<1>2. CASE ~InUse(slot[client])
  <2>1. UNCHANGED slot
    BY <1>2 DEF Stop
  <2> QED BY <1>1, <2>1, QuietStreams
<1>3. CASE InUse(slot[client])
  <2> DEFINE n == Stopped(slot[client])
  <2>1. slot' = [slot EXCEPT ![client] = n]
    BY <1>3 DEF Stop
  <2>2. n.out = slot[client].out
    BY <1>1, <1>3, StoppedIs
  <2> HIDE DEF n
  <2>3. \A j \in Conns : slot'[j].out = slot[j].out
    BY <1>1, <2>1, <2>2
  <2> QED BY <1>1, <2>3, QuietStreams
<1> QED BY <1>2, <1>3

LEMMA ConnectStreams ==
  ASSUME SlotInv, SlotInv', StreamInv, NEW p \in Servers, Connect(p) PROVE StreamInv'
<1>1. PICK i \in Candidates : conn' = [conn EXCEPT ![i] = Opened(i, "SYN_SENT", p, conn[i].rcv, "own")]
  BY DEF Connect
<1> DEFINE rcv == conn[i].rcv
           c == Opened(i, "SYN_SENT", p, rcv, "own")
           out == {}
           kept == in_packet
<1>2. /\ UNCHANGED <<slot, free, in_packet, written, toUs, toPeer, peer, received>> /\ opened' = opened + 1
      /\ peer[p].st = "idle" /\ toPeer[p] = {} /\ NoMatch(p) /\ p \in Peers
  BY DEF Connect, netVars, Peers
<1>3. rcv \in Nat
  BY CandidateIs DEF SlotInv, UipTypes, ConnShape
<1>4. c = Opened(i, "SYN_SENT", p, rcv, "own") /\ conn' = [conn EXCEPT ![i] = c]
  BY <1>1
<1>5. Reaches(p, out) /\ \A m \in out : m \in Reply(c, {"SYN", "ACK"}, <<>>)
  BY <1>2 DEF Reaches
<1>6. kept \in SUBSET in_packet /\ in_packet' = kept /\ \A q \in Peers : toUs'[q] \subseteq toUs[q]
  BY <1>2
<1> HIDE DEF rcv, c, out, kept
<1>7. UNCHANGED <<slot, free, peer, received, written>>
  BY <1>2
<1> QED BY <1>2, <1>3, <1>4, <1>5, <1>6, <1>7, OpenedStreams

(* More was written for a host that has a connection.                      *)
LEMMA SentMore ==
  ASSUME NEW p, NEW h, NEW g, HostShape(h), HostOK(p, h), h.conn # 0,
         g.st = h.st, g.conn = h.conn, g.rcv = h.rcv, g.got = h.got, g.under = h.under, g.sent \in Nat, h.sent <= g.sent,
         \A m \in h.under : SegOK(p, m, h), NEW top, Numbered(h, top)
  PROVE  HostOK(p, g) /\ Numbered(g, top) /\ (\A m \in g.under : SegOK(p, m, g)) /\ (\A m : Answered(m, h) => Answered(m, g))
<1>1. HostOK(p, g)
  <2>1. Len(h.got) \in Nat /\ h.sent \in Nat
    BY BlockIs DEF HostShape
  <2>2. Len(h.got) <= g.sent
    BY <2>1 DEF HostOK
  <2> QED BY <2>2 DEF HostOK
<1>2. ASSUME NEW m \in h.under PROVE SegOK(p, m, g)
  <2>1. SegOK(p, m, h) /\ m \in SegRec /\ h.sent \in Nat
    BY DEF HostShape
  <2>2. m.seq \in Nat /\ Len(m.data) \in Nat
    BY <2>1, SizeIs
  <2>3. m.seq + Len(m.data) <= h.sent + 1 => m.seq + Len(m.data) <= g.sent + 1
    BY <2>1, <2>2
  <2>4. CarriesOK(p, m, h) => CarriesOK(p, m, g)
    BY <2>3 DEF CarriesOK, Ended
  <2> QED BY <2>1, <2>4 DEF SegOK
<1> QED BY <1>1, <1>2 DEF Numbered, Answered

(* A connection whose slot has been written to.                            *)
LEMMA WroteGood ==
  ASSUME NEW i \in Conns, NEW c, c = conn[i], SlotInv, NEW p \in Peers, c.peer = p, c.app \in Conns, c.app # NoSlot,
         NEW h, HostShape(h), ConnOK(c, slot, h), NEW o, o = slot[c.app],
         NEW bytes \in Block, Len(bytes) \in 1 .. DataLen, Bytes(bytes, p, h.sent + 1), NEW f \in Nat,
         NEW slots, slots[c.app].out = Wrote(o, bytes, f).out,
         NEW g, g.conn = h.conn, g.rcv = h.rcv, g.got = h.got, g.under = h.under,
         g.sent = h.sent + Len(bytes) - Wrote(o, bytes, f).left
  PROVE  ConnOK(c, slots, g)
<1> DEFINE w == Wrote(o, bytes, f)
           z == h.sent + 1
<1>1. ConnShape(c) /\ SlotOK(o) /\ InFlight(c, slot)
  BY DEF SlotInv, UipTypes
<1>2. c.st = "ESTABLISHED" /\ Used(c) /\ Synced(c) /\ SyncedOK(c, slot, h) /\ UsedOK(c, h)
  BY DEF ConnOK, Used, Synced
<1>3. c.snd \in Nat /\ z \in Nat /\ h.sent \in Nat /\ Len(bytes) \in Nat
  BY <1>1, BlockIs DEF ConnShape, HostShape
<1>4. Chain(o.out, p, c.snd, z) /\ Bytes(bytes, p, z)
  BY <1>2 DEF SyncedOK
<1>5. w.left \in 0 .. Len(bytes) /\ (o.out # <<>> /\ (Len(o.out) = 1 => o.room = 0) => w.out # <<>>)
  <2> DEFINE n == [o EXCEPT !.out = Wrote(o, bytes, f).out, !.room = Wrote(o, bytes, f).room]
  <2>1. n = [o EXCEPT !.out = Wrote(o, bytes, f).out, !.room = Wrote(o, bytes, f).room]
    OBVIOUS
  <2>2. n.out = w.out
    BY <1>1 DEF SlotOK, SlotShape
  <2> HIDE DEF n
  <2>3. w.left \in 0 .. Len(bytes) /\ Steady(o, n)
    BY <1>1, <2>1, WroteIs
  <2> QED BY <2>2, <2>3 DEF Steady
<1> HIDE DEF z
<1>6. /\ Chain(w.out, p, c.snd, z + Len(bytes) - w.left)
      /\ o.out # <<>> /\ (Len(o.out) = 1 => o.room = 0) => Head(w.out) = Head(o.out)
  BY <1>1, <1>3, <1>4, WroteChain
<1> HIDE DEF w
<1>7. SyncedOK(c, slots, g)
  <2>1. ASSUME NEW m \in g.under, Carries(m), m.seq = g.rcv PROVE Payload(c, m, slots)
    <3>1. Payload(c, m, slot) /\ Size(m) \in Nat /\ Size(m) > 0
      BY <1>2, <2>1, SizeIs DEF SyncedOK, HostShape
    <3>2. c.len > 0
      BY <3>1 DEF Payload
    <3>3. o.out # <<>> /\ (Len(o.out) = 1 => o.room = 0)
      BY <1>1, <1>2, <3>2 DEF InFlight
    <3> QED BY <1>2, <1>5, <1>6, <3>1, <3>3 DEF Payload, w
  <2>2. g.sent + 1 = z + Len(bytes) - w.left
    BY <1>3, <1>5 DEF w, z
  <2>3. Chain(slots[c.app].out, c.peer, c.snd, g.sent + 1)
    BY <1>6, <2>2 DEF w
  <2>4. ~Ended(g) /\ c.st \notin Sent_Fin /\ c.st \notin Fin_Acked /\ c.st \notin Ending
    BY <1>2 DEF SyncedOK, Ended, Sent_Fin, Fin_Acked, Ending
  <2> QED BY <1>2, <2>1, <2>3, <2>4 DEF SyncedOK
<1>8. UsedOK(c, g) /\ c.st \notin Half
  BY <1>2 DEF UsedOK, Half
<1> QED BY <1>2, <1>7, <1>8 DEF ConnOK

LEMMA WriteStepStreams ==
  ASSUME SlotInv, SlotInv', StreamInv, WriteStep PROVE StreamInv'
<1> DEFINE owner == Owner(client)
           bytes == [k \in 1 .. call.left |-> <<owner, written[owner] + k>>]
           o == slot[client]
           w == Wrote(o, bytes, free)
<1>1. /\ call.op = "write" /\ slot' = [slot EXCEPT ![client].out = w.out, ![client].room = w.room]
      /\ written' = [written EXCEPT ![owner] = @ + call.left - w.left]
      /\ UNCHANGED <<conn, in_packet, opened, toUs, toPeer, peer, received>>
  BY DEF WriteStep, tcpVars, netVars
<1>2. call.left \in 1 .. DataLen /\ client \in Conns /\ client # NoSlot
  BY <1>1, WriteCallIs DEF SlotInv, SketchTypes
<1>3. owner \in Peers \union {Nobody} /\ written[owner] \in Nat /\ written \in [Peers \union {Nobody} -> Nat]
  BY OwnerIs DEF SlotInv, SketchTypes
<1>4. (\E i \in Conns : conn[i].app = client) => \E i \in Conns : conn[i].app = client /\ owner = conn[i].peer
  BY DEF Owner
<1>5. (~\E i \in Conns : conn[i].app = client) => owner = Nobody
  BY DEF Owner
<1> HIDE DEF owner
<1>6. bytes \in Block /\ Len(bytes) = call.left
  <2>1. \A k \in 1 .. call.left : <<owner, written[owner] + k>> \in Byte
    BY <1>3 DEF Byte
  <2>2. bytes \in [1 .. call.left -> Byte] /\ call.left \in Nat
    BY <1>2, <2>1, SlotAssumption
  <2>3. \A k \in Nat : \A g \in [1 .. k -> Byte] : g \in Seq(Byte) /\ Len(g) = k
    OBVIOUS
  <2> QED BY <2>2, <2>3, Zenon DEF Block
<1>7. Bytes(bytes, owner, written[owner] + 1)
  <2>1. ASSUME NEW j \in 1 .. Len(bytes) PROVE bytes[j] = <<owner, (written[owner] + 1) + j - 1>>
    <3>1. bytes[j] = <<owner, written[owner] + j>> /\ j \in Nat
      BY <1>2, <1>6, SlotAssumption
    <3>2. \A x, y \in Nat : x + y = (x + 1) + y - 1
      OBVIOUS
    <3> QED BY <1>3, <3>1, <3>2
  <2> QED BY <2>1 DEF Bytes
<1> HIDE DEF bytes
<1>8. /\ SlotOK(o) /\ DOMAIN slot = Conns /\ slot'[client].out = w.out
      /\ \A j \in Conns \ {client} : slot'[j] = slot[j]
  BY <1>1, <1>2 DEF SlotInv, UipTypes, SlotOK, SlotShape
<1>9. free \in Nat /\ w.left \in 0 .. Len(bytes)
  <2> DEFINE n == [o EXCEPT !.out = Wrote(o, bytes, free).out, !.room = Wrote(o, bytes, free).room]
  <2>1. n = [o EXCEPT !.out = Wrote(o, bytes, free).out, !.room = Wrote(o, bytes, free).room] /\ free \in Nat
    BY DEF SlotInv, UipTypes
  <2> HIDE DEF n
  <2> QED BY <1>2, <1>6, <1>8, <2>1, WroteIs
<1> HIDE DEF w
<1>10. \A q \in Peers \ {owner} : written'[q] = written[q]
  BY <1>1, <1>3
<1>11. \A q \in Peers \ {owner} : NewHost(q) = Host(q)
  BY <1>1, <1>10 DEF Host, NewHost
<1>12. CASE owner = Nobody
  <2>1. ~\E i \in Conns : conn[i].app = client
    <3>1. ASSUME NEW i \in Conns, conn[i].app = client, owner = conn[i].peer PROVE FALSE
      BY <1>2, <1>12, <3>1, PeerAssumption DEF StreamInv, ConnsOK, ConnOK, UsedOK, Used
    <3> QED BY <1>4, <3>1
  <2>2. \A j \in Conns : conn[j].app # NoSlot => slot'[conn[j].app].out = slot[conn[j].app].out
    BY <1>8, <2>1 DEF SlotInv, UipTypes, ConnShape
  <2>3. \A q \in Peers : written'[q] = written[q]
    BY <1>10, <1>12, PeerAssumption
  <2> QED BY <1>1, <2>2, <2>3, StillStep
<1>13. CASE owner \in Peers
  <2> DEFINE h == Host(owner)
             g == NewHost(owner)
  <2>1. PICK i \in Conns : conn[i].app = client /\ owner = conn[i].peer
    BY <1>4, <1>5, <1>13, PeerAssumption
  <2>2. /\ HostShape(h) /\ h.st = peer[owner].st /\ h.conn = peer[owner].conn /\ h.rcv = peer[owner].rcv
        /\ h.got = received[owner] /\ h.sent = written[owner] /\ h.under = toPeer[owner]
    BY <1>13, HostIs
  <2>3. /\ g.st = peer'[owner].st /\ g.conn = peer'[owner].conn /\ g.rcv = peer'[owner].rcv
        /\ g.got = received'[owner] /\ g.sent = written'[owner] /\ g.under = toPeer'[owner]
    BY <1>13, NewHostIs
  <2>4. h = Host(owner) /\ g = NewHost(owner) /\ HostOK(owner, h) /\ Numbered(h, opened) /\ \A m \in h.under : SegOK(owner, m, h)
    BY <1>13, <2>2 DEF StreamInv, HostsOK
  <2>5. g.st = h.st /\ g.conn = h.conn /\ g.rcv = h.rcv /\ g.got = h.got /\ g.under = h.under
    BY <1>1, <2>2, <2>3
  <2>6. ConnOK(conn[i], slot, h)
    BY <2>1 DEF StreamInv, ConnsOK
  <2> HIDE DEF h, g
  <2>7. conn[i].st = "ESTABLISHED" /\ Used(conn[i]) /\ h.conn # 0
    <3>1. conn[i].st = "ESTABLISHED"
      BY <1>2, <2>1, <2>6 DEF ConnOK
    <3>2. Used(conn[i]) /\ Synced(conn[i])
      BY <3>1 DEF Used, Synced
    <3>3. h.conn = conn[i].iss /\ conn[i].iss >= 1
      BY <2>6, <3>2 DEF ConnOK, UsedOK, SyncedOK
    <3> QED BY <3>1, <3>2, <3>3
  <2>8. g.sent = h.sent + Len(bytes) - w.left /\ g.sent \in Nat /\ h.sent <= g.sent
    <3>1. \A a, b \in Nat : \A d \in 0 .. b : a + b - d \in Nat /\ a <= a + b - d
      OBVIOUS
    <3>2. Len(bytes) \in Nat
      BY <1>6, BlockIs
    <3>3. g.sent = h.sent + Len(bytes) - w.left
      BY <1>1, <1>3, <1>6, <2>2, <2>3
    <3> QED BY <1>3, <1>9, <2>2, <3>1, <3>2, <3>3
  <2>9. /\ HostOK(owner, g) /\ Numbered(g, opened) /\ (\A m \in g.under : SegOK(owner, m, g))
        /\ \A m : Answered(m, h) => Answered(m, g)
    BY <2>2, <2>4, <2>5, <2>7, <2>8, SentMore
  <2>10. \A q \in Peers : HostOK(q, NewHost(q)) /\ Numbered(NewHost(q), opened')
                           /\ \A m \in toPeer'[q] : SegOK(q, m, NewHost(q))
    <3> TAKE q \in Peers
    <3>1. CASE q = owner
      BY <1>1, <2>2, <2>4, <2>5, <2>9, <3>1
    <3>2. CASE q # owner
      <4>1. NewHost(q) = Host(q) /\ Host(q).under = toPeer[q]
        BY <1>11, <3>2, HostIs
      <4> QED BY <1>1, <4>1 DEF StreamInv, HostsOK
    <3> QED BY <3>1, <3>2
  <2>11. \A q \in Peers : \A m : Answered(m, Host(q)) => Answered(m, NewHost(q))
    BY <1>11, <2>4, <2>9
  <2>12. \A q \in Peers : \A m \in toUs'[q] : Answered(m, NewHost(q))
    BY <1>1, <2>11 DEF StreamInv, AnswersOK
  <2>13. \A packet \in in_packet' : Answered(packet.seg, NewHost(packet.from))
    <3>1. \A packet \in in_packet : packet.from \in Peers
      BY DEF SlotInv, UipTypes, Packets
    <3> QED BY <1>1, <2>11, <3>1 DEF StreamInv, AnswersOK
  <2>14. ConnOK(conn[i], slot', g)
    <3> DEFINE c == conn[i]
               a == slot'
    <3>1. /\ c.peer = owner /\ c.app \in Conns /\ c.app # NoSlot /\ o = slot[c.app] /\ ConnOK(c, slot, h)
          /\ a[c.app].out = Wrote(o, bytes, free).out /\ c = conn[i]
      BY <1>2, <1>8, <2>1, <2>6 DEF w
    <3>2. Len(bytes) \in 1 .. DataLen /\ Bytes(bytes, owner, h.sent + 1) /\ HostShape(h)
      BY <1>2, <1>6, <1>7, <2>2
    <3>3. g.sent = h.sent + Len(bytes) - Wrote(o, bytes, free).left
      BY <2>8 DEF w
    <3> HIDE DEF c, a, o
    <3>4. ConnOK(c, a, g)
      BY <1>6, <1>9, <1>13, <2>5, <3>1, <3>2, <3>3, WroteGood
    <3> QED BY <3>4 DEF c, a
  <2>15. ASSUME NEW j \in Conns
         PROVE  ConnOK(conn'[j], slot', NewHost(conn'[j].peer)) /\ (Used(conn'[j]) => conn'[j].iss <= opened')
    <3>1. ConnOK(conn[j], slot, Host(conn[j].peer)) /\ (Used(conn[j]) => conn[j].iss <= opened) /\ conn' = conn /\ opened' = opened
      BY <1>1 DEF StreamInv, ConnsOK
    <3>2. CASE j = i
      BY <2>1, <2>4, <2>14, <3>1, <3>2
    <3>3. CASE j # i
      <4>1. conn[j].app # client
        BY <1>2, <2>1, <3>3 DEF SlotInv, Owners
      <4>2. conn[j].app # NoSlot => slot'[conn[j].app].out = slot[conn[j].app].out
        BY <1>8, <4>1 DEF SlotInv, UipTypes, ConnShape
      <4>3. ~Used(conn[j]) => ~conn[j].stopped
        BY <3>1 DEF ConnOK
      <4>4. ConnOK(conn[j], slot', Host(conn[j].peer))
        BY <3>1, <4>2, <4>3, ConnOKSame
      <4>5. CASE Used(conn[j])
        <5>1. conn[j].peer \in Peers \ {owner}
          BY <2>1, <2>7, <3>1, <3>3, <4>5 DEF ConnOK, UsedOK, StreamInv, OneEach
        <5> QED BY <1>11, <3>1, <4>4, <5>1
      <4>6. CASE ~Used(conn[j])
        <5>1. \A x : ConnOK(conn[j], slot', x)
          BY <4>4, <4>6 DEF ConnOK, Used, Half, Synced, Sent_Fin, Fin_Acked
        <5> QED BY <3>1, <4>6, <5>1
      <4> QED BY <4>5, <4>6
    <3> QED BY <3>2, <3>3
  <2>16. \A j, k \in Conns : Used(conn'[j]) /\ Used(conn'[k]) /\ conn'[j].peer = conn'[k].peer => j = k
    BY <1>1 DEF StreamInv, OneEach
  <2> QED BY <2>10, <2>12, <2>13, <2>15, <2>16, StreamsNext
<1> QED BY <1>3, <1>12, <1>13

LEMMA SketchStreams ==
  ASSUME SlotInv, SlotInv', StreamInv, Sketch PROVE StreamInv'
<1>1. CASE ReadByte
  BY <1>1, ReadByteStreams
<1>2. CASE Stop
  BY <1>2, StopStreams
<1>3. CASE WriteStep
  BY <1>3, WriteStepStreams
<1>4. ASSUME NEW p \in Servers, Connect(p) PROVE StreamInv'
  BY <1>4, ConnectStreams
<1>5. CASE Available \/ WriteFails \/ ConnectReturns \/ \E n \in 1 .. DataLen : Write(n)
  <2>1. UNCHANGED <<tcpVars, slot, written>>
    BY <1>5 DEF Available, WriteFails, ConnectReturns, Write
  <2> QED BY <2>1, QuietStreams
<1> QED BY <1>1, <1>2, <1>3, <1>4, <1>5 DEF Sketch

(***************************************************************************)
(* The invariant of the streams                                            *)
(***************************************************************************)
LEMMA NextStreams ==
  ASSUME Resets = {}, SlotInv, SlotInv', StreamInv, Next PROVE StreamInv'
BY PeerStreams, TimerStreams, InputStreams, SketchStreams DEF Next, Uip

LEMMA StutterStreams ==
  ASSUME SlotInv, SlotInv', StreamInv, UNCHANGED vars PROVE StreamInv'
<1>1. UNCHANGED tcpVars /\ UNCHANGED written /\ \A j \in Conns : slot'[j].out = slot[j].out
  BY DEF vars, sketchVars, tcpVars, netVars
<1> QED BY <1>1, QuietStreams

LEMMA InitStreams ==
  ASSUME Init PROVE StreamInv
<1> DEFINE c == ClosedConn(NoSlot, "none")
<1>1. /\ conn = [i \in Conns |-> c] /\ in_packet = {} /\ opened = 0
      /\ written = [p \in Peers \union {Nobody} |-> 0] /\ PeerInit
  BY DEF Init
<1>2. c.st = "CLOSED" /\ ~c.stopped /\ c.len = 0 /\ c.app = NoSlot
  BY ClosedConnIs DEF ClosedConn
<1> HIDE DEF c
<1>3. \A p \in Peers : /\ Host(p).st = "idle" /\ Host(p).conn = 0 /\ Host(p).got = <<>> /\ Host(p).sent = 0 /\ Host(p).under = {}
                       /\ toPeer[p] = {} /\ toUs[p] = {}
  BY <1>1 DEF PeerInit, Host
<1>4. HostsOK /\ AnswersOK
  <2>1. Len(<<>>) = 0
    OBVIOUS
  <2>2. \A p \in Peers : HostOK(p, Host(p))
    BY <1>3, <2>1 DEF HostOK, Bytes
  <2>3. \A p \in Peers : Numbered(Host(p), opened)
    BY <1>1, <1>3 DEF Numbered
  <2> QED BY <1>1, <1>3, <2>2, <2>3 DEF HostsOK, AnswersOK
<1>5. ConnsOK /\ OneEach
  <2>1. \A i \in Conns : conn[i] = c /\ ~Used(conn[i]) /\ ConnOK(conn[i], slot, Host(conn[i].peer))
    BY <1>1, <1>2, UnusedOK DEF Used
  <2> QED BY <2>1 DEF ConnsOK, OneEach
<1> QED BY <1>4, <1>5 DEF StreamInv

(* What a host has got is what was written for it, and once stop() has     *)
(* closed a connection it has got all of it.                               *)
LEMMA StreamsTell == ASSUME SlotInv, StreamInv PROVE WritesStream /\ CloseDelivers
<1>1. ASSUME NEW p \in Peers
      PROVE  received[p] = [k \in 1 .. Len(received[p]) |-> <<p, k>>] /\ Len(received[p]) <= written[p]
  <2> DEFINE b == received[p]
  <2>1. b \in Seq(Byte) /\ Bytes(b, p, 1) /\ Len(b) <= written[p]
    BY DEF SlotInv, NetTypes, Block, StreamInv, HostsOK, HostOK, Host
  <2> HIDE DEF b
  <2>2. Len(b) \in Nat /\ b = [k \in 1 .. Len(b) |-> b[k]]
    BY <2>1
  <2>3. \A k \in 1 .. Len(b) : b[k] = <<p, k>>
    <3>1. \A k \in 1 .. Len(b) : b[k] = <<p, 1 + k - 1>> /\ 1 + k - 1 = k
      BY <2>1, <2>2 DEF Bytes
    <3> QED BY <3>1
  <2>4. b = [k \in 1 .. Len(b) |-> <<p, k>>]
    BY <2>2, <2>3
  <2> QED BY <2>1, <2>4 DEF b
<1>2. ASSUME NEW i \in Conns, conn[i].st \in Ending PROVE Len(received[conn[i].peer]) = written[conn[i].peer]
  <2>1. Synced(conn[i])
    BY <1>2 DEF Ending, Synced, Sent_Fin, Fin_Acked
  <2>2. SyncedOK(conn[i], slot, Host(conn[i].peer))
    BY <2>1 DEF StreamInv, ConnsOK, ConnOK
  <2> QED BY <1>2, <2>2 DEF SyncedOK, Host
<1> QED BY <1>1, <1>2 DEF WritesStream, CloseDelivers, Ending

(* StreamInv: block chain, sequence numbers and host agree for every       *)
(* connection, as long as no host resets its connection.                   *)
THEOREM StreamsAgree == ASSUME Resets = {} PROVE Spec => []StreamInv
<1>1. Init => StreamInv
  BY InitStreams
<1>2. SlotInv /\ SlotInv' /\ StreamInv /\ [Next]_vars => StreamInv'
  BY NextStreams, StutterStreams
<1> QED BY <1>1, <1>2, SlotsInOrder, PTL DEF Spec

(* WritesStream: a host receives the bytes that the sketch has written for *)
(* it, in order and each once, however segments are lost, repeated and     *)
(* retransmitted and blocks filled up meanwhile.                           *)
THEOREM HostsGetWhatIsWritten == ASSUME Resets = {} PROVE Spec => []WritesStream
<1>1. SlotInv /\ StreamInv => WritesStream
  BY StreamsTell
<1> QED BY <1>1, SlotsInOrder, StreamsAgree, PTL

(* CloseDelivers: stop() closes a connection only when its host has        *)
(* received everything that was written (UIPClient.cpp:449).               *)
THEOREM CloseWaitsForAll == ASSUME Resets = {} PROVE Spec => []CloseDelivers
<1>1. SlotInv /\ StreamInv => CloseDelivers
  BY StreamsTell
<1> QED BY <1>1, SlotsInOrder, StreamsAgree, PTL

(***************************************************************************)
(* What the sketch reads                                                   *)
(***************************************************************************)
(* A host that has not been given its connection sends no data, and nothing*)
(* of a connection that is still being made has been read.                 *)
Early == {"idle", "synsent", "synrcvd"}
NextByte(p) == Len(read[p]) + 1
Made(c, p) == ~(c.st \in Half /\ c.peer = p /\ c.iss = peer[p].conn)
Unserved(c, p) == peer[p].st \in Early \/ ~Made(c, p)

(* What is under way from host p carries the bytes its number says.        *)
GivenOK(p, m) ==
  /\ Bytes(m.data, p, m.seq)
  /\ "SYN" \in m.flags => m.seq = 0 /\ m.data = <<>>
  /\ m.data # <<>> => peer[p].st \notin Early

(* The blocks of a slot go on from the last byte read, up to z; with a     *)
(* connection that brings more they are never too many, the last one stops *)
(* it, and read asks for a restart of a stopped one only.                  *)
Unread(o, p, z) == Chain(o.in, p, NextByte(p), z) /\ (o.in # <<>> => p \in Peers /\ peer[p].st \notin Early)
Fills(c, o, p, z) ==
  /\ Unread(o, p, z) /\ Len(o.in) <= NumPackets /\ (Len(o.in) = NumPackets => c.stopped)
  /\ "RESTART" \in o.state => c.stopped /\ Len(o.in) < NumPackets

UnreadOK(c, o) ==
  /\ o.in # <<>> => \E q \in Peers, z \in Nat : Unread(o, q, z) /\ Made(c, q)
  /\ c.app # NoSlot /\ "CLOSE" \notin o.state => Fills(c, o, c.peer, c.rcv)
  /\ c.st = "SYN_RCVD" => c.rcv = 1
  /\ c.st \in Half => ~c.stopped

Given == \A p \in Peers : \A m \in toUs[p] : GivenOK(p, m)
Readings ==
  /\ DOMAIN read = Peers
  /\ \A p \in Peers : \E n \in Nat : read[p] = [k \in 1 .. n |-> k]
  /\ \A p \in Peers, i \in Conns : Unserved(conn[i], p) => read[p] = <<>>
ReadsInv == in_packet = {} /\ Given /\ Readings /\ \A i \in Conns : UnreadOK(conn[i], slot[i])

(* There is a block of the packet memory for every packet a slot may hold. *)
HasRoom == \A i \in Conns : Len(slot[i].in) < NumPackets => free > 0

LEMMA NextByteIs == ASSUME Readings, NEW p \in Peers PROVE NextByte(p) \in Nat /\ (read[p] = <<>> => NextByte(p) = 1)
<1>1. PICK n \in Nat : read[p] = [k \in 1 .. n |-> k]
  BY DEF Readings
<1>2. Len(read[p]) = n
  BY <1>1
<1> QED BY <1>2 DEF NextByte

(***************************************************************************)
(* The stages of uipclient_appcall for the chain of unread blocks          *)
(***************************************************************************)
Taking(w, p, z) == w.kept = {} /\ ("CLOSE" \notin Own(w).state => Fills(w.c, Own(w), p, z))

LEMMA StoredTakes ==
  ASSUME NEW w, Ready(w), NEW packet \in Packets, NEW p \in Peers, NextByte(p) \in Nat, NEW z \in Nat, Taking(w, p, z),
         packet.seg.data # <<>>, Bytes(packet.seg.data, p, z), peer[p].st \notin Early, ~w.c.stopped,
         Len(Own(w).in) < NumPackets => w.free > 0
  PROVE  Taking(Stored(w, packet), p, z + Len(packet.seg.data))
<1> DEFINE r == Stored(w, packet)
           s == w.c.app
           o == w.slot[s]
           data == packet.seg.data
<1>1. s \in Conns /\ SlotOK(o) /\ Effect(w) /\ Serves(o) /\ Own(w) = o /\ data \in Block
  BY DEF Ready, Effect, Own, Packets, SegRec
<1>2. CASE Refuses(o)
  <2>1. r = w /\ "CLOSE" \in o.state
    BY <1>1, <1>2 DEF Stored, Own, Refuses, Serves
  <2> QED BY <1>1, <2>1 DEF Taking
<1>3. CASE ~Refuses(o)
  <2>1. "CLOSE" \notin o.state /\ Fills(w.c, o, p, z) /\ w.kept = {}
    BY <1>1, <1>3 DEF Taking, Refuses
  <2>2. o.in \in Seq(Block) /\ Filled(o.in) /\ Len(o.in) \in Nat /\ NumPackets \in Nat /\ Len(data) \in Nat
    BY <1>1, SlotAssumption, BlockIs DEF SlotOK, SlotShape
  <2>3. Len(o.in) < NumPackets /\ w.free > 0 /\ "RESTART" \notin o.state
    BY <1>1, <2>1, <2>2 DEF Fills
  <2>4. /\ r.slot[s].in = Append(o.in, data) /\ r.slot[s].state = o.state /\ r.c.app = s /\ r.kept = w.kept
        /\ r.c.stopped = (w.c.stopped \/ Len(o.in) + 1 = NumPackets)
    BY <1>1, <1>3, <2>3 DEF Stored, Own, Effect, ConnShape, SlotOK, SlotShape
  <2>5. Own(r) = r.slot[s]
    BY <2>4 DEF Own
  <2> HIDE DEF r, o, s, data
  <2>6. Chain(o.in, p, NextByte(p), z)
    BY <2>1 DEF Fills, Unread
  <2>7. Chain(Append(o.in, data), p, NextByte(p), z + Len(data))
    BY <1>1, <2>2, <2>6, ChainAppend DEF data
  <2>8. Len(Append(o.in, data)) = Len(o.in) + 1
    BY <1>1, <2>2
  <2>9. Fills(r.c, r.slot[s], p, z + Len(data))
    <3>1. Len(r.slot[s].in) <= NumPackets
      BY <2>2, <2>3, <2>4, <2>8
    <3>2. Len(r.slot[s].in) = NumPackets => r.c.stopped
      BY <2>2, <2>4, <2>8
    <3>3. Unread(r.slot[s], p, z + Len(data))
      BY <2>4, <2>7 DEF Unread
    <3>4. "RESTART" \notin r.slot[s].state
      BY <2>3, <2>4
    <3> QED BY <3>1, <3>2, <3>3, <3>4 DEF Fills
  <2> QED BY <2>1, <2>4, <2>5, <2>9 DEF Taking, r, data
<1> QED BY <1>2, <1>3

LEMMA RestartedTakes ==
  ASSUME NEW w, Ready(w), NEW p, NEW z, Taking(w, p, z)
  PROVE  Taking(Restarted(w), p, z) /\ Restarted(w).slot[w.c.app].in = Own(w).in
<1> DEFINE r == Restarted(w)
           s == w.c.app
           o == w.slot[s]
<1>1. s \in Conns /\ SlotOK(o) /\ Effect(w) /\ Own(w) = o
  BY DEF Ready, Effect, Own
<1>2. CASE "RESTART" \notin o.state
  <2>1. r = w
    BY <1>2 DEF Restarted, Own
  <2> QED BY <1>1, <2>1
<1>3. CASE "RESTART" \in o.state
  <2>1. /\ r.kept = w.kept /\ r.slot[s].state = o.state \ {"RESTART"} /\ r.slot[s].in = o.in
        /\ r.c.app = s /\ r.c.stopped = FALSE
    BY <1>1, <1>3 DEF Restarted, Own, Effect, ConnShape, SlotOK, SlotShape
  <2>2. Own(r) = r.slot[s]
    BY <2>1 DEF Own
  <2> HIDE DEF r, o, s
  <2>3. "CLOSE" \in r.slot[s].state <=> "CLOSE" \in o.state
    BY <2>1
  <2>4. ASSUME "CLOSE" \notin o.state PROVE Fills(r.c, r.slot[s], p, z)
    <3>1. Fills(w.c, o, p, z) /\ "RESTART" \notin r.slot[s].state
      BY <1>1, <2>1, <2>4 DEF Taking
    <3>2. Len(o.in) \in Nat /\ NumPackets \in Nat
      BY <1>1, SlotAssumption DEF SlotOK, SlotShape
    <3> QED BY <1>3, <2>1, <3>1, <3>2 DEF Fills, Unread
  <2> QED BY <1>1, <2>1, <2>2, <2>3, <2>4 DEF Taking, r, s, o
<1> QED BY <1>2, <1>3

LEMMA EventTakes ==
  ASSUME NEW w, Ready(w), NEW p, NEW z, Taking(w, p, z), NEW r, r = Event(w)
  PROVE  r.kept = {} /\ r.slot[w.c.app].in = Own(w).in /\ (r.c.app = w.c.app => Taking(r, p, z))
<1> DEFINE s == w.c.app
           o == w.slot[s]
<1>0. s \in Conns /\ s # NoSlot
  BY SlotAssumption DEF Ready, NoSlot
<1>1. s \in Conns /\ s # NoSlot /\ Effect(w) /\ SlotOK(o) /\ Own(w) = o /\ w.kept = {}
  BY <1>0 DEF Ready, Effect, Own, Taking
<1>2. CASE w.flags \intersect {"CLOSE", "TIMEDOUT"} # {}
  <2>1. r = Closed(w)
    BY <1>2 DEF Event
  <2>2. Closed(w).slot[s].in = o.in
    BY <1>1 DEF Closed, Own, Effect, SlotOK, SlotShape
  <2>4. Closed(w).kept = w.kept
    BY <1>1, StagesKeep DEF Effect
  <2>3. r.c.app = NoSlot
    BY <2>1, ClosedIs
  <2> QED BY <1>1, <2>1, <2>2, <2>3, <2>4
<1>3. CASE w.flags \intersect {"CLOSE", "TIMEDOUT"} = {}
  <2> DEFINE v == Acked(w)
  <2>1. r = SendOrClose(v)
    BY <1>3 DEF Event, Then
  <2>2. Touches(v, w, s) /\ Ready(v) /\ v.c = w.c /\ v.slot[s].state = o.state
    BY AckedIs
  <2>3. v.slot[s].in = o.in /\ v.kept = w.kept
    BY <1>1 DEF Acked, Own, Effect, SlotOK, SlotShape
  <2> HIDE DEF v
  <2>4. Own(v) = v.slot[s] /\ Effect(v) /\ SlotOK(v.slot[s])
    BY <1>1, <2>2 DEF Own, Ready, Effect
  <2> HIDE DEF o, s
  <2>5. Taking(v, p, z)
    BY <1>1, <2>2, <2>3, <2>4 DEF Taking, Fills, Unread
  <2>6. r.kept = {} /\ r.slot[s].in = o.in /\ (r.c.app = s => r.slot[s].state = o.state)
        /\ (r.c.app = s => r.c.stopped = v.c.stopped \/ "CLOSE" \in o.state)
    <3>0. v.c.app = s
      BY <2>2 DEF s
    <3>1. CASE r = Offered(v)
      <4>1. r.kept = v.kept /\ r.c = v.c /\ r.slot[s].in = v.slot[s].in /\ r.slot[s].state = v.slot[s].state
        BY <1>1, <2>4, <3>0, <3>1 DEF Offered, Effect, SlotOK, SlotShape
      <4> QED BY <1>1, <2>2, <2>3, <4>1
    <3>2. CASE r = ClosedWhenSent(v)
      <4>1. CASE "CLOSE" \notin o.state
        <5>1. r = v
          BY <2>2, <2>4, <3>2, <4>1 DEF ClosedWhenSent
        <5> QED BY <1>1, <2>2, <2>3, <5>1
      <4>2. CASE "CLOSE" \in o.state /\ v.slot[s].out = <<>>
        <5>1. r.kept = v.kept /\ r.c.app = NoSlot /\ r.slot[s].in = v.slot[s].in
          BY <1>1, <2>2, <2>4, <3>0, <3>2, <4>2 DEF ClosedWhenSent, Effect, ConnShape, SlotOK, SlotShape
        <5> QED BY <1>1, <2>3, <4>2, <5>1
      <4>3. CASE "CLOSE" \in o.state /\ v.slot[s].out # <<>>
        <5>1. r.kept = v.kept /\ r.slot = v.slot
          BY <2>2, <2>4, <3>2, <4>3 DEF ClosedWhenSent, Effect
        <5> QED BY <1>1, <2>2, <2>3, <4>3, <5>1
      <4> QED BY <4>1, <4>2, <4>3
    <3> QED BY <2>1, <3>1, <3>2 DEF SendOrClose
  <2>7. ASSUME r.c.app = s PROVE Taking(r, p, z)
    <3>1. Own(r) = r.slot[s]
      BY <2>7 DEF Own
    <3> QED BY <1>1, <2>2, <2>3, <2>4, <2>5, <2>6, <2>7, <3>1 DEF Taking, Fills, Unread
  <2> QED BY <1>1, <2>6, <2>7 DEF s
<1> QED BY <1>2, <1>3

(* The packet that has brought new data, if any, and its data.             *)
NewData(new) == IF new = {} THEN <<>> ELSE (CHOOSE packet \in new : TRUE).seg.data
Incoming(new, p, z) ==
  new # {} => NewData(new) # <<>> /\ Bytes(NewData(new), p, z) /\ peer[p].st \notin Early

LEMMA HandledTakes ==
  ASSUME NEW w, Ready(w), NEW new \in SUBSET Packets, NEW r, r = Handled(w, new), NEW p \in Peers, NextByte(p) \in Nat,
         NEW z \in Nat, Taking(w, p, z), Incoming(new, p, z), new # {} => ~w.c.stopped,
         Len(Own(w).in) < NumPackets => w.free > 0, NEW y, y = z + Len(NewData(new))
  PROVE  /\ r.kept = {} /\ (r.c.app = w.c.app => Taking(r, p, y))
         /\ r.slot[w.c.app].in # <<>> => Unread(r.slot[w.c.app], p, y)
<1> DEFINE s == w.c.app
           v == IF new = {} THEN w ELSE Stored(w, CHOOSE packet \in new : TRUE)
           u == Restarted(v)
<1>1. s \in Conns /\ SlotOK(w.slot[s])
  BY DEF Ready, Effect
<1>2. Ready(v) /\ v.c.app = s /\ Taking(v, p, y)
  <2>1. CASE new = {}
    <3>1. Len(NewData(new)) = 0
      BY <2>1 DEF NewData
    <3>2. y = z
      BY <3>1
    <3> QED BY <2>1, <3>2
  <2>2. CASE new # {}
    <3> DEFINE packet == CHOOSE e \in new : TRUE
    <3>1. packet \in Packets /\ v = Stored(w, packet) /\ NewData(new) = packet.seg.data
      BY <2>2 DEF NewData
    <3> HIDE DEF packet, v
    <3>2. Taking(Stored(w, packet), p, z + Len(packet.seg.data))
      BY <2>2, <3>1, StoredTakes DEF Incoming
    <3>3. Ready(Stored(w, packet)) /\ Stored(w, packet).c.app = s
      BY <3>1, StoredIs
    <3> QED BY <3>1, <3>2, <3>3
  <2> QED BY <2>1, <2>2
<1> HIDE DEF v
<1>3. Ready(u) /\ u.c.app = s /\ Taking(u, p, y)
  BY <1>2, RestartedIs, RestartedTakes
<1>4. r = Event(u)
  BY DEF Handled, v
<1> HIDE DEF u, s
<1>5. r.kept = {} /\ r.slot[s].in = Own(u).in /\ (r.c.app = s => Taking(r, p, y))
  BY <1>3, <1>4, EventTakes
<1>6. Own(u) = u.slot[s] /\ SlotOK(u.slot[s])
  BY <1>1, <1>3 DEF Own, Ready, Effect
<1>7. u.slot[s].in # <<>> => Unread(u.slot[s], p, y)
  BY <1>3, <1>6 DEF Taking, Fills, SlotOK
<1> QED BY <1>5, <1>6, <1>7 DEF Unread, s

(* The whole call, for the one connection there is: with a slot after it,  *)
(* the slot goes on up to y; what is in the slot goes on or is what it was.*)
Took(r, i, p, y) ==
  /\ r.kept = {} /\ (r.c.app # NoSlot => r.c.app = i /\ Taking(r, p, y))
  /\ r.slot[i].in # <<>> => Unread(r.slot[i], p, y) \/ r.slot[i] = slot[i]

LEMMA CallTakes ==
  ASSUME SlotInv, NEW i, Conns = {i}, in_packet = {}, HasRoom, UnreadOK(conn[i], slot[i]),
         NEW c, ConnShape(c), c.app = conn[i].app, NEW flags, NEW w, w \in {Call(c, flags), OnTick(c, flags)},
         NEW new \in SUBSET Packets, NEW r, r = AppCall(w, new), NEW p \in Peers, NextByte(p) \in Nat,
         NEW z \in Nat, Incoming(new, p, z), new # {} => ~c.stopped, NEW y, y = z + Len(NewData(new)),
         c.app # NoSlot /\ "CLOSE" \notin slot[i].state => Fills(c, slot[i], p, z),
         c.app = NoSlot /\ "CONNECTED" \in flags => z = NextByte(p)
  PROVE  Took(r, i, p, y)
<1> DEFINE v == Attached(w)
<1>1. /\ w.c = c /\ w.slot = slot /\ w.free = free /\ w.flags = flags /\ w.kept = {}
      /\ DOMAIN w = {"c", "slot", "free", "flags", "send", "kept"}
  BY CallIs, OnTickIs
<1>2. i \in Conns /\ i # NoSlot /\ NumPackets \in Nat /\ NumPackets > 0
  BY SlotAssumption DEF NoSlot
<1>3. Effect(w) /\ (c.app # NoSlot => Serves(Own(w))) /\ SlotOK(slot[i])
  BY <1>2, CallStarts DEF Moves, SlotInv, UipTypes
<1>4. c.app = NoSlot \/ c.app = i
  BY DEF ConnShape
<1>5. r = IF v.c.app = NoSlot THEN v ELSE Handled(v, new)
  BY DEF AppCall, Then, Handled
<1>6. CASE v = w /\ c.app = NoSlot
  BY <1>1, <1>5, <1>6 DEF Took
<1>7. ASSUME Ready(v), v.c.app = i, Taking(v, p, z), v.c.stopped = c.stopped, Len(Own(v).in) < NumPackets => v.free > 0
      PROVE  /\ r.kept = {} /\ (r.c.app # NoSlot => r.c.app = i /\ Taking(r, p, y))
             /\ r.slot[i].in # <<>> => Unread(r.slot[i], p, y)
  <2>1. r = Handled(v, new)
    BY <1>2, <1>5, <1>7
  <2> HIDE DEF v
  <2>2. r.kept = {} /\ (r.c.app = i => Taking(r, p, y)) /\ (r.slot[i].in # <<>> => Unread(r.slot[i], p, y))
    BY <1>7, <2>1, HandledTakes
  <2>3. Outcome(r, v, i)
    BY <1>7, <2>1, HandledIs
  <2>4. r.c.app \in {NoSlot, i}
    BY <2>3 DEF Outcome, Drops, Offers, Closes, Waits
  <2> QED BY <2>2, <2>4
<1>8. CASE v = w /\ c.app = i
  <2>1. Own(w) = slot[i] /\ Ready(w)
    BY <1>1, <1>2, <1>3, <1>8 DEF Own, Ready
  <2>2. Taking(w, p, z)
    BY <1>1, <1>2, <1>8, <2>1 DEF Taking
  <2>3. Len(slot[i].in) < NumPackets => w.free > 0
    BY <1>1, <1>2 DEF HasRoom
  <2> QED BY <1>1, <1>7, <1>8, <2>1, <2>2, <2>3 DEF Took
<1>9. CASE v # w
  <2>1. PICK s \in Conns :
          /\ w.c.app = NoSlot /\ "CONNECTED" \in w.flags /\ ~InUse(w.slot[s])
          /\ Ready(v) /\ v.c.app = s /\ v.slot[s] = NewSlot /\ v.free = w.free
    BY <1>3, <1>9, AttachedIs
  <2>2. s = i /\ v.kept = {} /\ v.c.stopped = c.stopped
    <3>1. v.c.stopped = w.c.stopped
      BY <1>3 DEF Attached, Effect, ConnShape
    <3>2. v.kept = w.kept
      BY <1>1, StagesKeep
    <3> QED BY <1>1, <3>1, <3>2
  <2> HIDE DEF v
  <2>3. Own(v) = NewSlot /\ NewSlot.in = <<>> /\ NewSlot.state = {"CONNECTED"} /\ Len(<<>>) = 0
    BY <2>1 DEF Own, NewSlot
  <2>4. slot[i].in = <<>> /\ free > 0
    <3>1. slot[i].in = <<>>
      BY <1>1, <1>3, <2>1, <2>2 DEF SlotOK, InUse
    <3> QED BY <1>2, <2>3, <3>1 DEF HasRoom
  <2>5. Unread(NewSlot, p, z)
    BY <1>1, <2>1, <2>3, EmptyChain DEF Unread
  <2>6. Taking(v, p, z)
    BY <1>2, <2>2, <2>3, <2>5 DEF Taking, Fills
  <2> QED BY <1>1, <1>7, <2>1, <2>2, <2>4, <2>6 DEF Took
<1> QED BY <1>4, <1>6, <1>7, <1>8, <1>9 DEF Took

(***************************************************************************)
(* The steps of uIP                                                        *)
(***************************************************************************)
(* A step with effect v keeps what the sketch will read in order.          *)
Receives(i, v) ==
  /\ v.kept = {} /\ UnreadOK(v.c, v.slot[i])
  /\ v.c.st \in Half => v.c.st = conn[i].st /\ v.c.peer = conn[i].peer /\ v.c.iss = conn[i].iss

(* It has no more blocks to send than before.                              *)
Spares(i, v) == v.slot[i].out \in {slot[i].out, <<>>} \/ (slot[i].out # <<>> /\ v.slot[i].out = Tail(slot[i].out))

Gains(i) == \E v : Receives(i, v) /\ Spares(i, v) /\ Adopts(i, v)

LEMMA GainsKeeps ==
  ASSUME SlotInv, ReadsInv, NEW i, Conns = {i}, Gains(i), \A q \in Peers : toUs'[q] \subseteq toUs[q], UNCHANGED <<peer, read>>
  PROVE  ReadsInv'
<1>1. PICK v : Receives(i, v) /\ Adopts(i, v)
  BY DEF Gains
<1>2. conn'[i] = v.c /\ slot' = v.slot /\ in_packet' = {}
  BY <1>1 DEF Receives, Adopts, SlotInv, UipTypes
<1>3. Given'
  BY DEF ReadsInv, Given, GivenOK
<1>4. ASSUME NEW p \in Peers, Unserved(conn[i], p)' PROVE read'[p] = <<>>
  <2>1. Unserved(conn[i], p)
    BY <1>1, <1>2, <1>4 DEF Unserved, Made, Receives
  <2> QED BY <2>1 DEF ReadsInv, Readings
<1>5. Readings'
  BY <1>4 DEF ReadsInv, Readings
<1>6. UnreadOK(conn[i], slot[i])'
  BY <1>1, <1>2 DEF Receives, UnreadOK, Fills, Unread, Made, NextByte
<1> QED BY <1>2, <1>3, <1>5, <1>6 DEF ReadsInv

(* A step that leaves the slot alone, or takes it from the connection.     *)
LEMMA SameReads ==
  ASSUME NEW b, NEW o, UnreadOK(b, o), NEW c, NEW u, u.in = o.in,
         c.app # NoSlot => /\ c.app = b.app /\ c.stopped = b.stopped /\ c.peer = b.peer /\ c.rcv = b.rcv
                           /\ u.state = o.state,
         c.st \in Half => c.st = b.st /\ c.peer = b.peer /\ c.iss = b.iss /\ c.rcv = b.rcv /\ c.stopped = b.stopped
  PROVE  UnreadOK(c, u)
<1>1. ASSUME u.in # <<>> PROVE \E q \in Peers, z \in Nat : Unread(u, q, z) /\ Made(c, q)
  <2>1. PICK q \in Peers, z \in Nat : Unread(o, q, z) /\ Made(b, q)
    BY <1>1 DEF UnreadOK
  <2>2. Unread(u, q, z) /\ Made(c, q)
    BY <2>1 DEF Unread, Made
  <2> QED BY <2>2
<1>2. c.app # NoSlot /\ "CLOSE" \notin u.state => Fills(c, u, c.peer, c.rcv)
  BY DEF UnreadOK, Fills, Unread
<1>3. (c.st = "SYN_RCVD" => c.rcv = 1) /\ (c.st \in Half => ~c.stopped)
  BY DEF UnreadOK, Half
<1> QED BY <1>1, <1>2, <1>3 DEF UnreadOK

LEMMA PlainReads ==
  ASSUME in_packet = {}, NEW i \in Conns, UnreadOK(conn[i], slot[i]), NEW c, c.app = conn[i].app,
         c.app # NoSlot => c.stopped = conn[i].stopped /\ c.peer = conn[i].peer /\ c.rcv = conn[i].rcv,
         c.st \in Half => /\ c.st = conn[i].st /\ c.peer = conn[i].peer /\ c.iss = conn[i].iss /\ c.rcv = conn[i].rcv
                          /\ c.stopped = conn[i].stopped,
         NEW flags, NEW w, w \in {Call(c, flags), OnTick(c, flags)}, NEW out, Done(i, w, out)
  PROVE  Gains(i)
<1>1. w.c = c /\ w.slot = slot /\ w.kept = {}
  BY CallIs, OnTickIs
<1>2. UnreadOK(c, slot[i])
  BY SameReads
<1>3. Adopts(i, w)
  BY DoneIs
<1>4. Spares(i, w)
  BY <1>1 DEF Spares
<1> QED BY <1>1, <1>2, <1>3, <1>4 DEF Gains, Receives

LEMMA CalledSpares ==
  ASSUME NEW i, Conns = {i}, NEW w, w.slot = slot, w.c.app = conn[i].app, "CONNECTED" \in w.flags => conn[i].st \in Half,
         NEW r, Called(r, w), NEW u, u.slot = r.slot, u.c.app = r.c.app
  PROVE  Spares(i, u)
<1>1. CASE Nothing(r, w)
  BY <1>1 DEF Nothing, Spares
<1>2. CASE ~Nothing(r, w)
  <2>1. Fresh(r, w, i) \/ Has(r, w, i)
    BY <1>2 DEF Called
  <2>2. CASE Fresh(r, w, i)
    BY <2>2 DEF Fresh, Spares
  <2>3. CASE Has(r, w, i)
    <3>1. Own(w) = slot[i] /\ conn[i].app = i /\ i # NoSlot
      BY <2>3, SlotAssumption DEF Has, Own, NoSlot
    <3>2. r.slot[i].out = <<>> \/ r.slot[i].out = Remaining(w)
      BY <2>3 DEF Has, Outcome, Drops
    <3> QED BY <3>1, <3>2 DEF Remaining, Spares
  <2> QED BY <2>1, <2>2, <2>3
<1> QED BY <1>1, <1>2

(* A step that calls the application.                                      *)
LEMMA CallReads ==
  ASSUME NEW i, UnreadOK(conn[i], slot[i]), NEW p \in Peers, NEW y \in Nat, NEW r, Took(r, i, p, y),
         NEW d, d.st \notin Half, d.app = r.c.app, d.app # NoSlot => d.stopped = r.c.stopped /\ d.peer = p /\ d.rcv = y
  PROVE  UnreadOK(d, r.slot[i])
<1>1. \A q : Made(d, q)
  BY DEF Made
<1>2. ASSUME r.slot[i].in # <<>> PROVE \E q \in Peers, z \in Nat : Unread(r.slot[i], q, z) /\ Made(d, q)
  <2>1. CASE Unread(r.slot[i], p, y)
    BY <1>1, <2>1
  <2>2. CASE r.slot[i] = slot[i]
    BY <1>1, <1>2, <2>2 DEF UnreadOK
  <2> QED BY <1>2, <2>1, <2>2 DEF Took
<1>3. ASSUME d.app # NoSlot, "CLOSE" \notin r.slot[i].state PROVE Fills(d, r.slot[i], d.peer, d.rcv)
  <2>1. Own(r) = r.slot[i] /\ Taking(r, p, y)
    BY <1>3 DEF Own, Took
  <2> QED BY <1>3, <2>1 DEF Taking, Fills
<1>4. d.st # "SYN_RCVD"
  BY DEF Half
<1> QED BY <1>2, <1>3, <1>4 DEF UnreadOK

LEMMA ClosesDetached ==
  ASSUME NEW r, NEW w, Called(r, w), w.flags \intersect {"CLOSE", "TIMEDOUT"} = {}, "CLOSE" \in r.flags
  PROVE  r.c.app = NoSlot
<1>1. ~Nothing(r, w)
  BY DEF Nothing
<1>2. PICK s \in Conns : Fresh(r, w, s) \/ Has(r, w, s)
  BY <1>1 DEF Called
<1> QED BY <1>2 DEF Fresh, Has, Outcome, Drops, Offers, Closes, Waits

LEMMA AppSendReads ==
  ASSUME SlotInv, NEW i, Conns = {i}, in_packet = {}, HasRoom, UnreadOK(conn[i], slot[i]),
         NEW c, ConnShape(c), c.app = conn[i].app, c.st = "ESTABLISHED",
         NEW flags, flags \intersect {"CLOSE", "TIMEDOUT"} = {}, NEW w, w \in {Call(c, flags), OnTick(c, flags)},
         NEW new \in SUBSET Packets, NEW r, r = AppCall(w, new), NEW p \in Peers, NextByte(p) \in Nat,
         p = c.peer, NEW z \in Nat, Incoming(new, p, z), new # {} => ~c.stopped, c.rcv = z + Len(NewData(new)),
         c.app # NoSlot /\ "CLOSE" \notin slot[i].state => Fills(c, slot[i], p, z),
         c.app = NoSlot /\ "CONNECTED" \in flags => z = NextByte(p), "CONNECTED" \in flags => conn[i].st \in Half,
         NEW out, AppSend(i, r) \/ Done(i, r, out)
  PROVE  Gains(i)
<1>1. c.rcv \in Nat /\ i \in Conns
  BY DEF ConnShape
<1>2. Took(r, i, p, c.rcv) /\ r.kept = {}
  <2>1. c.rcv = z + Len(NewData(new))
    OBVIOUS
  <2> DEFINE y == c.rcv
  <2>2. y = z + Len(NewData(new))
    BY <2>1
  <2> HIDE DEF y
  <2>3. Took(r, i, p, y)
    BY <2>2, CallTakes
  <2> QED BY <2>3 DEF y, Took
<1>3. Called(r, w) /\ w.c = c /\ w.flags = flags /\ w.slot = slot
  <2>1. Called(r, w)
    BY <1>1, AppCallMoves
  <2> QED BY <2>1, CallIs, OnTickIs
<1>4. Effect(r) /\ r.c.st = "ESTABLISHED" /\ r.c.peer = p /\ r.c.rcv = c.rcv
  BY <1>3 DEF Called, SameConn
<1>5. ASSUME NEW u, u.slot = r.slot, u.kept = r.kept, u.c.st \notin Half, u.c.app = r.c.app,
             u.c.app # NoSlot => u.c.stopped = r.c.stopped /\ u.c.peer = p /\ u.c.rcv = c.rcv,
             NEW x, Done(i, u, x)
      PROVE  Gains(i)
  <2>1. UnreadOK(u.c, r.slot[i])
    <3> DEFINE d == u.c
               y == c.rcv
    <3>1. d.st \notin Half /\ d.app = r.c.app /\ (d.app # NoSlot => d.stopped = r.c.stopped /\ d.peer = p /\ d.rcv = y)
          /\ y \in Nat
      BY <1>1, <1>5
    <3>2. Took(r, i, p, y)
      BY <1>2
    <3> HIDE DEF d, y
    <3>3. UnreadOK(d, r.slot[i])
      BY <3>1, <3>2, CallReads
    <3> QED BY <3>3 DEF d
  <2>2. Adopts(i, u)
    BY <1>5, DoneIs
  <2>3. Spares(i, u)
    BY <1>3, <1>5, CalledSpares
  <2> QED BY <1>2, <1>5, <2>1, <2>2, <2>3 DEF Gains, Receives
<1>6. CASE Done(i, r, out)
  BY <1>4, <1>5, <1>6 DEF Half
<1>7. CASE AppSend(i, r) /\ "CLOSE" \in r.flags
  <2> DEFINE u == Finned(r, "FIN_WAIT_1")
  <2>1. Done(i, u, Reply(u.c, {"FIN", "ACK"}, <<>>))
    BY <1>7, AppSendIs
  <2>2. u.slot = r.slot /\ u.kept = r.kept /\ u.c.st = "FIN_WAIT_1" /\ u.c.app = r.c.app
    BY <1>4, FinnedIs DEF Follows
  <2>3. r.c.app = NoSlot
    BY <1>3, <1>7, ClosesDetached
  <2> HIDE DEF u
  <2> QED BY <1>5, <2>1, <2>2, <2>3 DEF Half
<1>8. CASE AppSend(i, r) /\ "CLOSE" \notin r.flags
  <2> DEFINE u == Sending(r)
  <2>1. Done(i, u, Output(u))
    BY <1>8, AppSendIs
  <2>2. /\ u.slot = r.slot /\ u.kept = r.kept /\ u.c.st = "ESTABLISHED" /\ u.c.app = r.c.app /\ u.c.stopped = r.c.stopped
        /\ u.c.peer = p /\ u.c.rcv = c.rcv
    BY <1>4, SendingIs DEF Follows
  <2> HIDE DEF u
  <2> QED BY <1>5, <2>1, <2>2 DEF Half
<1> QED BY <1>6, <1>7, <1>8

(* uip_process(UIP_TIMER).                                                 *)
LEMMA TimerIdleReads ==
  ASSUME SlotInv, StreamInv, ReadsInv, NEW i \in Conns, Used(conn[i]), TimerIdle(i) PROVE Gains(i)
<1> DEFINE w == OnTick(conn[i], {})
           v == Gone(w)
<1>1. ConnShape(conn[i]) /\ conn[i].app = NoSlot /\ ~conn[i].stopped
  BY Begins DEF TimerIdle
<1>2. Done(i, v, {})
  BY DEF TimerIdle
<1>3. Effect(w) /\ w.c = conn[i] /\ w.slot = slot /\ w.kept = in_packet
  <2>1. Moves(i, w) /\ w.c = conn[i]
    BY <1>1, CallStarts
  <2> QED BY <2>1, OnTickIs DEF Moves
<1> HIDE DEF w
<1>4. v.slot = slot /\ v.kept = in_packet /\ v.c = ClosedConn(NoSlot, w.c.lport)
  BY <1>1, <1>3, GoneIs DEF Follows
<1>5. v.c.app = NoSlot /\ v.c.st \notin Half
  BY <1>4, ClosedConnIs DEF Half
<1> HIDE DEF v
<1>6. UnreadOK(v.c, slot[i])
  BY <1>5, SameReads DEF ReadsInv
<1>7. Adopts(i, v)
  BY <1>2, DoneIs
<1> QED BY <1>4, <1>5, <1>6, <1>7 DEF Gains, Receives, Spares, ReadsInv

(* A call that closes the connection leaves what is unread.                *)
LEMMA ClosedCall ==
  ASSUME NEW w, Ready(w), w.flags \intersect {"CLOSE", "TIMEDOUT"} # {}, NEW r, r = AppCall(w, {})
  PROVE  r.kept = w.kept /\ r.c.app = NoSlot /\ r.slot[w.c.app].in = Own(w).in
<1> DEFINE u == Restarted(w)
           s == w.c.app
           o == w.slot[s]
<1>0. s \in Conns /\ s # NoSlot
  BY SlotAssumption DEF Ready, NoSlot
<1>1. s \in Conns /\ s # NoSlot /\ Effect(w) /\ SlotOK(o) /\ Own(w) = o
  BY <1>0 DEF Ready, Effect, Own
<1>2. Attached(w) = w
  BY <1>1 DEF Attached
<1>3. r = Event(u)
  BY <1>1, <1>2 DEF AppCall, Then
<1>4. u.slot[s].in = o.in /\ u.kept = w.kept
  BY <1>1 DEF Restarted, Own, Effect, SlotOK, SlotShape
<1>5. Ready(u) /\ u.c.app = s /\ w.flags \subseteq u.flags
  BY RestartedIs
<1> HIDE DEF u, s, o
<1>6. r = Closed(u)
  BY <1>3, <1>5 DEF Event
<1>7. SlotOK(u.slot[s]) /\ Own(u) = u.slot[s] /\ Effect(u) /\ s \in Conns
  BY <1>5 DEF Ready, Effect, Own
<1>8. Closed(u).slot[s].in = u.slot[s].in /\ Closed(u).kept = u.kept
  BY <1>5, <1>7 DEF Closed, Effect, SlotOK, SlotShape
<1>9. Closed(u).c.app = NoSlot
  BY <1>5, ClosedIs
<1> QED BY <1>1, <1>4, <1>6, <1>8, <1>9 DEF s

LEMMA TimerGivesUpReads ==
  ASSUME SlotInv, StreamInv, ReadsInv, NEW i, Conns = {i}, Used(conn[i]), TimerGivesUp(i) PROVE Gains(i)
<1> DEFINE c == [conn[i] EXCEPT !.st = "CLOSED", !.stopped = FALSE]
           flags == {"TIMEDOUT"}
           u == OnTick(c, flags)
           w == AppCall(u, {})
           v == Gone(w)
           out == Reply(c, {"RST", "ACK"}, <<>>)
<1>1. ConnShape(conn[i]) /\ i \in Conns
  BY Begins
<1>2. ConnShape(c) /\ c.app = conn[i].app /\ c.st = "CLOSED"
  BY <1>1 DEF ConnShape
<1>3. Done(i, v, out) /\ "CONNECTED" \notin flags /\ flags \intersect {"CLOSE", "TIMEDOUT"} # {}
  BY DEF TimerGivesUp
<1>4. u.c = c /\ u.slot = slot /\ u.flags = flags /\ u.kept = in_packet /\ u \in {Call(c, flags), OnTick(c, flags)}
  BY OnTickIs
<1> HIDE DEF c, u, flags
<1>5. Effect(u) /\ (c.app # NoSlot => Serves(Own(u)))
  BY <1>1, <1>2, <1>4, CallStarts DEF Moves
<1>6. Called(w, u) /\ Effect(w) /\ w.c.st = "CLOSED"
  <2>1. {} \in SUBSET Packets
    OBVIOUS
  <2>2. Called(w, u)
    BY <1>2, <1>3, <1>4, <1>5, <2>1, AppCallIs
  <2> QED BY <1>2, <1>4, <2>2 DEF Called, SameConn
<1>7. w.kept = in_packet /\ w.c.app = NoSlot /\ w.slot[i].in = slot[i].in
  <2>1. CASE c.app = NoSlot
    <3>1. w = u
      BY <1>1, <1>2, <1>3, <1>4, <2>1, CallsNone
    <3> QED BY <1>4, <2>1, <3>1
  <2>2. CASE c.app # NoSlot
    <3>1. Ready(u) /\ u.c.app = i /\ Own(u) = slot[i]
      BY <1>2, <1>4, <1>5, <2>2 DEF Ready, ConnShape, Own
    <3> QED BY <1>3, <1>4, <3>1, ClosedCall
  <2> QED BY <2>1, <2>2
<1> HIDE DEF w
<1>8. v.slot = w.slot /\ v.kept = in_packet /\ v.c.app = NoSlot /\ v.c.st = "CLOSED"
  BY <1>6, <1>7, GoneIs, ClosedConnIs DEF Follows
<1> HIDE DEF v
<1>9. v.c.st \notin Half
  BY <1>8 DEF Half
<1>10. UnreadOK(v.c, v.slot[i])
  BY <1>1, <1>7, <1>8, <1>9, SameReads DEF ReadsInv
<1>11. Adopts(i, v)
  BY <1>3, DoneIs
<1>12. Spares(i, v)
  BY <1>2, <1>3, <1>4, <1>6, <1>7, <1>8, CalledSpares
<1> QED BY <1>8, <1>9, <1>10, <1>11, <1>12 DEF Gains, Receives, ReadsInv

LEMMA ReadsBegin ==
  ASSUME SlotInv, StreamInv, ReadsInv, NEW i \in Conns, Used(conn[i])
  PROVE  /\ in_packet = {} /\ UnreadOK(conn[i], slot[i]) /\ ConnShape(conn[i]) /\ conn[i].rcv \in Nat
         /\ conn[i].peer \in Peers /\ NextByte(conn[i].peer) \in Nat /\ (conn[i].app # NoSlot => conn[i].st = "ESTABLISHED")
<1>1. ConnShape(conn[i]) /\ conn[i].peer \in Peers /\ (conn[i].app # NoSlot => conn[i].st = "ESTABLISHED")
  BY Begins
<1>2. conn[i].rcv \in Nat
  BY <1>1 DEF ConnShape
<1> QED BY <1>1, <1>2, NextByteIs DEF ReadsInv

(* A call that brings no data.                                             *)
LEMMA AskedReads ==
  ASSUME SlotInv, StreamInv, ReadsInv, HasRoom, NEW i, Conns = {i}, Used(conn[i]), NEW c, ConnShape(c), c.app = conn[i].app,
         c.st = "ESTABLISHED", c.peer = conn[i].peer, c.rcv = conn[i].rcv, c.stopped = conn[i].stopped,
         NEW flags, flags \intersect {"CLOSE", "TIMEDOUT"} = {}, "CONNECTED" \notin flags,
         NEW w, w \in {Call(c, flags), OnTick(c, flags)}, NEW r, r = AppCall(w, {}),
         NEW out, AppSend(i, r) \/ Done(i, r, out)
  PROVE  Gains(i)
<1> DEFINE p == conn[i].peer
           z == conn[i].rcv
           new == {}
<1>1. /\ in_packet = {} /\ UnreadOK(conn[i], slot[i]) /\ z \in Nat /\ p \in Peers /\ NextByte(p) \in Nat
  BY ReadsBegin
<1>2. Len(NewData(new)) = 0 /\ new \in SUBSET Packets /\ Incoming(new, p, z) /\ new = {}
  BY DEF NewData, Incoming
<1>3. r = AppCall(w, new)
  OBVIOUS
<1>4. p = c.peer /\ z = c.rcv
  OBVIOUS
<1> HIDE DEF p, z, new
<1>5. c.app # NoSlot /\ "CLOSE" \notin slot[i].state => Fills(c, slot[i], p, z)
  BY <1>1, <1>4 DEF UnreadOK, Fills
<1>6. c.rcv = z + Len(NewData(new))
  BY <1>1, <1>2, <1>4
<1>7. new # {} => ~c.stopped
  BY <1>2
<1> QED BY <1>1, <1>2, <1>3, <1>4, <1>5, <1>6, <1>7, AppSendReads

LEMMA TimerRetransmitsReads ==
  ASSUME SlotInv, StreamInv, ReadsInv, HasRoom, NEW i, Conns = {i}, Used(conn[i]), TimerRetransmits(i) PROVE Gains(i)
<1> DEFINE c == [conn[i] EXCEPT !.nrtx = @ + 1]
           w == OnTick(c, {})
           flags == {"REXMIT"}
           u == OnTick(c, flags)
           k == AppCall(u, {})
<1>1. /\ in_packet = {} /\ UnreadOK(conn[i], slot[i]) /\ ConnShape(conn[i])
  BY ReadsBegin
<1>2. /\ ConnShape(c) /\ c.app = conn[i].app /\ c.st = conn[i].st /\ c.peer = conn[i].peer
      /\ c.iss = conn[i].iss /\ c.stopped = conn[i].stopped
  BY <1>1, CountedIs
<1>3. c.rcv = conn[i].rcv
  BY <1>1 DEF ConnShape
<1>4. \/ Done(i, w, Reply(c, {"SYN", "ACK"}, <<>>))
      \/ Done(i, w, Reply(c, {"SYN"}, <<>>))
      \/ Done(i, w, Reply(w.c, {"FIN", "ACK"}, <<>>))
      \/ c.st = "ESTABLISHED" /\ Done(i, k, Output(k))
      \/ Done(i, w, {})
  BY DEF TimerRetransmits, FinAck
<1>5. flags \intersect {"CLOSE", "TIMEDOUT"} = {} /\ "CONNECTED" \notin flags
      /\ u \in {Call(c, flags), OnTick(c, flags)} /\ k = AppCall(u, {}) /\ w \in {Call(c, {}), OnTick(c, {})}
  OBVIOUS
<1> HIDE DEF c, w, u, flags, k
<1>6. ASSUME NEW out, Done(i, w, out) PROVE Gains(i)
  BY <1>1, <1>2, <1>3, <1>5, <1>6, PlainReads
<1>7. CASE c.st = "ESTABLISHED" /\ Done(i, k, Output(k))
  BY <1>2, <1>3, <1>5, <1>7, AskedReads
<1> QED BY <1>4, <1>6, <1>7

LEMMA TimerPollsReads ==
  ASSUME SlotInv, StreamInv, ReadsInv, HasRoom, NEW i, Conns = {i}, Used(conn[i]), TimerPolls(i) PROVE Gains(i)
<1> DEFINE flags == {"POLL"}
           c == conn[i]
           w == OnTick(c, flags)
           r == AppCall(w, {})
<1>1. ConnShape(c) /\ c.st = "ESTABLISHED" /\ AppSend(i, r)
  BY ReadsBegin DEF TimerPolls
<1>2. flags \intersect {"CLOSE", "TIMEDOUT"} = {} /\ "CONNECTED" \notin flags
      /\ w \in {Call(c, flags), OnTick(c, flags)} /\ r = AppCall(w, {}) /\ c = conn[i]
  OBVIOUS
<1> HIDE DEF c, flags, w, r
<1> QED BY <1>1, <1>2, AskedReads

LEMMA TimerReads ==
  ASSUME SlotInv, StreamInv, ReadsInv, HasRoom, NEW i, Conns = {i}, Timer(i) PROVE Gains(i)
<1>1. Used(conn[i]) /\ i \in Conns
  BY TimerFlows
<1>2. CASE TimerIdle(i)
  BY <1>1, <1>2, TimerIdleReads
<1>3. CASE TimerGivesUp(i)
  BY <1>1, <1>3, TimerGivesUpReads
<1>4. CASE TimerRetransmits(i)
  BY <1>1, <1>4, TimerRetransmitsReads
<1>5. CASE TimerPolls(i)
  BY <1>1, <1>5, TimerPollsReads
<1> QED BY <1>2, <1>3, <1>4, <1>5 DEF Timer

(***************************************************************************)
(* uip_process(UIP_DATA)                                                   *)
(***************************************************************************)
LEMMA StillReads ==
  ASSUME SlotInv, StreamInv, ReadsInv, NEW i \in Conns, Used(conn[i]), NEW out, Done(i, Call(conn[i], {}), out) PROVE Gains(i)
<1> DEFINE w == Call(conn[i], {})
<1>1. in_packet = {} /\ UnreadOK(conn[i], slot[i])
  BY ReadsBegin
<1>2. Done(i, w, out) /\ w \in {Call(conn[i], {}), OnTick(conn[i], {})}
  OBVIOUS
<1> HIDE DEF w
<1> QED BY <1>1, <1>2, PlainReads

(* The packet for the application carries the bytes that come next.        *)
LEMMA PacketReads ==
  ASSUME NEW p \in Peers, NEW m \in SegRec, GivenOK(p, m)
  PROVE  /\ Packet(p, m) \in SUBSET Packets /\ NewData(Packet(p, m)) = m.data /\ Len(m.data) \in Nat
         /\ (Packet(p, m) = {} <=> m.data = <<>>) /\ Incoming(Packet(p, m), p, m.seq)
<1> DEFINE new == Packet(p, m)
<1>1. new \in SUBSET Packets /\ Len(m.data) \in Nat
  BY PacketType
<1>2. new = IF m.data # <<>> THEN {[from |-> p, seg |-> m]} ELSE {}
  BY DEF Packet
<1> HIDE DEF new
<1>3. new # {} => (CHOOSE packet \in new : TRUE) = [from |-> p, seg |-> m]
  BY <1>2
<1>4. NewData(new) = m.data
  BY <1>2, <1>3 DEF NewData
<1>5. Incoming(new, p, m.seq)
  BY <1>2, <1>4 DEF Incoming, GivenOK
<1> QED BY <1>1, <1>2, <1>4, <1>5 DEF new

(* When our SYN is acknowledged nothing has been read yet.                 *)
LEMMA MadeReads ==
  ASSUME SlotInv, StreamInv, ReadsInv, NEW i \in Conns, conn[i].st \in Half, NEW m, Answered(m, Host(conn[i].peer)), Acks(conn[i], m)
  PROVE  NextByte(conn[i].peer) = 1 /\ ~conn[i].stopped /\ conn[i].app = NoSlot
<1>1. Used(conn[i]) /\ conn[i].st # "ESTABLISHED"
  BY DEF Used, Half
<1>2. conn[i].peer \in Peers /\ conn[i].app = NoSlot /\ ~conn[i].stopped
  BY <1>1, ReadsBegin DEF UnreadOK
<1>3. peer[conn[i].peer].conn = conn[i].iss
  BY DEF Acks, Answered, Host
<1>4. Unserved(conn[i], conn[i].peer)
  BY <1>3 DEF Unserved, Made
<1>5. read[conn[i].peer] = <<>>
  BY <1>2, <1>4 DEF ReadsInv, Readings
<1> QED BY <1>2, <1>5, NextByteIs DEF ReadsInv

LEMMA InSynRcvdReads ==
  ASSUME SlotInv, StreamInv, ReadsInv, HasRoom, NEW i, Conns = {i}, Used(conn[i]), NEW p \in Peers, p = conn[i].peer,
         NEW m \in SegRec, Answered(m, Host(p)), GivenOK(p, m), InSynRcvd(i, p, m)
  PROVE  Gains(i)
<1> DEFINE b == AfterAck(conn[i], m)
           a == Advanced(b, Len(m.data))
           c == [a EXCEPT !.st = "ESTABLISHED"]
           flags == {"CONNECTED"} \union DataFlag(m)
           w == Call(c, flags)
           new == Packet(p, m)
           r == AppCall(w, new)
           z == conn[i].rcv
<1>0. i \in Conns
  OBVIOUS
<1>1. CASE ~Acks(conn[i], m)
  <2>1. Done(i, Call(conn[i], {}), {})
    BY <1>1 DEF InSynRcvd
  <2> QED BY <1>0, <2>1, StillReads
<1>2. CASE Acks(conn[i], m)
  <2>1. AppSend(i, r) /\ conn[i].st = "SYN_RCVD" /\ conn[i].st \in Half /\ InOrder(conn[i], m)
    BY <1>2 DEF InSynRcvd, Half
  <2>2. in_packet = {} /\ UnreadOK(conn[i], slot[i]) /\ ConnShape(conn[i]) /\ z \in Nat /\ NextByte(p) \in Nat
    BY <1>0, ReadsBegin
  <2>3. z = 1 /\ NextByte(p) = 1 /\ ~conn[i].stopped /\ conn[i].app = NoSlot
    BY <1>0, <1>2, <2>1, <2>2, MadeReads DEF UnreadOK
  <2>4. ConnShape(b) /\ b.app = conn[i].app /\ b.peer = conn[i].peer /\ b.rcv = z /\ b.stopped = conn[i].stopped
    BY <2>2, AfterAckIs
  <2>5. new \in SUBSET Packets /\ NewData(new) = m.data /\ Len(m.data) \in Nat /\ (new = {} <=> m.data = <<>>)
        /\ Incoming(new, p, m.seq)
    BY PacketReads
  <2>6. Incoming(new, p, z)
    <3>1. new # {} => m.seq = z
      BY <2>1, <2>5 DEF InOrder, TakesUp
    <3> QED BY <2>5, <3>1 DEF Incoming
  <2> HIDE DEF b
  <2>7. ConnShape(a) /\ a.app = b.app /\ a.peer = b.peer /\ a.rcv = b.rcv + Len(m.data) /\ a.stopped = b.stopped
    BY <2>4, <2>5, AdvancedIs
  <2> HIDE DEF a
  <2>8. /\ ConnShape(c) /\ c.app = conn[i].app /\ c.st = "ESTABLISHED" /\ p = c.peer /\ c.rcv = z + Len(NewData(new)) /\ ~c.stopped
    BY <2>3, <2>4, <2>5, <2>7 DEF ConnShape
  <2>9. flags \intersect {"CLOSE", "TIMEDOUT"} = {} /\ w \in {Call(c, flags), OnTick(c, flags)} /\ r = AppCall(w, new)
    BY DEF DataFlag
  <2> HIDE DEF c, w, new, r, flags, z
  <2>10. c.app = NoSlot /\ z = NextByte(p)
    BY <2>3, <2>8
  <2> QED BY <2>1, <2>2, <2>5, <2>6, <2>8, <2>9, <2>10, AppSendReads
<1> QED BY <1>1, <1>2

LEMMA InSynSentReads ==
  ASSUME SlotInv, StreamInv, ReadsInv, HasRoom, NEW i, Conns = {i}, Used(conn[i]), NEW m \in SegRec,
         Answered(m, Host(conn[i].peer)), GivenOK(conn[i].peer, m), InSynSent(i, m)
  PROVE  Gains(i)
<1> DEFINE a == AfterAck(conn[i], m)
           c == [a EXCEPT !.st = "ESTABLISHED", !.rcv = m.seq + 1]
           flags == {"CONNECTED", "NEWDATA"}
           w == Call(c, flags)
           new == {}
           r == AppCall(w, new)
           p == conn[i].peer
           z == m.seq + 1
<1>0. i \in Conns
  OBVIOUS
<1>1. AppSend(i, r) /\ Acks(conn[i], m) /\ conn[i].st \in Half /\ "SYN" \in m.flags
  BY DEF InSynSent, Half
<1>2. in_packet = {} /\ UnreadOK(conn[i], slot[i]) /\ ConnShape(conn[i]) /\ NextByte(p) \in Nat /\ p \in Peers
  BY <1>0, ReadsBegin
<1>3. z = 1 /\ z = NextByte(p) /\ ~conn[i].stopped /\ conn[i].app = NoSlot
  BY <1>0, <1>1, MadeReads DEF GivenOK
<1>4. ConnShape(a) /\ a.app = conn[i].app /\ a.peer = conn[i].peer /\ a.stopped = conn[i].stopped
  BY <1>2, AfterAckIs
<1> HIDE DEF a
<1>5. Len(NewData(new)) = 0 /\ new \in SUBSET Packets /\ Incoming(new, p, z) /\ new = {}
  BY DEF NewData, Incoming
<1>6. /\ ConnShape(c) /\ c.app = conn[i].app /\ c.st = "ESTABLISHED" /\ p = c.peer /\ ~c.stopped /\ c.rcv = z /\ z \in Nat
  BY <1>3, <1>4 DEF ConnShape
<1>7. flags \intersect {"CLOSE", "TIMEDOUT"} = {} /\ w \in {Call(c, flags), OnTick(c, flags)} /\ r = AppCall(w, new)
  OBVIOUS
<1> HIDE DEF c, w, new, r, flags, z, p
<1>8. c.app = NoSlot /\ c.rcv = z + Len(NewData(new))
  BY <1>3, <1>5, <1>6
<1> QED BY <1>1, <1>2, <1>3, <1>5, <1>6, <1>7, <1>8, AppSendReads

LEMMA InSynSentOtherReads ==
  ASSUME SlotInv, StreamInv, ReadsInv, NEW i \in Conns, Used(conn[i]), NEW p, NEW m, InSynSentOther(i, p, m)
  PROVE  Gains(i)
<1> DEFINE c == AfterAck(conn[i], m)
           u == Call(c, {"ABORT"})
           w == AppCall(u, {})
           d == ClosedConn(w.c.app, w.c.lport)
           v == [w EXCEPT !.c = d]
<1>1. /\ conn' = [conn EXCEPT ![i] = d] /\ slot' = w.slot /\ free' = w.free
      /\ in_packet' = {} /\ conn[i].st # "ESTABLISHED"
  BY DEF InSynSentOther
<1>2. ConnShape(c) /\ c.app = conn[i].app /\ c.app = NoSlot
  BY <1>1, ConnIs, AfterAckIs, Begins
<1> HIDE DEF c
<1>3. w = u /\ Moves(i, u) /\ u.c = c /\ u.kept = {} /\ u.slot = slot
  <2>1. w = u
    BY <1>2, CallsNone
  <2>2. Moves(i, u)
    BY <1>2, CallStarts
  <2> QED BY <2>1, <2>2, CallIs
<1> HIDE DEF u, w
<1>4. ConnShape(d) /\ d.app = NoSlot /\ w.c.app = NoSlot /\ d.st \notin Half
  BY <1>2, <1>3, ClosedConnIs DEF Half
<1> HIDE DEF d
<1>5. Effect(w)
  BY <1>3 DEF Moves
<1>6. Follows(v, w) /\ v.c = d
  BY <1>4, <1>5, WithConn
<1> HIDE DEF v
<1>7. UnreadOK(d, slot[i])
  BY <1>4, SameReads DEF ReadsInv
<1>8. Adopts(i, v)
  BY <1>1, <1>3, <1>6 DEF Follows, Adopts
<1> QED BY <1>3, <1>4, <1>6, <1>7, <1>8 DEF Gains, Receives, Spares, Follows

LEMMA InEstablishedFinReads ==
  ASSUME SlotInv, StreamInv, ReadsInv, HasRoom, NEW i, Conns = {i}, Used(conn[i]), NEW p \in Peers, p = conn[i].peer,
         NEW m \in SegRec, GivenOK(p, m), InEstablishedFin(i, p, m)
  PROVE  Gains(i)
<1> DEFINE b == AfterAck(conn[i], m)
           c == Advanced(b, 1 + Len(m.data))
           flags == {"CLOSE"} \union AckFlag(conn[i], m) \union DataFlag(m)
           new == Packet(p, m)
           u == Call(c, flags)
           w == AppCall(u, new)
           v == Finned(w, "LAST_ACK")
           z == conn[i].rcv
           y == z + Len(m.data)
<1>0. i \in Conns
  OBVIOUS
<1>1. CASE b.len > 0
  <2>1. Done(i, Call(conn[i], {}), {})
    BY <1>1 DEF InEstablishedFin
  <2> QED BY <1>0, <2>1, StillReads
<1>2. CASE ~(b.len > 0)
  <2>1. FinAck(i, v) /\ ~conn[i].stopped /\ InOrder(conn[i], m) /\ conn[i].st = "ESTABLISHED"
    BY <1>2 DEF InEstablishedFin, Finned, TakesFin
  <2>2. in_packet = {} /\ UnreadOK(conn[i], slot[i]) /\ ConnShape(conn[i]) /\ z \in Nat /\ NextByte(p) \in Nat
    BY <1>0, ReadsBegin
  <2>3. new \in SUBSET Packets /\ NewData(new) = m.data /\ Len(m.data) \in Nat /\ (new = {} <=> m.data = <<>>)
        /\ Incoming(new, p, m.seq)
    BY PacketReads
  <2>4. Incoming(new, p, z) /\ y = z + Len(NewData(new)) /\ y \in Nat
    <3>1. new # {} => m.seq = z
      BY <2>1, <2>3 DEF InOrder, TakesUp
    <3> QED BY <2>2, <2>3, <3>1 DEF Incoming
  <2>5. ConnShape(b) /\ b.app = conn[i].app /\ b.stopped = conn[i].stopped
    BY <2>2, AfterAckIs
  <2> HIDE DEF b
  <2>6. ConnShape(c) /\ c.app = conn[i].app /\ c.stopped = conn[i].stopped
    <3> DEFINE n == 1 + Len(m.data)
    <3>1. n \in Nat /\ c = Advanced(b, n)
      BY <2>3
    <3> HIDE DEF n, c
    <3> QED BY <2>5, <3>1, AdvancedIs
  <2>7. c.app # NoSlot /\ "CLOSE" \notin slot[i].state => Fills(c, slot[i], p, z)
    BY <2>2, <2>6 DEF UnreadOK, Fills
  <2>8. "CONNECTED" \notin flags /\ "CLOSE" \in flags /\ u \in {Call(c, flags), OnTick(c, flags)} /\ w = AppCall(u, new)
    BY DEF AckFlag, DataFlag
  <2> HIDE DEF c, new, flags, u, w, y, z
  <2>9. (new # {} => ~c.stopped) /\ (c.app = NoSlot /\ "CONNECTED" \in flags => z = NextByte(p))
    BY <2>1, <2>6, <2>8
  <2>10. Took(w, i, p, y)
    BY <2>2, <2>3, <2>4, <2>6, <2>7, <2>8, <2>9, CallTakes
  <2>11. Called(w, u) /\ u.c = c /\ u.flags = flags
    <3>1. Called(w, u)
      BY <1>0, <2>3, <2>6, <2>8, AppCallMoves
    <3> QED BY <2>8, <3>1, CallIs, OnTickIs
  <2>12. w.c.app = NoSlot /\ Effect(w)
    <3>1. \A s \in Conns : s # NoSlot
      BY SlotAssumption DEF NoSlot
    <3>2. \A s : Outcome(w, u, s) => w.c.app = NoSlot
      BY <2>8, <2>11 DEF Outcome, Drops
    <3> QED BY <2>8, <2>11, <3>1, <3>2 DEF Called, Nothing, Fresh, Has
  <2>13. v.slot = w.slot /\ v.kept = w.kept /\ v.c.st = "LAST_ACK" /\ v.c.app = NoSlot
    BY <2>12, FinnedIs DEF Follows
  <2>14. Adopts(i, v)
    BY <2>1, DoneIs DEF FinAck
  <2> DEFINE d == v.c
  <2>15. d.st \notin Half /\ d.app = w.c.app /\ (d.app # NoSlot => d.stopped = w.c.stopped /\ d.peer = p /\ d.rcv = y)
    BY <2>12, <2>13 DEF Half
  <2> HIDE DEF d
  <2>16. UnreadOK(d, w.slot[i])
    BY <2>2, <2>4, <2>10, <2>15, CallReads
  <2>17. w.kept = {}
    BY <2>10 DEF Took
  <2>18. Spares(i, v)
    <3>1. u.slot = slot
      BY <2>8, CallIs, OnTickIs
    <3> QED BY <2>6, <2>8, <2>11, <2>12, <2>13, <3>1, CalledSpares
  <2> QED BY <2>13, <2>14, <2>15, <2>16, <2>17, <2>18 DEF Gains, Receives, d
<1> QED BY <1>1, <1>2

LEMMA InEstablishedReads ==
  ASSUME SlotInv, StreamInv, ReadsInv, HasRoom, NEW i, Conns = {i}, Used(conn[i]), NEW p \in Peers, p = conn[i].peer,
         NEW m \in SegRec, GivenOK(p, m), InEstablished(i, p, m)
  PROVE  Gains(i)
<1> DEFINE new == IF conn[i].stopped THEN {} ELSE Packet(p, m)
           n == IF new = {} THEN 0 ELSE Len(m.data)
           a == AfterAck(conn[i], m)
           c == Advanced(a, n)
           flags == AckFlag(conn[i], m) \union (IF new = {} THEN {} ELSE {"NEWDATA"})
           w == Call(c, flags)
           r == AppCall(w, new)
           z == conn[i].rcv
<1>0. i \in Conns
  OBVIOUS
<1>1. /\ conn[i].st = "ESTABLISHED" /\ InOrder(conn[i], m)
      /\ IF flags = {} THEN Done(i, Call(c, {}), {}) ELSE AppSend(i, r)
  BY DEF InEstablished
<1>2. in_packet = {} /\ UnreadOK(conn[i], slot[i]) /\ ConnShape(conn[i]) /\ z \in Nat /\ NextByte(p) \in Nat
  BY <1>0, ReadsBegin
<1>3. /\ new \in SUBSET Packets /\ n \in Nat /\ n = Len(NewData(new)) /\ Incoming(new, p, z) /\ (new # {} => ~conn[i].stopped)
  <2>1. CASE new = {}
    <3>1. Len(NewData(new)) = 0 /\ n = 0
      BY <2>1 DEF NewData
    <3> HIDE DEF n, new
    <3> QED BY <2>1, <3>1 DEF Incoming
  <2>2. CASE new # {}
    <3>1. /\ Packet(p, m) \in SUBSET Packets /\ NewData(Packet(p, m)) = m.data /\ Len(m.data) \in Nat
          /\ (Packet(p, m) = {} <=> m.data = <<>>) /\ Incoming(Packet(p, m), p, m.seq)
      BY PacketReads
    <3>2. new = Packet(p, m) /\ ~conn[i].stopped /\ n = Len(m.data)
      BY <2>2
    <3> HIDE DEF n, new
    <3>3. m.seq = z
      BY <1>1, <2>2, <3>1, <3>2 DEF InOrder, TakesUp
    <3> QED BY <3>1, <3>2, <3>3
  <2> QED BY <2>1, <2>2
<1>4. ConnShape(a) /\ a.app = conn[i].app /\ a.st = "ESTABLISHED" /\ a.peer = p /\ a.stopped = conn[i].stopped /\ a.rcv = z
  BY <1>1, <1>2, AfterAckIs
<1>5. flags \intersect {"CLOSE", "TIMEDOUT"} = {} /\ "CONNECTED" \notin flags
  BY DEF AckFlag
<1>6. flags = {} => new = {}
  OBVIOUS
<1> HIDE DEF a, n, new
<1>7. /\ ConnShape(c) /\ c.app = conn[i].app /\ c.st = "ESTABLISHED" /\ p = c.peer /\ c.stopped = conn[i].stopped
      /\ c.rcv = z + Len(NewData(new))
  BY <1>3, <1>4, AdvancedIs
<1>8. c.app # NoSlot /\ "CLOSE" \notin slot[i].state => Fills(c, slot[i], p, z)
  BY <1>2, <1>7 DEF UnreadOK, Fills
<1>9. w \in {Call(c, flags), OnTick(c, flags)} /\ r = AppCall(w, new)
  OBVIOUS
<1>10. CASE flags = {}
  <2> DEFINE u == Call(c, {})
  <2>1. Done(i, u, {}) /\ u \in {Call(c, {}), OnTick(c, {})}
    BY <1>1, <1>10
  <2>2. Len(NewData(new)) = 0
    BY <1>6, <1>10 DEF NewData
  <2> HIDE DEF u, c, z
  <2>3. c.rcv = z /\ c.st \notin Half
    BY <1>2, <1>7, <2>2 DEF Half
  <2>4. c.app # NoSlot => c.stopped = conn[i].stopped /\ c.peer = conn[i].peer /\ c.rcv = conn[i].rcv
    BY <1>7, <2>3 DEF z
  <2> QED BY <1>0, <1>2, <1>7, <2>1, <2>3, <2>4, PlainReads
<1>11. CASE flags # {}
  <2>1. AppSend(i, r)
    BY <1>1, <1>11
  <2> HIDE DEF c, w, r, flags, z
  <2>2. (new # {} => ~c.stopped) /\ (c.app = NoSlot /\ "CONNECTED" \in flags => z = NextByte(p))
    BY <1>3, <1>5, <1>7
  <2> QED BY <1>2, <1>3, <1>5, <1>7, <1>8, <1>9, <2>1, <2>2, AppSendReads
<1> QED BY <1>10, <1>11

(* A connection that has no slot changes, and is not being made any more.  *)
LEMMA DetachedReads ==
  ASSUME in_packet = {}, NEW i \in Conns, UnreadOK(conn[i], slot[i]), NEW v, v.kept = {}, v.slot = slot,
         v.c.app = NoSlot, v.c.st \notin Half, Adopts(i, v)
  PROVE  Gains(i)
<1>1. UnreadOK(v.c, slot[i])
  BY SameReads
<1> QED BY <1>1 DEF Gains, Receives, Spares

LEMMA InLastAckReads ==
  ASSUME SlotInv, StreamInv, ReadsInv, NEW i \in Conns, Used(conn[i]), NEW m, InLastAck(i, m) PROVE Gains(i)
<1>1. CASE ~Acks(conn[i], m)
  <2>1. Done(i, Call(conn[i], {}), {})
    BY <1>1 DEF InLastAck
  <2> QED BY <2>1, StillReads
<1>2. CASE Acks(conn[i], m)
  <2> DEFINE c == [conn[i] EXCEPT !.st = "CLOSED", !.stopped = FALSE]
             flags == {"CLOSE"}
             u == Call(c, flags)
             w == AppCall(u, {})
             v == Gone(w)
  <2>1. ConnShape(conn[i]) /\ conn[i].app = NoSlot /\ in_packet = {} /\ UnreadOK(conn[i], slot[i])
    BY ReadsBegin DEF InLastAck
  <2>2. ConnShape(c) /\ c.app = conn[i].app /\ c.app = NoSlot /\ c.st = "CLOSED" /\ ~c.stopped
    BY <2>1 DEF ConnShape
  <2>3. Done(i, v, {})
    BY <1>2 DEF InLastAck
  <2>4. "CONNECTED" \notin flags /\ u \in {Call(c, flags), OnTick(c, flags)}
    OBVIOUS
  <2> HIDE DEF c, flags
  <2>5. u.c = c /\ u.kept = {} /\ u.slot = slot
    BY CallIs
  <2> HIDE DEF u
  <2>6. w = u
    BY <2>2, <2>4, CallsNone
  <2> HIDE DEF w
  <2>7. Moves(i, u)
    <3> DEFINE x == u
    <3>1. ConnShape(c) /\ c.app = conn[i].app /\ x \in {Call(c, flags), OnTick(c, flags)}
      BY <2>2, <2>4
    <3> QED BY <3>1, CallStarts
  <2>8. Effect(w)
    BY <2>6, <2>7 DEF Moves
  <2>9. v.kept = {} /\ v.slot = slot /\ v.c = ClosedConn(NoSlot, w.c.lport)
    BY <2>2, <2>5, <2>6, <2>8, GoneIs DEF Follows
  <2>10. v.c.app = NoSlot /\ v.c.st \notin Half
    BY <2>9, ClosedConnIs DEF Half
  <2> HIDE DEF v
  <2>11. Adopts(i, v)
    BY <2>3, DoneIs
  <2> QED BY <2>1, <2>9, <2>10, <2>11, DetachedReads
<1> QED BY <1>1, <1>2

LEMMA InFinWaitReads ==
  ASSUME SlotInv, StreamInv, ReadsInv, NEW i \in Conns, Used(conn[i]), NEW m \in SegRec, InFinWait(i, m) PROVE Gains(i)
<1> DEFINE acked == conn[i].st = "FIN_WAIT_2" \/ Acks(conn[i], m)
           fin == "FIN" \in m.flags
           n == Len(m.data) + (IF fin THEN 1 ELSE 0)
           b == AfterAck(conn[i], m)
           a == Advanced(b, n)
           c == [a EXCEPT !.st = IF fin THEN IF acked THEN "TIME_WAIT" ELSE "CLOSING"
                                 ELSE IF acked THEN "FIN_WAIT_2" ELSE @]
           w == IF fin THEN AppCall(Call(c, {"CLOSE"}), {}) ELSE Call(c, {})
           out == IF ~fin /\ (m.data = <<>> \/ (conn[i].st = "FIN_WAIT_1" /\ acked)) THEN {} ELSE Reply(c, {"ACK"}, <<>>)
<1>1. conn[i].st \in {"FIN_WAIT_1", "FIN_WAIT_2"} /\ Done(i, w, out)
  BY DEF InFinWait
<1>2. n \in Nat
  <2>1. Len(m.data) \in Nat
    BY PacketType
  <2>2. \A x, y \in Nat : x + y \in Nat
    OBVIOUS
  <2>3. (IF fin THEN 1 ELSE 0) \in Nat
    OBVIOUS
  <2> QED BY <2>1, <2>2, <2>3, Zenon DEF n
<1>3. ConnShape(conn[i]) /\ conn[i].app = NoSlot /\ in_packet = {} /\ UnreadOK(conn[i], slot[i])
  BY <1>1, ReadsBegin
<1>4. ConnShape(b) /\ b.app = conn[i].app /\ b.st = conn[i].st
  BY <1>3, AfterAckIs
<1> HIDE DEF n, b
<1>5. ConnShape(a) /\ a.app = conn[i].app /\ a.st = conn[i].st
  BY <1>2, <1>4, AdvancedIs
<1> HIDE DEF a
<1>6. ConnShape(c) /\ c.app = conn[i].app /\ c.app = NoSlot /\ c.st \notin Half
  BY <1>1, <1>3, <1>5 DEF ConnShape, Half
<1> HIDE DEF c, acked, out
<1>7. \E flags : w \in {Call(c, flags), OnTick(c, flags)}
  <2>1. CASE fin
    <3> DEFINE flags == {"CLOSE"}
               u == Call(c, flags)
    <3>1. "CONNECTED" \notin flags /\ u \in {Call(c, flags), OnTick(c, flags)} /\ w = AppCall(u, {})
      BY <2>1
    <3> HIDE DEF u, flags, w
    <3>2. AppCall(u, {}) = u
      BY <1>3, <1>6, <3>1, CallsNone
    <3> QED BY <3>1, <3>2
  <2>2. CASE ~fin
    BY <2>2
  <2> QED BY <2>1, <2>2
<1> HIDE DEF w
<1> QED BY <1>1, <1>3, <1>6, <1>7, PlainReads

LEMMA InClosingReads ==
  ASSUME SlotInv, StreamInv, ReadsInv, NEW i \in Conns, Used(conn[i]), NEW m, InClosing(i, m) PROVE Gains(i)
<1> DEFINE a == AfterAck(conn[i], m)
           d == [a EXCEPT !.st = "TIME_WAIT", !.stopped = FALSE]
<1>1. conn[i].st = "CLOSING" /\ Done(i, Call(IF Acks(conn[i], m) THEN d ELSE a, {}), {})
  BY DEF InClosing, Used
<1>2. ConnShape(conn[i]) /\ conn[i].app = NoSlot /\ in_packet = {} /\ UnreadOK(conn[i], slot[i])
  BY <1>1, ReadsBegin
<1>3. ConnShape(a) /\ a.app = NoSlot /\ a.st = "CLOSING"
  BY <1>1, <1>2, AfterAckIs
<1> HIDE DEF a
<1>4. PICK c \in {a, d} : Done(i, Call(c, {}), {})
  BY <1>1
<1>5. c.app = conn[i].app /\ c.app = NoSlot /\ c.st \notin Half
  BY <1>2, <1>3 DEF ConnShape, Half
<1> DEFINE w == Call(c, {})
<1>6. Done(i, w, {}) /\ w \in {Call(c, {}), OnTick(c, {})}
  BY <1>4
<1> HIDE DEF w, d
<1> QED BY <1>2, <1>5, <1>6, PlainReads

LEMMA InTimeWaitReads ==
  ASSUME SlotInv, StreamInv, ReadsInv, NEW i \in Conns, Used(conn[i]), NEW m, InTimeWait(i, m) PROVE Gains(i)
<1> DEFINE out == Reply(conn[i], {"ACK"}, <<>>)
           c == AfterAck(conn[i], m)
           w == Call(c, {})
<1>1. conn[i].st = "TIME_WAIT" /\ Done(i, w, out)
  BY DEF InTimeWait
<1>2. ConnShape(conn[i]) /\ conn[i].app = NoSlot /\ in_packet = {} /\ UnreadOK(conn[i], slot[i])
  BY <1>1, ReadsBegin
<1>3. c.app = conn[i].app /\ c.app = NoSlot /\ c.st \notin Half
  BY <1>1, <1>2, AfterAckIs DEF Half
<1>4. w \in {Call(c, {}), OnTick(c, {})}
  OBVIOUS
<1> HIDE DEF out, c, w
<1> QED BY <1>1, <1>2, <1>3, <1>4, PlainReads

LEMMA MatchedReads ==
  ASSUME SlotInv, StreamInv, ReadsInv, HasRoom, NEW i, Conns = {i}, NEW p \in Peers, NEW m \in SegRec, Answered(m, Host(p)),
         GivenOK(p, m), Matched(i, p, m)
  PROVE  Gains(i)
<1>0. i \in Conns
  OBVIOUS
<1>1. Used(conn[i])
  BY <1>0, MatchedFlows
<1>2. p = conn[i].peer /\ ~GotReset(i, m)
  BY DEF Matched, Matches, GotReset, Answered
<1>3. CASE OutOfOrder(i, m)
  BY <1>0, <1>1, <1>3, StillReads DEF OutOfOrder
<1>4. CASE InSynRcvd(i, p, m)
  BY <1>1, <1>2, <1>4, InSynRcvdReads
<1>5. CASE InSynSent(i, m)
  BY <1>1, <1>2, <1>5, InSynSentReads
<1>6. CASE InSynSentOther(i, p, m)
  BY <1>0, <1>1, <1>6, InSynSentOtherReads
<1>7. CASE InEstablishedFin(i, p, m)
  BY <1>1, <1>2, <1>7, InEstablishedFinReads
<1>8. CASE InEstablished(i, p, m)
  BY <1>1, <1>2, <1>8, InEstablishedReads
<1>9. CASE InLastAck(i, m)
  BY <1>0, <1>1, <1>9, InLastAckReads
<1>10. CASE InFinWait(i, m)
  BY <1>0, <1>1, <1>10, InFinWaitReads
<1>11. CASE InClosing(i, m)
  BY <1>0, <1>1, <1>11, InClosingReads
<1>12. CASE InTimeWait(i, m)
  BY <1>0, <1>1, <1>12, InTimeWaitReads
<1> QED BY <1>2, <1>3, <1>4, <1>5, <1>6, <1>7, <1>8, <1>9, <1>10, <1>11, <1>12 DEF Matched

(* A connection is opened: the host does not know it yet.                  *)
LEMMA OpensReads ==
  ASSUME SlotInv, StreamInv, ReadsInv, NEW i, Conns = {i}, NEW c, conn' = [conn EXCEPT ![i] = c], UNCHANGED <<slot, peer, read>>,
         in_packet' = {}, \A q \in Peers : toUs'[q] \subseteq toUs[q],
         c.app = NoSlot, c.iss = opened + 1, c.st = "SYN_RCVD" => c.rcv = 1, ~c.stopped
  PROVE  ReadsInv'
<1>1. conn'[i] = c
  BY DEF SlotInv, UipTypes
<1>2. \A q \in Peers : Made(c, q) /\ Made(c, q)'
  <2>1. ASSUME NEW q \in Peers PROVE c.iss # peer[q].conn
    <3>1. Numbered(Host(q), opened) /\ Host(q).conn = peer[q].conn /\ HostShape(Host(q)) /\ opened \in Nat
      BY HostIs DEF SlotInv, UipTypes, StreamInv, HostsOK
    <3> QED BY <3>1 DEF Numbered, HostShape
  <2> QED BY <2>1 DEF Made
<1>3. Given'
  BY DEF ReadsInv, Given, GivenOK
<1>4. ASSUME NEW q \in Peers, Unserved(conn[i], q)' PROVE read'[q] = <<>>
  <2>1. Unserved(conn[i], q)
    BY <1>1, <1>2, <1>4 DEF Unserved, Made
  <2> QED BY <2>1 DEF ReadsInv, Readings
<1>5. Readings'
  BY <1>4 DEF ReadsInv, Readings
<1>6. UnreadOK(conn[i], slot[i])
  BY DEF ReadsInv
<1>7. UnreadOK(conn[i], slot[i])'
  BY <1>1, <1>2, <1>6 DEF UnreadOK, Unread, NextByte
<1> QED BY <1>5, <1>3, <1>7 DEF ReadsInv

LEMMA InputReads ==
  ASSUME SlotInv, StreamInv, ReadsInv, HasRoom, NEW i, Conns = {i}, NEW p \in Peers, Input(p) PROVE ReadsInv'
<1>1. PICK m \in Waiting(p) :
        /\ Arriving(p, m)
        /\ NoConnection(p, m) \/ Listens(p, m) \/ NoneLeft(p, m) \/ \E j \in Conns : Matched(j, p, m)
        /\ UNCHANGED <<client, call, read, written, peer, received>>
  BY DEF Input
<1>2. m \in SegRec /\ Answered(m, Host(p)) /\ \A q \in Peers : toUs'[q] \subseteq toUs[q]
  BY <1>1, ArrivingIs
<1>3. GivenOK(p, m)
  BY <1>1 DEF ReadsInv, Given, Arriving
<1>4. CASE NoConnection(p, m) \/ NoneLeft(p, m)
  <2>1. UNCHANGED <<conn, slot>> /\ in_packet' = {}
    BY <1>4 DEF NoConnection, NoneLeft
  <2> QED BY <1>1, <1>2, <2>1 DEF ReadsInv, Given, GivenOK, Readings, Unserved, Made, UnreadOK, Fills, Unread, NextByte
<1>5. CASE Listens(p, m)
  <2>1. PICK j \in Candidates : conn' = [conn EXCEPT ![j] = Opened(j, "SYN_RCVD", p, m.seq + 1, "listen")]
    BY <1>5 DEF Listens
  <2> DEFINE c == Opened(j, "SYN_RCVD", p, m.seq + 1, "listen")
  <2>2. j = i /\ conn[j].app = NoSlot
    BY CandidateFree
  <2>3. m.seq = 0 /\ in_packet' = {} /\ slot' = slot
    BY <1>3, <1>5 DEF GivenOK, Listens
  <2>4. c.app = NoSlot /\ c.iss = opened + 1 /\ c.rcv = 1 /\ ~c.stopped
    BY <2>2, <2>3 DEF Opened, ClosedConn
  <2> HIDE DEF c
  <2>5. conn' = [conn EXCEPT ![i] = c]
    BY <2>1, <2>2 DEF c
  <2> QED BY <1>1, <1>2, <2>3, <2>4, <2>5, OpensReads
<1>6. ASSUME NEW j \in Conns, Matched(j, p, m) PROVE ReadsInv'
  <2>1. j = i
    OBVIOUS
  <2>2. Gains(i)
    BY <1>2, <1>3, <1>6, <2>1, MatchedReads
  <2> QED BY <1>1, <1>2, <2>2, GainsKeeps
<1> QED BY <1>1, <1>4, <1>5, <1>6

(***************************************************************************)
(* Steps of the hosts and the network                                      *)
(***************************************************************************)
(* A host that has a connection keeps it; what it sends is right.          *)
LEMMA HostReads ==
  ASSUME SlotInv, ReadsInv, UNCHANGED <<conn, slot, in_packet, read>>,
         \A q \in Peers : peer[q].st \notin Early => peer'[q].st \notin Early /\ peer'[q].conn = peer[q].conn,
         \A q \in Peers : \A m \in toUs'[q] : m \in toUs[q] \/ GivenOK(q, m)'
  PROVE  ReadsInv'
<1>1. Given'
  BY DEF ReadsInv, Given, GivenOK
<1>2. ASSUME NEW q \in Peers, NEW i \in Conns, Unserved(conn[i], q)' PROVE read'[q] = <<>>
  <2>1. peer[q].st \in Early \/ ~Made(conn[i], q)
    BY <1>2 DEF Unserved, Made
  <2> QED BY <2>1 DEF ReadsInv, Readings, Unserved
<1>3. Readings'
  BY <1>2 DEF ReadsInv, Readings
<1>4. ASSUME NEW i \in Conns PROVE UnreadOK(conn[i], slot[i])'
  <2> DEFINE c == conn[i]
             o == slot[i]
  <2>1. UnreadOK(c, o)
    BY DEF ReadsInv
  <2>2. \A q, z : Unread(o, q, z) => Unread(o, q, z)'
    BY DEF Unread, NextByte
  <2>3. ASSUME o.in # <<>> PROVE \E q \in Peers, z \in Nat : Unread(o, q, z)' /\ Made(c, q)'
    <3>1. PICK q \in Peers, z \in Nat : Unread(o, q, z) /\ Made(c, q)
      BY <2>1, <2>3 DEF UnreadOK
    <3>2. peer[q].st \notin Early
      BY <2>3, <3>1 DEF Unread
    <3>3. Made(c, q)'
      BY <3>1, <3>2 DEF Made
    <3> QED BY <2>2, <3>1, <3>3
  <2>4. \A z : Fills(c, o, c.peer, z) => Fills(c, o, c.peer, z)'
    BY <2>2 DEF Fills
  <2> QED BY <2>1, <2>3, <2>4 DEF UnreadOK
<1> QED BY <1>1, <1>3, <1>4 DEF ReadsInv

LEMMA AnswersRead ==
  ASSUME SlotInv, NEW p \in Peers, NEW flags, PeerSends(p, FromPeer(p, flags, <<>>))
  PROVE  \A q \in Peers : \A m \in toUs'[q] : m \in toUs[q] \/ GivenOK(q, m)'
<1>0. PICK n : n = FromPeer(p, flags, <<>>)
  OBVIOUS
<1>1. Len(<<>>) = 0
  OBVIOUS
<1>2. GivenOK(p, n)'
  BY <1>0, <1>1 DEF GivenOK, FromPeer, Segment, Bytes
<1>3. PeerSends(p, n)
  BY <1>0
<1>4. (\A q \in Peers \ {p} : toUs'[q] = toUs[q]) /\ \A m \in toUs'[p] : m \in toUs[p] \/ m = n
  BY <1>3, SendsIs
<1> QED BY <1>2, <1>4

LEMMA DataReads ==
  ASSUME SlotInv, ReadsInv, UNCHANGED <<conn, slot, in_packet, read>>, NEW p \in Peers, NEW n \in Nat, NEW fin, SendsData(p, n, fin)
  PROVE  ReadsInv'
<1> DEFINE flags == IF fin THEN {"ACK", "FIN"} ELSE {"ACK"}
           data == [k \in 1 .. n |-> <<p, peer[p].una + k - 1>>]
<1>0. PICK m : m = FromPeer(p, flags, data)
  OBVIOUS
<1>1. peer[p].st = "est" /\ UNCHANGED <<toPeer, peer, received>> /\ PeerSends(p, m)
  BY <1>0 DEF SendsData
<1>2. m.data = data /\ m.flags = flags /\ m.seq = peer[p].una /\ "SYN" \notin m.flags
  BY <1>0, <1>1 DEF FromPeer, Segment
<1>3. Bytes(data, p, peer[p].una)
  BY DEF Bytes
<1> HIDE DEF data, flags
<1>4. GivenOK(p, m)'
  BY <1>1, <1>2, <1>3 DEF GivenOK, Early
<1>5. (\A q \in Peers \ {p} : toUs'[q] = toUs[q]) /\ \A k \in toUs'[p] : k \in toUs[p] \/ k = m
  BY <1>1, SendsIs
<1>6. \A q \in Peers : \A k \in toUs'[q] : k \in toUs[q] \/ GivenOK(q, k)'
  BY <1>4, <1>5
<1>7. \A q \in Peers : peer[q].st \notin Early => peer'[q].st \notin Early /\ peer'[q].conn = peer[q].conn
  BY <1>1
<1> QED BY <1>6, <1>7, HostReads

LEMMA PeerReads == ASSUME Resets = {}, SlotInv, ReadsInv, Peer PROVE ReadsInv'
<1>1. PICK p \in Peers : PeerStep(p)
  BY DEF Peer
<1>2. UNCHANGED <<conn, slot, in_packet, read>>
  BY DEF Peer, sketchVars
<1>3. DOMAIN peer = Peers /\ PeerShape(peer[p])
  BY DEF SlotInv, NetTypes
<1>4. ASSUME NEW new, peer' = [peer EXCEPT ![p] = new], peer[p].st \in Early \/ (new.st \notin Early /\ new.conn = peer[p].conn),
             \A q \in Peers : \A m \in toUs'[q] : m \in toUs[q] \/ GivenOK(q, m)'
      PROVE  ReadsInv'
  <2>1. \A q \in Peers : peer[q].st \notin Early => peer'[q].st \notin Early /\ peer'[q].conn = peer[q].conn
    BY <1>3, <1>4
  <2> QED BY <1>2, <1>4, <2>1, HostReads
<1>5. CASE Connects(p)
  <2> DEFINE new == [peer[p] EXCEPT !.st = "synsent"]
             flags == {"SYN"}
  <2>1. peer' = [peer EXCEPT ![p] = new] /\ peer[p].st \in Early /\ PeerSends(p, FromPeer(p, flags, <<>>))
    BY <1>5 DEF Connects, Early
  <2> HIDE DEF new, flags
  <2> QED BY <1>4, <2>1, AnswersRead
<1>6. CASE PeerSendsData(p)
  <2>1. PICK n \in 0 .. MaxSegment, fin \in BOOLEAN : SendsData(p, n, fin)
    BY <1>6 DEF PeerSendsData
  <2>2. n \in Nat
    BY PeerAssumption
  <2> QED BY <1>2, <2>1, <2>2, DataReads
<1>7. CASE Loses(p)
  <2>1. peer' = peer /\ \A q \in Peers : toUs'[q] \subseteq toUs[q]
    BY <1>7 DEF Loses, SlotInv, NetTypes
  <2> QED BY <1>2, <2>1, HostReads
<1>8. ASSUME NEW m \in toPeer[p], GetsSyn(p, m) PROVE ReadsInv'
  <2> DEFINE new == [peer[p] EXCEPT !.st = "synrcvd", !.conn = m.conn, !.rcv = 1]
             flags == {"SYN", "ACK"}
  <2>1. peer' = [peer EXCEPT ![p] = new] /\ peer[p].st \in Early /\ PeerSends(p, FromPeer(p, flags, <<>>))
    BY <1>8 DEF GetsSyn, IsSyn, Takes, Answers, Early
  <2> HIDE DEF new, flags
  <2> QED BY <1>4, <2>1, AnswersRead
<1>9. ASSUME NEW m \in toPeer[p], GetsSynAck(p, m) PROVE ReadsInv'
  <2> DEFINE new == [peer[p] EXCEPT !.st = "est", !.conn = m.conn, !.una = 1, !.rcv = 1]
             flags == {"ACK"}
  <2>1. peer' = [peer EXCEPT ![p] = new] /\ peer[p].st \in Early /\ PeerSends(p, FromPeer(p, flags, <<>>))
    BY <1>9 DEF GetsSynAck, IsSynAck, Takes, Answers, Early
  <2> HIDE DEF new, flags
  <2> QED BY <1>4, <2>1, AnswersRead
<1>10. ASSUME NEW m \in toPeer[p], GetsReset(p, m) PROVE ReadsInv'
  <2> DEFINE new == [peer[p] EXCEPT !.st = "dead"]
  <2>1. peer' = [peer EXCEPT ![p] = new] /\ toUs' = toUs
    BY <1>10 DEF GetsReset, Takes
  <2>2. new.st \notin Early /\ new.conn = peer[p].conn
    BY <1>3 DEF PeerShape, Early
  <2> HIDE DEF new
  <2> QED BY <1>4, <2>1, <2>2
<1>11. ASSUME NEW m \in toPeer[p], GetsOther(p, m) PROVE ReadsInv'
  <2>1. peer' = [peer EXCEPT ![p] = peer[p]] /\ toUs' = toUs
    BY <1>11 DEF GetsOther, Takes
  <2> DEFINE new == peer[p]
  <2>2. peer' = [peer EXCEPT ![p] = new] /\ (new.st \notin Early => new.conn = peer[p].conn) /\ new.st = peer[p].st
    BY <2>1
  <2> HIDE DEF new
  <2> QED BY <1>4, <2>1, <2>2
<1>12. ASSUME NEW m \in toPeer[p], GetsSegment(p, m) PROVE ReadsInv'
  <2>1. PICK new : peer' = [peer EXCEPT ![p] = new] /\ new.st = "est" /\ new.conn = peer[p].conn
    <3> DEFINE inOrder == m.seq = peer[p].rcv /\ "SYN" \notin m.flags
               fin == IF "FIN" \in m.flags THEN 1 ELSE 0
               new == [peer[p] EXCEPT
                           !.st = "est",
                           !.una = IF m.ack > @ THEN m.ack ELSE @,
                           !.rcv = IF inOrder THEN @ + Len(m.data) + fin ELSE @,
                           !.eof = @ \/ (inOrder /\ fin = 1)]
    <3>1. peer' = [peer EXCEPT ![p] = new]
      BY <1>12 DEF GetsSegment, Takes
    <3>2. new.st = "est" /\ new.conn = peer[p].conn
      BY <1>3 DEF PeerShape
    <3> QED BY <3>1, <3>2
  <2> DEFINE flags == {"ACK"}
  <2>2. toUs' = toUs \/ PeerSends(p, FromPeer(p, flags, <<>>))
    BY <1>12 DEF GetsSegment, Answers
  <2> HIDE DEF flags
  <2>3. \A q \in Peers : \A k \in toUs'[q] : k \in toUs[q] \/ GivenOK(q, k)'
    BY <2>2, AnswersRead
  <2>4. new.st \notin Early
    BY <2>1 DEF Early
  <2> QED BY <1>4, <2>1, <2>3, <2>4
<1>13. ~ResetsConnection(p)
  BY DEF ResetsConnection
<1> QED BY <1>1, <1>5, <1>6, <1>7, <1>8, <1>9, <1>10, <1>11, <1>12, <1>13 DEF PeerStep, Gets

(***************************************************************************)
(* Steps of the sketch                                                     *)
(***************************************************************************)
LEMMA SlotReads ==
  ASSUME SlotInv, ReadsInv, UNCHANGED <<conn, in_packet, peer, read, toUs>>,
         \A j \in Conns : slot'[j].in = slot[j].in /\ slot'[j].state = slot[j].state
  PROVE  ReadsInv'
<1>1. Given' /\ Readings'
  BY DEF ReadsInv, Given, GivenOK, Readings, Unserved, Made
<1>2. ASSUME NEW j \in Conns PROVE UnreadOK(conn[j], slot[j])'
  <2>1. UnreadOK(conn[j], slot[j]) /\ slot'[j].in = slot[j].in /\ slot'[j].state = slot[j].state
    BY DEF ReadsInv
  <2> QED BY <2>1 DEF UnreadOK, Fills, Unread, Made, NextByte
<1> QED BY <1>1, <1>2 DEF ReadsInv

(* The first byte of a chain is taken.                                     *)
LEMMA ChainRead ==
  ASSUME NEW out \in Seq(Block), out # <<>>, Filled(out), NEW p, NEW a \in Nat, NEW z \in Nat, Chain(out, p, a, z),
         NEW n, n = IF Len(Head(out)) > 1 THEN [out EXCEPT ![1] = Tail(@)] ELSE Tail(out)
  PROVE  Head(Head(out)) = <<p, a>> /\ Chain(n, p, a + 1, z)
<1> DEFINE b == Head(out)
           t == Tail(b)
<1>1. b \in Block /\ b # <<>> /\ Bytes(b, p, a) /\ a + Len(b) <= z
  BY ChainHead
<1>2. b = out[1] /\ Len(out) \in Nat /\ 1 \in 1 .. Len(out) /\ \A k \in 1 .. Len(out) : out[k] \in Block
  OBVIOUS
<1>3. Len(b) \in Nat /\ 1 \in 1 .. Len(b) /\ b \in Seq(Byte)
  BY <1>1, BlockIs DEF Block
<1> HIDE DEF b
<1>4. Head(b) = <<p, a>>
  <2>1. Head(b) = b[1] /\ a + 1 - 1 = a
    BY <1>1, <1>3
  <2> QED BY <1>1, <1>3, <2>1 DEF Bytes
<1>5. CASE ~(Len(b) > 1)
  <2>1. Len(b) = 1
    <3>1. \A k \in Nat : k # 0 /\ ~(k > 1) => k = 1
      OBVIOUS
    <3>2. Len(b) # 0
      BY <1>3
    <3> QED BY <1>3, <1>5, <3>1, <3>2, Zenon
  <2>3. n = Tail(out)
    BY <1>5 DEF b
  <2>2. Chain(Tail(out), p, a + Len(b), z)
    BY ChainTail DEF b
  <2> QED BY <1>4, <2>1, <2>2, <2>3 DEF b
<1>6. CASE Len(b) > 1
  <2>1. t \in Seq(Byte) /\ Len(t) = Len(b) - 1 /\ \A j \in 1 .. Len(t) : j + 1 \in 1 .. Len(b) /\ t[j] = b[j + 1]
    BY <1>1, <1>3
  <2> HIDE DEF t
  <2>2. Bytes(t, p, a + 1)
    <3> SUFFICES ASSUME NEW j \in 1 .. Len(t) PROVE t[j] = <<p, a + 1 + j - 1>>
      BY DEF Bytes
    <3>1. t[j] = b[j + 1] /\ b[j + 1] = <<p, a + (j + 1) - 1>>
      BY <1>1, <2>1 DEF Bytes
    <3>2. a + (j + 1) - 1 = a + 1 + j - 1
      BY <1>3, <2>1
    <3> QED BY <3>1, <3>2
  <2>3. 1 \in 1 .. Len(t) /\ Len(t) \in Nat
    BY <1>3, <1>6, <2>1
  <2>4. From(t) = a + 1
    <3>1. t[1] = <<p, a + 1 + 1 - 1>> /\ a + 1 + 1 - 1 = a + 1
      BY <2>2, <2>3 DEF Bytes
    <3> QED BY <3>1 DEF From
  <2>5. From(t) + Len(t) = a + Len(b) /\ From(t) + Len(t) <= z
    BY <1>1, <1>3, <2>1, <2>3, <2>4
  <2>6. n = [out EXCEPT ![1] = t]
    BY <1>6 DEF b, t
  <2>7. Len(n) = Len(out) /\ n # <<>> /\ n[1] = t /\ \A k \in 1 .. Len(out) : k # 1 => n[k] = out[k]
    <3>1. Len(n) = Len(out) /\ n[1] = t /\ \A k \in 1 .. Len(out) : k # 1 => n[k] = out[k]
      BY <1>2, <2>6
    <3>2. Len(<<>>) = 0 /\ Len(out) # 0
      BY <1>2
    <3> QED BY <3>1, <3>2
  <2>8. From(b) = a
    BY <1>2 DEF Chain
  <2> HIDE DEF b
  <2>9. \A k \in 1 .. Len(out) : From(n[k]) + Len(n[k]) = From(out[k]) + Len(out[k])
    BY <1>2, <2>5, <2>7, <2>8
  <2>10. From(n[Len(n)]) + Len(n[Len(n)]) = z
    BY <1>2, <2>7, <2>9 DEF Chain
  <2>11. \A k \in 1 .. Len(n) : Bytes(n[k], p, From(n[k])) /\ From(n[k]) + Len(n[k]) <= z
    BY <1>2, <2>2, <2>4, <2>5, <2>7 DEF Chain
  <2>12. ASSUME NEW k \in 1 .. Len(n) - 1 PROVE From(n[k + 1]) = From(n[k]) + Len(n[k])
    <3>1. k \in 1 .. Len(out) /\ k + 1 \in 1 .. Len(out) /\ k + 1 # 1 /\ k \in 1 .. Len(out) - 1
      BY <1>2, <2>7
    <3>2. n[k + 1] = out[k + 1] /\ From(out[k + 1]) = From(out[k]) + Len(out[k])
      BY <2>7, <3>1 DEF Chain
    <3> QED BY <2>9, <3>1, <3>2
  <2>13. Chain(n, p, a + 1, z)
    BY <2>4, <2>7, <2>10, <2>11, <2>12 DEF Chain
  <2> QED BY <1>4, <2>13 DEF b
<1> QED BY <1>5, <1>6

LEMMA ReadByteReads ==
  ASSUME SlotInv, ReadsInv, NEW i, Conns = {i}, ReadByte PROVE ReadsInv'
<1> DEFINE o == slot[i]
           c == conn[i]
           byte == Head(Head(o.in))
<1>0. PICK n : n = Read(o, c.stopped)
  OBVIOUS
<1>1. client = i /\ i \in Conns
  BY DEF ReadByte, SlotInv, SketchTypes
<1>2. /\ o.in # <<>> /\ slot' = [slot EXCEPT ![i] = n] /\ read' = [read EXCEPT ![byte[1]] = Append(@, byte[2])]
      /\ UNCHANGED <<conn, in_packet, peer, toUs>>
  BY <1>0, <1>1 DEF ReadByte, tcpVars, netVars
<1>3. SlotOK(o) /\ slot'[i] = n /\ UnreadOK(c, o)
  BY <1>1, <1>2 DEF SlotInv, UipTypes, ReadsInv
<1>4. /\ n.in = IF Len(Head(o.in)) > 1 THEN [o.in EXCEPT ![1] = Tail(@)] ELSE Tail(o.in)
      /\ "RESTART" \in n.state => "RESTART" \in o.state \/ (c.stopped /\ Len(n.in) < Len(o.in))
      /\ Len(n.in) \in Nat /\ Len(n.in) <= Len(o.in) /\ SlotOK(n)
  <2>1. SlotOK(n) /\ Len(n.in) = IF Len(Head(o.in)) = 1 THEN Len(o.in) - 1 ELSE Len(o.in)
    BY <1>0, <1>2, <1>3, ReadIs
  <2>2. o.in \in Seq(Block) /\ Len(o.in) \in Nat /\ Len(o.in) # 0 /\ Head(o.in) \in Block /\ Head(o.in) # <<>>
    <3>1. o.in \in Seq(Block) /\ Filled(o.in)
      BY <1>3 DEF SlotOK, SlotShape
    <3>2. 1 \in 1 .. Len(o.in) /\ Head(o.in) = o.in[1]
      BY <1>2, <3>1
    <3> QED BY <1>2, <3>1, <3>2 DEF Filled
  <2>3. Len(Head(o.in)) \in Nat /\ Len(Head(o.in)) # 0
    BY <2>2, BlockIs
  <2>4. Len(Head(o.in)) > 1 \/ Len(Head(o.in)) = 1
    <3>1. \A k \in Nat : k # 0 => k > 1 \/ k = 1
      OBVIOUS
    <3> QED BY <2>3, <3>1, Zenon
  <2>5. n.in = IF Len(Head(o.in)) > 1 THEN [o.in EXCEPT ![1] = Tail(@)] ELSE Tail(o.in)
    BY <1>0, <1>3 DEF Read, SlotOK, SlotShape
  <2>6. "RESTART" \in n.state => "RESTART" \in o.state \/ (c.stopped /\ ~(Len(Head(o.in)) > 1))
    BY <1>0, <1>3 DEF Read, SlotOK, SlotShape
  <2> QED BY <2>1, <2>2, <2>3, <2>4, <2>5, <2>6
<1>5. PICK q \in Peers, y \in Nat : Unread(o, q, y) /\ Made(c, q)
  BY <1>2, <1>3 DEF UnreadOK
<1>6. ASSUME NEW p \in Peers, NEW z \in Nat, Unread(o, p, z)
      PROVE  byte = <<p, NextByte(p)>> /\ Chain(n.in, p, NextByte(p) + 1, z)
  <2> DEFINE out == o.in
             a == NextByte(p)
             r == n.in
  <2>1. out \in Seq(Block) /\ out # <<>> /\ Filled(out)
    BY <1>2, <1>3 DEF SlotOK, SlotShape
  <2>2. a \in Nat /\ Chain(out, p, a, z)
    BY <1>6, NextByteIs DEF ReadsInv, Unread
  <2>3. r = IF Len(Head(out)) > 1 THEN [out EXCEPT ![1] = Tail(@)] ELSE Tail(out)
    BY <1>4
  <2> HIDE DEF out, a, r
  <2>4. Head(Head(out)) = <<p, a>> /\ Chain(r, p, a + 1, z)
    BY <2>1, <2>2, <2>3, ChainRead
  <2> QED BY <2>4 DEF out, a, r
<1>7. byte[1] = q /\ byte[2] = NextByte(q) /\ NextByte(q) \in Nat
  BY <1>5, <1>6, NextByteIs DEF ReadsInv
<1> HIDE DEF byte
<1>8. DOMAIN read = Peers /\ read' = [read EXCEPT ![q] = Append(@, NextByte(q))]
  BY <1>2, <1>7 DEF ReadsInv, Readings
<1>9. /\ \A p \in Peers : \E k \in Nat : read'[p] = [j \in 1 .. k |-> j]
      /\ NextByte(q)' = NextByte(q) + 1
  <2>1. PICK k \in Nat : read[q] = [j \in 1 .. k |-> j]
    BY DEF ReadsInv, Readings
  <2>2. Len(read[q]) = k /\ Append(read[q], k + 1) = [j \in 1 .. k + 1 |-> j] /\ k + 1 \in Nat
    BY <2>1
  <2>3. read'[q] = [j \in 1 .. k + 1 |-> j]
    BY <1>8, <2>2 DEF NextByte
  <2>4. Len(read'[q]) = k + 1
    BY <2>2, <2>3
  <2>5. \A p \in Peers \ {q} : read'[p] = read[p]
    BY <1>8
  <2>6. \A p \in Peers : \E x \in Nat : read[p] = [j \in 1 .. x |-> j]
    BY DEF ReadsInv, Readings
  <2>7. ASSUME NEW p \in Peers PROVE \E x \in Nat : read'[p] = [j \in 1 .. x |-> j]
    <3>1. CASE p = q
      <4> DEFINE x == k + 1
      <4>1. x \in Nat /\ read'[p] = [j \in 1 .. x |-> j]
        BY <2>2, <2>3, <3>1
      <4> HIDE DEF x
      <4> QED BY <4>1
    <3>2. CASE p # q
      BY <2>5, <2>6, <3>2
    <3> QED BY <3>1, <3>2
  <2>8. NextByte(q)' = NextByte(q) + 1
    BY <2>2, <2>4 DEF NextByte
  <2> QED BY <2>7, <2>8
<1>10. Readings'
  <2>1. ASSUME NEW p \in Peers, NEW j \in Conns, Unserved(conn[j], p)' PROVE read'[p] = <<>>
    <3>1. Unserved(c, p) /\ ~Unserved(c, q)
      BY <1>2, <1>5, <2>1 DEF Unserved, Made, Unread
    <3>2. read'[p] = read[p]
      BY <1>8, <3>1
    <3> QED BY <1>1, <3>1, <3>2 DEF ReadsInv, Readings
  <2> QED BY <1>8, <1>9, <2>1 DEF Readings
<1>11. Given'
  BY <1>2 DEF ReadsInv, Given, GivenOK
<1>12. \A z \in Nat : Unread(o, q, z) => Unread(n, q, z)'
  BY <1>2, <1>6, <1>9 DEF Unread
<1>13. UnreadOK(c, n)'
  <2>1. Unread(n, q, y)' /\ Made(c, q)'
    BY <1>2, <1>5, <1>12 DEF Made
  <2>2. ASSUME c.app # NoSlot PROVE Fills(c, n, c.peer, c.rcv)'
    <3>1. "CLOSE" \notin o.state
      BY <1>2, <1>3 DEF SlotOK
    <3>2. Fills(c, o, c.peer, c.rcv)
      BY <1>3, <2>2, <3>1 DEF UnreadOK
    <3>3. c.peer \in Peers /\ c.rcv \in Nat
      BY <1>1, <1>2, <3>2 DEF Fills, Unread, SlotInv, UipTypes, ConnShape
    <3>4. c.peer = q
      BY <1>5, <1>6, <3>2, <3>3 DEF Fills
    <3>5. Unread(n, c.peer, c.rcv)'
      BY <1>2, <1>12, <3>2, <3>3, <3>4 DEF Fills
    <3>6. NumPackets \in Nat /\ Len(o.in) \in Nat
      BY <1>3, SlotAssumption DEF SlotOK, SlotShape
    <3>7. /\ Len(n.in) <= NumPackets /\ (Len(n.in) = NumPackets => c.stopped)
          /\ "RESTART" \in n.state => c.stopped /\ Len(n.in) < NumPackets
      BY <1>4, <3>2, <3>6 DEF Fills
    <3> QED BY <1>2, <3>5, <3>7 DEF Fills
  <2> QED BY <1>2, <1>3, <2>1, <2>2 DEF UnreadOK
<1> QED BY <1>1, <1>2, <1>3, <1>10, <1>11, <1>13 DEF ReadsInv

LEMMA StopReads == ASSUME SlotInv, ReadsInv, NEW i, Conns = {i}, Stop PROVE ReadsInv'
<1>1. client = i /\ i \in Conns /\ UNCHANGED <<conn, in_packet, peer, read, toUs>>
  BY DEF Stop, SlotInv, SketchTypes, tcpVars, netVars
<1>2. CASE ~InUse(slot[i])
  <2>1. slot' = slot
    BY <1>1, <1>2 DEF Stop
  <2> QED BY <1>1, <2>1, SlotReads
<1>3. CASE InUse(slot[i])
  <2>1. PICK n : n = Stopped(slot[i])
    OBVIOUS
  <2>2. SlotOK(slot[i]) /\ slot'[i] = n /\ UnreadOK(conn[i], slot[i])
    BY <1>1, <1>3, <2>1 DEF Stop, SlotInv, UipTypes, ReadsInv
  <2>3. n.in = <<>> /\ ((n.state = {} /\ "REMOTECLOSED" \in slot[i].state) \/ "CLOSE" \in n.state)
    BY <2>1, <2>2 DEF Stopped, SlotOK, SlotShape
  <2>4. conn[i].app # NoSlot => "CLOSE" \in n.state
    BY <1>1, <2>3 DEF SlotInv, Owners, Serves, UipTypes, ConnShape
  <2>5. UnreadOK(conn[i], slot[i])'
    BY <1>1, <2>2, <2>3, <2>4 DEF UnreadOK
  <2>6. Given' /\ Readings'
    BY <1>1 DEF ReadsInv, Given, GivenOK, Readings, Unserved, Made
  <2> QED BY <1>1, <2>5, <2>6 DEF ReadsInv
<1> QED BY <1>2, <1>3

LEMMA WriteStepReads == ASSUME SlotInv, ReadsInv, WriteStep PROVE ReadsInv'
<1>1. UNCHANGED <<conn, in_packet, peer, read, toUs>> /\ client \in Conns
  BY DEF WriteStep, SlotInv, SketchTypes, tcpVars, netVars
<1>2. PICK out, room : slot' = [slot EXCEPT ![client].out = out, ![client].room = room]
  BY DEF WriteStep
<1>3. \A j \in Conns : slot'[j].in = slot[j].in /\ slot'[j].state = slot[j].state
  BY <1>1, <1>2 DEF SlotInv, UipTypes, SlotOK, SlotShape
<1> QED BY <1>1, <1>3, SlotReads

LEMMA ConnectReads == ASSUME SlotInv, StreamInv, ReadsInv, NEW i, Conns = {i}, NEW p \in Servers, Connect(p) PROVE ReadsInv'
<1>1. PICK j \in Candidates : conn' = [conn EXCEPT ![j] = Opened(j, "SYN_SENT", p, conn[j].rcv, "own")]
  BY DEF Connect
<1>2. PICK c : c = Opened(j, "SYN_SENT", p, conn[j].rcv, "own")
  OBVIOUS
<1>3. j = i /\ conn[j].app = NoSlot
  BY CandidateFree
<1>4. c.app = NoSlot /\ c.iss = opened + 1 /\ c.st = "SYN_SENT" /\ ~c.stopped
  BY <1>2, <1>3 DEF Opened, ClosedConn
<1>5. UNCHANGED <<slot, peer, read, toUs>> /\ in_packet' = {}
  BY DEF Connect, netVars, ReadsInv
<1>6. conn' = [conn EXCEPT ![i] = c]
  BY <1>1, <1>2, <1>3
<1> QED BY <1>4, <1>5, <1>6, OpensReads

LEMMA SketchReads == ASSUME SlotInv, StreamInv, ReadsInv, NEW i, Conns = {i}, Sketch PROVE ReadsInv'
<1>1. ASSUME NEW p \in Servers, Connect(p) PROVE ReadsInv'
  BY <1>1, ConnectReads
<1>2. CASE Available \/ WriteFails \/ ConnectReturns \/ \E n \in 1 .. DataLen : Write(n)
  <2>1. UNCHANGED <<conn, slot, in_packet, peer, read, toUs>>
    BY <1>2 DEF Available, WriteFails, ConnectReturns, Write, tcpVars, netVars
  <2> QED BY <2>1, SlotReads
<1> QED BY <1>1, <1>2, ReadByteReads, StopReads, WriteStepReads DEF Sketch

(***************************************************************************)
(* The invariant of what is read                                           *)
(***************************************************************************)
LEMMA NextReads ==
  ASSUME Resets = {}, NEW i, Conns = {i}, SlotInv, StreamInv, ReadsInv, HasRoom, Next PROVE ReadsInv'
<1>1. CASE Peer
  BY <1>1, PeerReads
<1>2. ASSUME NEW p \in Peers, Input(p) PROVE ReadsInv'
  BY <1>2, InputReads
<1>3. ASSUME NEW j \in Conns, Timer(j) PROVE ReadsInv'
  <2>1. j = i /\ Timer(i)
    BY <1>3
  <2>2. Gains(i) /\ UNCHANGED <<toUs, peer, read>>
    BY <2>1, TimerReads DEF Timer, sketchVars
  <2> QED BY <2>2, GainsKeeps
<1>4. CASE Sketch
  BY <1>4, SketchReads
<1> QED BY <1>1, <1>2, <1>3, <1>4 DEF Next, Uip

LEMMA StutterReads == ASSUME SlotInv, ReadsInv, UNCHANGED vars PROVE ReadsInv'
<1>1. UNCHANGED <<conn, slot, in_packet, peer, read, toUs>>
  BY DEF vars, sketchVars, netVars
<1> QED BY <1>1, SlotReads

LEMMA InitReads == ASSUME Init PROVE ReadsInv
<1>1. /\ conn = [i \in Conns |-> ClosedConn(NoSlot, "none")] /\ slot = [i \in Conns |-> [NewSlot EXCEPT !.state = {}]] /\ in_packet = {}
      /\ read = [p \in Peers |-> <<>>] /\ toUs = [p \in Peers |-> {}]
  BY DEF Init, PeerInit
<1>2. Given
  BY <1>1 DEF Given
<1>3. Readings
  <2>1. <<>> = [k \in 1 .. 0 |-> k] /\ 0 \in Nat
    OBVIOUS
  <2> QED BY <1>1, <2>1 DEF Readings
<1>4. ASSUME NEW i \in Conns PROVE UnreadOK(conn[i], slot[i])
  <2>1. slot[i].in = <<>> /\ conn[i].app = NoSlot /\ conn[i].st = "CLOSED"
    BY <1>1, <1>4 DEF NewSlot, ClosedConn
  <2> QED BY <2>1 DEF UnreadOK, Half
<1> QED BY <1>1, <1>2, <1>3, <1>4 DEF ReadsInv

(* ReadsStream, as long as the packet memory has room: what the sketch     *)
(* reads from a host is what the host has sent, in order, without a gap and*)
(* without repetition, also when the connection is stopped because the slot*)
(* is full, restarted by read, and closed by the host with bytes unread.   *)
THEOREM ReadsInOrder == ASSUME NEW i, Conns = {i}, Resets = {} PROVE Spec /\ []HasRoom => []ReadsStream
<1>1. Init => ReadsInv
  BY InitReads
<1>2. SlotInv /\ StreamInv /\ HasRoom /\ ReadsInv /\ [Next]_vars => ReadsInv'
  BY NextReads, StutterReads
<1>3. ReadsInv => ReadsStream
  BY DEF ReadsInv, Readings, ReadsStream
<1> QED BY <1>1, <1>2, <1>3, SlotsInOrder, StreamsAgree, PTL DEF Spec

(***************************************************************************)
(* When no block is lost                                                   *)
(***************************************************************************)
(* Every block is free or in the slot, whose list to send is never longer  *)
(* than its array.                                                         *)
RoomInv == \A i \in Conns : Len(slot[i].out) <= NumPackets /\ free + Units(slot[i]) = Blocks

(* Two lists fit into the memory, so that there is room for a packet more  *)
(* when the one that is read is not full.                                  *)
LEMMA RoomIsEnough ==
  ASSUME SlotInv, RoomInv, NEW i, Conns = {i}, Blocks >= 2 * NumPackets PROVE HasRoom
<1> DEFINE in == Len(slot[i].in)
           out == Len(slot[i].out)
<1>1. SlotOK(slot[i]) /\ free \in Nat /\ NumPackets \in Nat /\ Blocks \in Nat
  BY SlotAssumption, TcpAssumption DEF SlotInv, UipTypes
<1>2. in \in Nat /\ out \in Nat
  BY <1>1 DEF SlotOK, SlotShape
<1>3. free + (in + out) = Blocks /\ out <= NumPackets
  BY Zenon DEF RoomInv, Units
<1> HIDE DEF in, out
<1>4. in < NumPackets => free > 0
  BY <1>1, <1>2, <1>3
<1> QED BY <1>4 DEF HasRoom, in

LEMMA HeldByOne ==
  ASSUME NEW a, \A t \in Conns : SlotOK(a[t]), NEW i, Conns = {i} PROVE Held(a) = Units(a[i])
<1> DEFINE Rest == UNION {{t} \X Handles(a[t]) : t \in Conns \ {i}}
<1>1. Held(a) = Cardinality(Rest) + Units(a[i])
  BY HeldIs
<1>2. Rest = {}
  OBVIOUS
<1>3. Cardinality(Rest) = 0
  BY <1>2, FS_EmptySet
<1> HIDE DEF Rest
<1>4. Units(a[i]) \in Nat
  BY UnitsAre
<1> QED BY <1>1, <1>3, <1>4

(* A step that gives no slot anew while blocks are left in it loses none.  *)
LEMMA RoomKeeps ==
  ASSUME SlotInv, SlotInv', BlocksStep, \A s \in Conns : ~Reused(s), RoomInv, NEW i, Conns = {i}, Len(slot'[i].out) <= NumPackets
  PROVE  RoomInv'
<1>1. free' + Held(slot') = free + Held(slot)
  BY DEF BlocksStep
<1>2. Held(slot) = Units(slot[i])
  BY HeldByOne DEF SlotInv, UipTypes
<1>3. Held(slot') = Units(slot'[i])
  <2> DEFINE b == slot'
  <2>1. \A t \in Conns : SlotOK(b[t])
    BY DEF SlotInv, UipTypes
  <2> HIDE DEF b
  <2>2. Held(b) = Units(b[i])
    BY <2>1, HeldByOne
  <2> QED BY <2>2 DEF b
<1>4. free' + Units(slot'[i]) = Blocks
  BY <1>1, <1>2, <1>3 DEF RoomInv
<1> QED BY <1>4 DEF RoomInv

(***************************************************************************)
(* The list to send                                                        *)
(***************************************************************************)
LEMMA GainsFew == ASSUME SlotInv, RoomInv, NEW i, Conns = {i}, Gains(i) PROVE Len(slot'[i].out) <= NumPackets
<1>1. PICK u : Spares(i, u) /\ Adopts(i, u)
  BY DEF Gains
<1>2. slot' = u.slot /\ NumPackets \in Nat
  BY <1>1, SlotAssumption DEF Adopts
<1>3. slot[i].out \in Seq(Block) /\ Len(slot[i].out) <= NumPackets
  BY DEF SlotInv, UipTypes, SlotOK, SlotShape, RoomInv
<1>4. slot'[i].out = <<>> => Len(slot'[i].out) = 0
  OBVIOUS
<1>5. \A b \in Seq(Block) : b # <<>> => Len(Tail(b)) <= Len(b) /\ Len(Tail(b)) \in Nat /\ Len(b) \in Nat
  OBVIOUS
<1>6. CASE slot'[i].out \in {slot[i].out, <<>>}
  BY <1>2, <1>3, <1>4, <1>6
<1>7. CASE slot[i].out # <<>> /\ slot'[i].out = Tail(slot[i].out)
  BY <1>2, <1>3, <1>5, <1>7
<1> QED BY <1>1, <1>2, <1>6, <1>7 DEF Spares

LEMMA InputFew ==
  ASSUME SlotInv, StreamInv, ReadsInv, RoomInv, HasRoom, NEW i, Conns = {i}, NEW p \in Peers, Input(p)
  PROVE  Len(slot'[i].out) <= NumPackets
<1>1. PICK m \in Waiting(p) :
        /\ Arriving(p, m)
        /\ NoConnection(p, m) \/ Listens(p, m) \/ NoneLeft(p, m) \/ \E j \in Conns : Matched(j, p, m)
  BY DEF Input
<1>2. m \in SegRec /\ Answered(m, Host(p))
  BY <1>1, ArrivingIs
<1>3. GivenOK(p, m)
  BY <1>1 DEF ReadsInv, Given, Arriving
<1>4. CASE NoConnection(p, m) \/ NoneLeft(p, m) \/ Listens(p, m)
  BY <1>4 DEF NoConnection, NoneLeft, Listens, RoomInv
<1>5. ASSUME NEW j \in Conns, Matched(j, p, m) PROVE Len(slot'[i].out) <= NumPackets
  <2>1. j = i
    OBVIOUS
  <2>2. Gains(i)
    BY <1>2, <1>3, <1>5, <2>1, MatchedReads
  <2> QED BY <2>2, GainsFew
<1> QED BY <1>1, <1>4, <1>5

LEMMA ReadByteFew == ASSUME SlotInv, RoomInv, NEW i, Conns = {i}, ReadByte PROVE Len(slot'[i].out) <= NumPackets
<1>1. client = i /\ i \in Conns
  BY DEF ReadByte, SlotInv, SketchTypes
<1>2. SlotOK(slot[i]) /\ slot'[i] = Read(slot[i], conn[i].stopped)
  BY <1>1 DEF ReadByte, SlotInv, UipTypes
<1>3. slot'[i].out = slot[i].out
  BY <1>2 DEF Read, SlotOK, SlotShape
<1> QED BY <1>3 DEF RoomInv

LEMMA StopFew == ASSUME SlotInv, RoomInv, NEW i, Conns = {i}, Stop PROVE Len(slot'[i].out) <= NumPackets
<1>1. client = i /\ i \in Conns
  BY DEF Stop, SlotInv, SketchTypes
<1>2. SlotOK(slot[i]) /\ slot'[i] = IF InUse(slot[i]) THEN Stopped(slot[i]) ELSE slot[i]
  BY <1>1 DEF Stop, SlotInv, UipTypes
<1>3. slot'[i].out = slot[i].out
  BY <1>2 DEF Stopped, SlotOK, SlotShape
<1> QED BY <1>3 DEF RoomInv

LEMMA WriteStepFew == ASSUME SlotInv, RoomInv, NEW i, Conns = {i}, WriteStep PROVE Len(slot'[i].out) <= NumPackets
<1>1. client = i /\ i \in Conns
  BY WriteCallIs DEF WriteStep
<1>2. PICK bytes, room : slot' = [slot EXCEPT ![client].out = Wrote(slot[client], bytes, free).out, ![client].room = room]
  BY DEF WriteStep
<1> DEFINE o == slot[i]
           out == Wrote(o, bytes, free).out
           old == IF Len(bytes) < o.room THEN Len(bytes) ELSE o.room
           rest == SubSeq(bytes, old + 1, Len(bytes))
           filled == [k \in DOMAIN o.out |-> IF k = Len(o.out) THEN o.out[k] \o SubSeq(bytes, 1, old) ELSE o.out[k]]
<1>3. SlotOK(o) /\ DOMAIN slot = Conns
  BY DEF SlotInv, UipTypes
<1>4. slot'[i].out = out
  BY <1>1, <1>2, <1>3 DEF SlotOK, SlotShape
<1>5. Len(o.out) \in Nat /\ DOMAIN o.out = 1 .. Len(o.out) /\ Len(o.out) <= NumPackets /\ NumPackets \in Nat
  BY <1>3, SlotAssumption DEF SlotOK, SlotShape, RoomInv
<1>6. \/ out = Append(filled, rest) /\ Len(o.out) < NumPackets
      \/ out = filled
  BY DEF Wrote
<1> HIDE DEF o, out, rest, old
<1>7. Len(filled) = Len(o.out)
  BY <1>5
<1>8. Len(Append(filled, rest)) = Len(filled) + 1
  <2>1. \A f, e : \A n \in Nat : DOMAIN f = 1 .. n => Len(f) = n
    OBVIOUS
  <2>2. Append(filled, rest) = [k \in 1 .. Len(filled) + 1 |-> IF k \in 1 .. Len(filled) THEN filled[k] ELSE rest]
    OBVIOUS
  <2> QED BY <1>5, <1>7, <2>1, <2>2
<1> HIDE DEF filled
<1>9. Len(out) <= NumPackets
  BY <1>5, <1>6, <1>7, <1>8
<1> QED BY <1>4, <1>9

LEMMA SketchFew == ASSUME SlotInv, RoomInv, NEW i, Conns = {i}, Sketch PROVE Len(slot'[i].out) <= NumPackets
<1>1. CASE Available \/ WriteFails \/ ConnectReturns \/ (\E n \in 1 .. DataLen : Write(n)) \/ \E p \in Servers : Connect(p)
  <2>1. UNCHANGED slot
    BY <1>1 DEF Available, WriteFails, ConnectReturns, Write, Connect, tcpVars
  <2> QED BY <2>1 DEF RoomInv
<1> QED BY <1>1, ReadByteFew, StopFew, WriteStepFew DEF Sketch

(***************************************************************************)
(* The packet memory is enough                                             *)
(***************************************************************************)
LEMMA NextRoom ==
  ASSUME NEW i, Conns = {i}, SlotInv, SlotInv', StreamInv, ReadsInv, RoomInv, HasRoom, Next, \A s \in Conns : ~Reused(s)
  PROVE  RoomInv'
<1>1. BlocksStep
  BY NextKeeps
<1>2. Len(slot'[i].out) <= NumPackets
  <2>1. CASE Peer
    BY <2>1 DEF Peer, sketchVars, RoomInv
  <2>2. ASSUME NEW p \in Peers, Input(p) PROVE Len(slot'[i].out) <= NumPackets
    BY <2>2, InputFew
  <2>3. ASSUME NEW j \in Conns, Timer(j) PROVE Len(slot'[i].out) <= NumPackets
    <3>1. Gains(i)
      BY <2>3, TimerReads
    <3> QED BY <3>1, GainsFew
  <2>4. CASE Sketch
    BY <2>4, SketchFew
  <2> QED BY <2>1, <2>2, <2>3, <2>4 DEF Next, Uip
<1> QED BY <1>1, <1>2, RoomKeeps

LEMMA StutterRoom == ASSUME RoomInv, UNCHANGED vars PROVE RoomInv'
  BY DEF vars, sketchVars, RoomInv, Units

LEMMA InitRoom == ASSUME Init PROVE RoomInv
<1>1. slot = [i \in Conns |-> [NewSlot EXCEPT !.state = {}]] /\ free = Blocks
  BY DEF Init
<1>2. ASSUME NEW i \in Conns PROVE Len(slot[i].out) <= NumPackets /\ free + Units(slot[i]) = Blocks
  <2>1. slot[i].out = <<>> /\ slot[i].in = <<>> /\ Len(<<>>) = 0
    BY <1>1 DEF NewSlot
  <2>2. NumPackets \in Nat /\ Blocks \in Nat
    BY SlotAssumption, TcpAssumption
  <2>3. Units(slot[i]) = 0
    BY <2>1 DEF Units
  <2> QED BY <1>1, <2>1, <2>2, <2>3
<1> QED BY <1>2 DEF RoomInv

(* ReadsStream, from the constants: a packet memory with a block for each  *)
(* packet of a connection's two lists, as mempool_conf.h:14 has them, is   *)
(* enough as long as no slot is given to a new connection with blocks left *)
(* in it.                                                                  *)
THEOREM EnoughMemoryReadsInOrder ==
  ASSUME NEW i, Conns = {i}, Resets = {}, Blocks >= 2 * NumPackets
  PROVE  Spec /\ [][\A s \in Conns : ~Reused(s)]_vars => []ReadsStream
<1>1. Init => ReadsInv /\ RoomInv
  BY InitReads, InitRoom
<1>2. SlotInv /\ SlotInv' /\ StreamInv /\ ReadsInv /\ RoomInv /\ [Next]_vars /\ [\A s \in Conns : ~Reused(s)]_vars => ReadsInv' /\ RoomInv'
  BY RoomIsEnough, NextReads, StutterReads, NextRoom, StutterRoom
<1>3. ReadsInv => ReadsStream
  BY DEF ReadsInv, Readings, ReadsStream
<1> QED BY <1>1, <1>2, <1>3, SlotsInOrder, StreamsAgree, PTL DEF Spec
================================================================================
