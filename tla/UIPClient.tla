------------------------------- MODULE UIPClient -------------------------------
(***************************************************************************)
(* The slots of UIPClient: what uipclient_appcall does to them when uIP    *)
(* calls it for a connection.  The effect of a call is built up in a       *)
(* record w:                                                               *)
(*   c      the connection (a record, see UipTcp)                          *)
(*   slot   all_data, the slots                                            *)
(*   free   the blocks left in the packet memory                           *)
(*   flags  uip_flags                                                      *)
(*   send   the bytes the application wants to have sent                   *)
(*   kept   the packet that stays in in_packet for the next tick, if any   *)
(* A block of the packet memory is one unit here: allocBlock fails when no *)
(* block is left (MemoryPool shows that it fails only then).               *)
(***************************************************************************)
EXTENDS Integers, Sequences, FiniteSets, FiniteSetsExt

CONSTANTS
  Conns,        \* the indices of uip_conns and of all_data
  NumPackets,   \* UIP_SOCKET_NUMPACKETS
  DataLen       \* UIP_SOCKET_DATALEN

ASSUME SlotAssumption ==
  Conns \subseteq Nat /\ Conns # {} /\ IsFiniteSet(Conns) /\ NumPackets \in Nat \ {0, 1} /\ DataLen \in Nat \ {0}

(* F(w), with w evaluated once.                                            *)
Then(w, F(_)) == CHOOSE r \in {F(v) : v \in {w}} : TRUE

NoSlot == -1   \* a NULL pointer to a slot

(* state holds the flags of a slot, none for a free one; in and out are the*)
(* handles in packets_in and packets_out, each as the bytes of its block.  *)
(* Only the last block of out can have room: it is room bytes (the code's  *)
(* blockSize - out_pos).                                                   *)
NewSlot == [state |-> {"CONNECTED"}, in |-> <<>>, out |-> <<>>, room |-> 0, lport |-> "none"]

InUse(s) == s.state # {}
Refuses(s) == s.state \intersect {"CLOSE", "REMOTECLOSED"} # {}

(* _allocateData: the first free slot.  Whatever its handles were is gone. *)
FreeSlots(w) == {i \in Conns : ~InUse(w.slot[i])}
Attached(w) ==
  IF w.c.app = NoSlot /\ "CONNECTED" \in w.flags /\ FreeSlots(w) # {}
    THEN [w EXCEPT !.c.app = Min(FreeSlots(w)), !.slot[Min(FreeSlots(w))] = NewSlot]
    ELSE w

Own(w) == w.slot[w.c.app]

(* New data goes into a block of its own; the last block that fits stops   *)
(* the connection, data without a block also keeps in_packet.              *)
Stored(w, packet) ==
  LET data == packet.seg.data
      room == Len(Own(w).in) < NumPackets /\ w.free > 0
      last == Len(Own(w).in) + 1 = NumPackets
  IN  IF data = <<>> \/ Refuses(Own(w)) THEN w
      ELSE IF room THEN [w EXCEPT !.slot[w.c.app].in = Append(@, data), !.free = @ - 1,
                                  !.c.stopped = @ \/ last]
      ELSE [w EXCEPT !.c.stopped = TRUE, !.kept = {packet}]

(* uip_restart, asked for by read.                                         *)
Restarted(w) ==
  IF "RESTART" \in Own(w).state
    THEN [w EXCEPT !.slot[w.c.app].state = @ \ {"RESTART"}, !.flags = @ \union {"NEWDATA"}, !.c.stopped = FALSE]
    ELSE w

Bug_FlushesFirstOnly(w) ==
  [w EXCEPT !.slot[w.c.app] =
              [Own(w) EXCEPT !.out = <<>>, !.room = 0,
                             !.state = IF Own(w).in # <<>> THEN @ \union {"REMOTECLOSED"} ELSE {},
                             !.lport = IF Own(w).in # <<>> THEN w.c.lport ELSE @],
            !.free = @ + (IF Own(w).out = <<>> THEN 0 ELSE 1),
            !.c.app = NoSlot]

(* The connection is gone: what was not sent is dropped, and the slot kept *)
(* only for data that has not been read.                                   *)
Closed(w) ==
  [w EXCEPT !.slot[w.c.app] =
              [Own(w) EXCEPT !.out = <<>>, !.room = 0,
                             !.state = IF Own(w).in # <<>> THEN @ \union {"REMOTECLOSED"} ELSE {},
                             !.lport = IF Own(w).in # <<>> THEN w.c.lport ELSE @],
            !.free = @ + Len(Own(w).out),
            !.c.app = NoSlot]

Bug_EatsLast(w) ==
  IF "ACKDATA" \in w.flags /\ Own(w).out # <<>>
    THEN [w EXCEPT !.slot[w.c.app].out = SubSeq(@, 1, Len(@) - 1), !.free = @ + 1, !.slot[w.c.app].room = 0]
    ELSE w

(* _eatBlock(packets_out).                                                 *)
Acked(w) ==
  IF "ACKDATA" \in w.flags /\ Own(w).out # <<>>
    THEN [w EXCEPT !.slot[w.c.app].out = Tail(@), !.free = @ + 1,
                   !.slot[w.c.app].room = IF Len(Own(w).out) = 1 THEN 0 ELSE @]
    ELSE w

(* The first block is to be sent; if it is the only one it ends where it   *)
(* has been written up to.                                                 *)
Offered(w) ==
  [w EXCEPT !.send = Head(Own(w).out),
            !.slot[w.c.app].room = IF Len(Own(w).out) = 1 /\ Head(Own(w).out) # <<>> THEN 0 ELSE @]

Bug_ClosesAtOnce(w) ==
  IF "CLOSE" \notin Own(w).state THEN w
  ELSE [w EXCEPT !.slot[w.c.app].state = {}, !.c.app = NoSlot, !.flags = {"CLOSE"}]

(* stop() was called: the connection is closed when all blocks are out.    *)
ClosedWhenSent(w) ==
  IF "CLOSE" \notin Own(w).state THEN w
  ELSE IF Own(w).out = <<>> THEN [w EXCEPT !.slot[w.c.app].state = {}, !.c.app = NoSlot, !.flags = {"CLOSE"}]
  ELSE [w EXCEPT !.c.stopped = TRUE]

(* What uip_poll and uip_rexmit ask for, or the close.                     *)
SendOrClose(w) ==
  IF w.flags \intersect {"POLL", "REXMIT"} # {} /\ Own(w).out # <<>> THEN Offered(w) ELSE ClosedWhenSent(w)

Event(w) ==
  IF w.flags \intersect {"CLOSE", "TIMEDOUT"} # {} THEN Closed(w) ELSE Then(Acked(w), SendOrClose)

(* uipclient_appcall: for the packet that has brought new data, if any.    *)
AppCall(call, new) ==
  LET NewData(w) == IF new = {} THEN w ELSE Stored(w, CHOOSE packet \in new : TRUE)
      Slot(w) == IF w.c.app = NoSlot THEN w ELSE Then(Then(NewData(w), Restarted), Event)
  IN  Then(Attached(call), Slot)
-------------------------------------------------------------------------------
(***************************************************************************)
(* What the sketch calls: write, read and stop on a slot.                  *)
(***************************************************************************)
(* One pass of _write's loop over bytes: the last block is filled up, then *)
(* a new one if there may be one (a write here needs one at most).         *)
Wrote(s, bytes, free) ==
  LET old == IF Len(bytes) < s.room THEN Len(bytes) ELSE s.room
      rest == SubSeq(bytes, old + 1, Len(bytes))
      new == rest # <<>> /\ Len(s.out) < NumPackets /\ free > 0
      filled == [i \in DOMAIN s.out |-> IF i = Len(s.out) THEN s.out[i] \o SubSeq(bytes, 1, old) ELSE s.out[i]]
  IN  [out    |-> IF new THEN Append(filled, rest) ELSE filled,
       room   |-> IF new THEN DataLen - Len(rest) ELSE s.room - old,
       blocks |-> IF new THEN 1 ELSE 0,
       left   |-> IF new THEN 0 ELSE Len(rest)]

(* read() of one byte from the first block, which is freed with its last   *)
(* byte; stopped tells whether the connection the slot's number names is.  *)
Read(s, stopped) ==
  IF Len(Head(s.in)) > 1 THEN [s EXCEPT !.in[1] = Tail(@)]
  ELSE [s EXCEPT !.in = Tail(@),
                 !.state = IF Len(s.in) = 1 /\ "REMOTECLOSED" \in @ THEN {}
                           ELSE IF stopped /\ ~Refuses(s) THEN @ \union {"RESTART"}
                           ELSE @]

(* stop(): unread data is dropped.                                         *)
Stopped(s) ==
  [s EXCEPT !.in = <<>>,
            !.state = IF "REMOTECLOSED" \in @ THEN {} ELSE @ \union {"CLOSE"}]
===============================================================================
