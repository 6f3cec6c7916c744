-------------------------------- MODULE RxRing --------------------------------
(***************************************************************************)
(* The receive half of the ENC28J60's memory, a ring that the controller   *)
(* fills with frames while Enc28J60Network.cpp takes them out, one at a    *)
(* time, for UIPEthernetClass::tick.  The controller's side (the write     *)
(* pointer, the packet counter and the rule by which it finds room) is     *)
(* external to the source.  The library moves ERXRDPT, up to which the     *)
(* controller may write, in setERXRDPT.                                    *)
(***************************************************************************)
EXTENDS Integers, Sequences

CONSTANTS
  RxStop,     \* RXSTOP_INIT, the last address of the ring; RXSTART_INIT is 0
  Lengths,    \* the lengths of frames that arrive
  MaxFrames   \* bound: how many frames arrive

ASSUME RingAssumption ==
  /\ RxStop \in Nat /\ RxStop % 2 = 1
  /\ Lengths \subseteq Nat
  /\ MaxFrames \in Nat

VARIABLES
  arrived,        \* every frame received so far: where it is, its length and status
  ram,            \* for each address the number of the frame that wrote it last
  wrptr,          \* ERXWRPT, where the controller puts the next frame
  pktcnt,         \* EPKTCNT, the frames not taken out yet
  rdptr,          \* ERXRDPT
  nextPacketPtr,  \* where the library expects the next frame
  receivePkt,     \* begin and size of the frame taken out last
  current,        \* the number of that frame
  rxpc              \* how far the library is with it

hwVars == <<arrived, ram, wrptr>>
ringVars == <<hwVars, pktcnt, rdptr, nextPacketPtr, receivePkt, current, rxpc>>

HeaderSize == 6   \* next packet pointer, length and status in front of a frame
CrcSize == 4
RingSize == RxStop + 1
Addresses == 0 .. RxStop

(* What a frame takes up; the controller keeps the next one even.          *)
Footprint(len) == LET n == HeaderSize + len + CrcSize IN n + (n % 2)
CellsOf(i) == {(arrived[i].start + k) % RingSize : k \in 0 .. Footprint(arrived[i].len) - 1}

(* init programs ERXST, ERXRDPT and ERXND, then enables reception.         *)
RingInit ==
  /\ arrived = <<>> /\ ram = [a \in Addresses |-> 0]
  /\ wrptr = 0 /\ pktcnt = 0 /\ rdptr = 0 /\ nextPacketPtr = 0
  /\ receivePkt = [begin |-> 0, size |-> 0] /\ current = 0 /\ rxpc = "idle"

(***************************************************************************)
(* The controller.                                                         *)
(***************************************************************************)
FreeSpace ==
  IF wrptr = rdptr THEN RxStop
  ELSE IF wrptr > rdptr THEN RxStop - (wrptr - rdptr)
  ELSE rdptr - wrptr - 1

(* A frame arrives; without room for all of it, it is lost.                *)
FrameArrives(len, ok) ==
  /\ Len(arrived) < MaxFrames
  /\ Footprint(len) <= FreeSpace
  /\ wrptr' = (wrptr + Footprint(len)) % RingSize
  /\ arrived' = Append(arrived, [start |-> wrptr, next |-> wrptr', len |-> len, ok |-> ok])
  /\ ram' = [a \in Addresses |->
               IF (a - wrptr) % RingSize < Footprint(len) THEN Len(arrived') ELSE ram[a]]
  /\ pktcnt' = pktcnt + 1
  /\ UNCHANGED <<rdptr, nextPacketPtr, receivePkt, current, rxpc>>

(***************************************************************************)
(* Enc28J60Network                                                         *)
(***************************************************************************)

(* setERXRDPT: everything in front of the next packet is free.             *)
SetERXRDPT == rdptr' = IF nextPacketPtr = 0 THEN RxStop ELSE nextPacketPtr - 1

(* An address behind the end of the ring, as receivePacket, setReadPtr and *)
(* copyPacket bring it back into the ring (by one byte less than the ring  *)
(* is long).                                                               *)
WrapAddress(a) == IF a > RxStop THEN a - RxStop ELSE a

Bug_LeavesLastOne ==
  /\ rxpc = "idle" /\ pktcnt > 1
  /\ current' = ram[nextPacketPtr]
  /\ receivePkt' = [begin |-> WrapAddress(nextPacketPtr + HeaderSize), size |-> arrived[current'].len]
  /\ nextPacketPtr' = arrived[current'].next
  /\ rxpc' = "header"
  /\ UNCHANGED <<hwVars, pktcnt, rdptr>>

(* receivePacket reads the header of the frame at nextPacketPtr.  (The     *)
(* source sets receivePkt only for a good frame, where it is used.)        *)
ReadHeader ==
  /\ rxpc = "idle" /\ pktcnt # 0
  /\ current' = ram[nextPacketPtr]
  /\ receivePkt' = [begin |-> WrapAddress(nextPacketPtr + HeaderSize), size |-> arrived[current'].len]
  /\ nextPacketPtr' = arrived[current'].next
  /\ rxpc' = "header"
  /\ UNCHANGED <<hwVars, pktcnt, rdptr>>

Bug_FreesAtOnce ==
  /\ rxpc = "header"
  /\ pktcnt' = pktcnt - 1
  /\ rxpc' = IF arrived[current].ok THEN "held" ELSE "discard"
  /\ SetERXRDPT
  /\ UNCHANGED <<hwVars, nextPacketPtr, receivePkt, current>>

(* It decrements the counter and looks at the status: a good frame is      *)
(* returned to tick, which holds it as in_packet.                          *)
DecrementCount ==
  /\ rxpc = "header"
  /\ pktcnt' = pktcnt - 1
  /\ rxpc' = IF arrived[current].ok THEN "held" ELSE "discard"
  /\ UNCHANGED <<hwVars, rdptr, nextPacketPtr, receivePkt, current>>

Bug_NotFreed ==
  /\ rxpc = "discard"
  /\ rxpc' = "idle"
  /\ UNCHANGED <<hwVars, rdptr, pktcnt, nextPacketPtr, receivePkt, current>>

(* A bad frame is skipped, and its memory freed.                           *)
DiscardFrame ==
  /\ rxpc = "discard"
  /\ SetERXRDPT
  /\ rxpc' = "idle"
  /\ UNCHANGED <<hwVars, pktcnt, nextPacketPtr, receivePkt, current>>

(* copyPacket(_, _, UIP_RECEIVEBUFFERHANDLE, position, len), by which the  *)
(* client and the UDP socket take the data of in_packet into the pool.     *)
CopyReceived(position, len) ==
  /\ rxpc \in {"held", "kept"}
  /\ position + len <= receivePkt.size
  /\ SetERXRDPT
  /\ rxpc' = "copied"
  /\ UNCHANGED <<hwVars, pktcnt, nextPacketPtr, receivePkt, current>>

(* tick is through with in_packet: freePacket.                             *)
FreePacket ==
  /\ rxpc \in {"held", "kept", "copied"}
  /\ SetERXRDPT
  /\ rxpc' = "idle"
  /\ UNCHANGED <<hwVars, pktcnt, nextPacketPtr, receivePkt, current>>

(* uipclient_appcall found no room for the data of in_packet and cleared   *)
(* UIPETHERNET_FREEPACKET: the next tick goes through in_packet again.     *)
KeepPacket ==
  /\ rxpc = "held"
  /\ rxpc' = "kept"
  /\ UNCHANGED <<hwVars, pktcnt, rdptr, nextPacketPtr, receivePkt, current>>

(* copyPacket with a source in the pool: in tick's periodic part a segment *)
(* of a client is copied to be sent (UIPClient.cpp:442).                   *)
CopyFromPool ==
  /\ rxpc \in {"idle", "kept"}
  /\ SetERXRDPT
  /\ UNCHANGED <<hwVars, pktcnt, nextPacketPtr, receivePkt, current, rxpc>>

(* UIPEthernetClass::begin once more: init resets the controller, which    *)
(* loses the frames it had; a frame that tick has kept stays in in_packet. *)
BeginAgain ==
  /\ rxpc \in {"idle", "kept"}
  /\ arrived' = <<>> /\ ram' = [a \in Addresses |-> 0]
  /\ wrptr' = 0 /\ pktcnt' = 0 /\ rdptr' = 0 /\ nextPacketPtr' = 0 /\ current' = 0
  /\ UNCHANGED <<receivePkt, rxpc>>

Copies == \E position, len \in UNION {0 .. n : n \in Lengths} : CopyReceived(position, len)
Library == ReadHeader \/ DecrementCount \/ DiscardFrame \/ Copies \/ FreePacket \/ KeepPacket \/ CopyFromPool \/ BeginAgain
Controller == \E len \in Lengths, ok \in BOOLEAN : FrameArrives(len, ok)
RingNext == Library \/ Controller

(* tick is called again and again: it takes frames out, and is through     *)
(* with one before the call ends, unless it keeps it.                      *)
Fairness == WF_ringVars(ReadHeader) /\ WF_ringVars(DecrementCount) /\ WF_ringVars(DiscardFrame)
RingSpec == RingInit /\ [][RingNext]_ringVars /\ Fairness
-------------------------------------------------------------------------------
(***************************************************************************)
(* Properties                                                              *)
(***************************************************************************)

(* The frames the controller counts, and the one receivePacket has just    *)
(* returned to tick, are whole: no later frame was written over them.      *)
UnreadKept ==
  \A i \in 1 .. Len(arrived) :
    i > current \/ (i = current /\ rxpc \in {"header", "held"}) => \A a \in CellsOf(i) : ram[a] = i

(* receivePacket takes every frame once and in the order of arrival, so    *)
(* nextPacketPtr and the packet counter never lose step.                   *)
InOrder ==
  /\ pktcnt = Len(arrived) - current + (IF rxpc = "header" THEN 1 ELSE 0)
  /\ current < Len(arrived) => nextPacketPtr = arrived[current + 1].start
  /\ current = Len(arrived) => nextPacketPtr = wrptr

(* Between two frames all the ring is given back but what is unread: no    *)
(* path through receivePacket and tick leaks memory of the ring.           *)
NothingLeaks ==
  rxpc = "idle" /\ current > 0 => (rdptr + 1) % RingSize = nextPacketPtr

(* At any moment, whatever was dropped, kept, copied or begun anew.        *)
RingSound == InOrder /\ NothingLeaks

(* Every frame is taken out in the end, if tick never keeps a frame for    *)
(* good (it does so until the application reads), unless begin loses it.   *)
EveryFrameTaken ==
  ([]<>(rxpc \notin {"held", "kept", "copied"})) => \A i \in 1 .. MaxFrames : Len(arrived) >= i ~> (current >= i \/ Len(arrived) < i)
===============================================================================
