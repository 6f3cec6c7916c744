------------------------------ MODULE PacketStore ------------------------------
(***************************************************************************)
(* The transmit half of the ENC28J60's memory as Enc28J60Network.cpp uses  *)
(* it: MemoryPool hands out its blocks, and this module adds the bytes.    *)
(* Every byte of the pool and the byte in front of it (TXSTART_INIT, where *)
(* the control byte of a packet at the start of the pool goes) is a cell   *)
(* of mem.  When allocBlock compacts the pool it calls back                *)
(* enc28J60_mempool_block_move_callback, which copies the block.           *)
(***************************************************************************)
EXTENDS MemoryPool

CONSTANT Bytes   \* what a byte can hold

ASSUME BytesAssumption == 0 \in Bytes

VARIABLES
  mem,      \* the memory of the controller
  subject   \* the handle the last step was on, or NoBlock

storeVars == <<vars, mem, subject>>

Cells == StartAddress - 1 .. EndAddress - 1

StoreTypeOK == mem \in [Cells -> Bytes]

(* At power on the memory holds anything.                                  *)
StoreInit == Init /\ mem \in [Cells -> Bytes] /\ subject = NoBlock

(* enc28J60_mempool_block_move_callback: the memory after len bytes at src *)
(* have been copied to dest.  The copy goes upwards; the source lies above *)
(* the destination or apart from it, so no byte is read after it is        *)
(* overwritten.  Pool addresses lie behind the receive ring: the callback's*)
(* correction for the ring does not apply.                                 *)
Moved(dest, src, len) ==
  [a \in Cells |-> IF a \in dest .. dest + len - 1 THEN mem[src + (a - dest)] ELSE mem[a]]

(* Steps of the allocator that are on no block of the caller.              *)
QuietStep ==
  \/ \E n \in Requests : AllocBlock(n)
  \/ \E h \in Handles : FreeBlock(h)
  \/ ScanExact \/ ScanNext \/ CollectMove \/ CollectDone \/ CollectFail
  \/ NoDescriptor \/ FreeNext \/ FreeNotFound

(* All of its steps; the step of the compaction moves the bytes.           *)
PoolStep ==
  /\ \/ QuietStep /\ subject' = NoBlock
     \/ \E h \in Handles : Place(h) /\ subject' = h
     \/ Unlink /\ subject' = arg
     \/ \E h \in owned : NarrowBlock(h) /\ subject' = h
  /\ mem' = IF pc = "collect" /\ nextblock[cur] # NoBlock
              THEN Moved(EndOf(cur), begin[nextblock[cur]], size[nextblock[cur]])
              ELSE mem

(* writePacket writes no more than fits behind position.                   *)
Clipped(h, position, len) == IF len > size[h] - position THEN size[h] - position ELSE len

(* writePacket(h, position, buffer, len): the bytes of the buffer are all  *)
(* alike here, which tells apart whose bytes they are.                     *)
WritePacket(h, position, len, v) ==
  /\ pc = "idle"
  /\ LET start == begin[h] + position
     IN  mem' = [a \in Cells |-> IF a \in start .. start + Clipped(h, position, len) - 1 THEN v ELSE mem[a]]
  /\ subject' = h
  /\ UNCHANGED vars

(* copyPacket(dest, position, src, 0, size[src]): the whole of one block   *)
(* goes behind the header space of another (UIPClient.cpp:442).            *)
CopyPacket(dest, position, src) ==
  /\ pc = "idle"
  /\ mem' = Moved(begin[dest] + position, begin[src], size[src])
  /\ subject' = dest
  /\ UNCHANGED vars

(* copyPacket from the receive ring (UIPClient.cpp:371, UIPUdp.cpp:333)    *)
(* fills the new block with received bytes.                                *)
FillPacket(dest, v) == WritePacket(dest, 0, size[dest], v)

Bug_NotRestored(m, at, data) == m

(* The byte in front of a frame gets its old value back.                   *)
Restored(m, at, data) == IF data # 0 THEN [m EXCEPT ![at] = data] ELSE m

(* sendPacket(h): the byte in front of the block serves as the control     *)
(* byte of the frame; it is saved, cleared for the transmission and        *)
(* restored.  It may be the last byte of another block.                    *)
SendPacket(h) ==
  /\ pc = "idle"
  /\ LET start == begin[h] - 1
         data == mem[start]
     IN  mem' = Restored(IF data # 0 THEN [mem EXCEPT ![start] = 0] ELSE mem, start, data)
  /\ subject' = NoBlock
  /\ UNCHANGED vars

Access ==
  \/ \E h \in owned : \E position \in 0 .. size[h] : \E len \in Requests : \E v \in Bytes :
       WritePacket(h, position, len, v)
  \/ \E dest, src \in owned : \E position \in 0 .. size[dest] :
       dest # src /\ position + size[src] = size[dest] /\ CopyPacket(dest, position, src)
  \/ \E dest \in owned : \E v \in Bytes : FillPacket(dest, v)
  \/ \E h \in owned : SendPacket(h)

StoreNext == PoolStep \/ Access

(* As in MemoryPool: a call in progress keeps being executed.              *)
StoreSpec == StoreInit /\ [][StoreNext]_storeVars /\ WF_storeVars(PoolStep /\ Step)
-------------------------------------------------------------------------------
(* What each handle in use stands for.                                     *)
Content(h) == [i \in 0 .. size[h] - 1 |-> mem[begin[h] + i]]
store == [h \in owned |-> Content(h)]

Abstract == INSTANCE BlockStore WITH store <- store, subject <- subject

(* The memory behaves as one block of bytes per handle: allocating,        *)
(* freeing, compacting, sending and writing leave the bytes of every other *)
(* handle as they are, and a block that is narrowed keeps the right part.  *)
KeepsBlocks == Abstract!Spec
===============================================================================
