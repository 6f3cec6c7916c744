------------------------------ MODULE BlockStore ------------------------------
(***************************************************************************)
(* What the users of the packet memory are promised, without addresses: a  *)
(* handle stands for a block of bytes of its own.  Only an operation on    *)
(* that handle changes the block, however the other blocks are allocated,  *)
(* freed, narrowed, written or moved meanwhile.                            *)
(***************************************************************************)
EXTENDS Integers

CONSTANTS
  Handles,   \* the handles there are
  Bytes,     \* what a byte can hold
  Requests,  \* the sizes of blocks asked for
  NoBlock    \* no handle: it is not one of Handles

VARIABLES
  store,     \* the bytes of the block behind each handle in use
  subject    \* the handle the last operation was on; NoBlock for one that is on none

Init == store = [h \in {} |-> {}] /\ subject = NoBlock

(* A new block holds whatever was in its memory before.                    *)
Alloc == \E h \in Handles \ DOMAIN store : \E n \in Requests : \E bytes \in [0 .. n - 1 -> Bytes] :
  /\ store' = [k \in DOMAIN store \union {h} |-> IF k = h THEN bytes ELSE store[k]]
  /\ subject' = h

Free == \E h \in DOMAIN store :
  /\ store' = [k \in DOMAIN store \ {h} |-> store[k]]
  /\ subject' = h

(* n bytes of a block from position on, and the block as just those.       *)
Part(block, position, n) == [i \in 0 .. n - 1 |-> block[position + i]]

Narrow == \E h \in DOMAIN store : \E position, n \in DOMAIN store[h] :
  /\ position + n \in DOMAIN store[h]
  /\ store' = [store EXCEPT ![h] = Part(@, position, n + 1)]
  /\ subject' = h

(* A block whose bytes from position on are replaced.                      *)
Put(block, position, bytes) ==
  [i \in DOMAIN block |-> IF i - position \in DOMAIN bytes THEN bytes[i - position] ELSE block[i]]

Write == \E h \in DOMAIN store : \E position, n \in DOMAIN store[h] : \E v \in Bytes :
  /\ store' = [store EXCEPT ![h] = Put(@, position, [i \in 0 .. n |-> v])]
  /\ subject' = h

Copy == \E h, k \in DOMAIN store : \E position \in DOMAIN store[h] :
  /\ store' = [store EXCEPT ![h] = Put(@, position, store[k])]
  /\ subject' = h

(* What is on no handle (searching, compacting, sending a frame) changes   *)
(* no block, and a write of no bytes does not either.                      *)
Nothing == subject' \in DOMAIN store \union {NoBlock} /\ UNCHANGED store

Next == Alloc \/ Free \/ Narrow \/ Write \/ Copy \/ Nothing
Spec == Init /\ [][Next]_<<store, subject>>
===============================================================================
