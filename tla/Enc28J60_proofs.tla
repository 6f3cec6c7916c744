-------------------------- MODULE Enc28J60_proofs -----------------------------
(***************************************************************************)
(* Proofs about the memory of the ENC28J60, in three parts: the allocator  *)
(* and the bytes of its transmit half, for every number of descriptors,    *)
(* pool, set of request sizes and of bytes, and the ring of its receive    *)
(* half, for every size of it, set of lengths and number of frames.        *)
(*                                                                         *)
(* The allocator (MemoryPool) keeps its types and the blocks of its callers*)
(* apart.  NoOverlap alone is not inductive: that the gap behind a node    *)
(* holds no block follows from the shape of the list.  The invariant says, *)
(* of every node h and every other block k, that k lies wholly before h or *)
(* at or behind the successor of h.  That statement needs no induction     *)
(* along the list, and it is kept by linking, unlinking, narrowing, moving.*)
(*                                                                         *)
(* The memory (PacketStore) implements BlockStore.  That rests on the      *)
(* allocator's invariant: the blocks of two handles are apart, and a block *)
(* that the compaction moves goes into a gap.                              *)
(***************************************************************************)
EXTENDS PacketStore, RxRing, TLAPS

(***************************************************************************)
(* The allocator                                                           *)
(***************************************************************************)
(* POOLSTART is an empty block in front of the pool; a descriptor is in    *)
(* use exactly when a caller holds it.                                     *)
StartInv == begin[PoolStart] = StartAddress /\ size[PoolStart] = 0
InUseInv == \A h \in Handles : h \in owned <=> size[h] > 0

(* The list stays within the blocks that are held, and goes upwards.       *)
LinkInv ==
  \A h \in Nodes :
    /\ nextblock[h] \in owned \union {NoBlock}
    /\ nextblock[h] # NoBlock => EndOf(h) <= begin[nextblock[h]]

(* No block begins between a node and the node's successor.                *)
Between(h, k) == EndOf(k) <= begin[h] \/ (nextblock[h] # NoBlock /\ begin[nextblock[h]] <= begin[k])
GapInv == \A h \in Nodes : \A k \in owned : k # h => Between(h, k)

RangeInv == \A h \in owned : StartAddress <= begin[h] /\ EndOf(h) <= EndAddress

(* What the locals of the running call stand for.                          *)
CallInv ==
  /\ pc \in {"scan", "collect", "found"} => arg > 0
  /\ pc = "free" => arg \in Handles
  /\ pc \in {"scan", "collect", "free"} => cur \in Nodes
  /\ pc \in {"scan", "found"} /\ best # NoBest => best \in Nodes /\ FreeAfter(best) >= arg
  /\ pc = "found" => best # NoBest

ListInv == StartInv /\ InUseInv /\ LinkInv /\ GapInv /\ RangeInv
IInv == TypeOK /\ ListInv /\ CallInv

LEMMA Numbers ==
  /\ PoolSize \in Nat /\ StartAddress \in Nat /\ NoFit \in Nat /\ EndAddress \in Nat
  /\ EndAddress = StartAddress + PoolSize
  /\ \A n \in Requests : n \in Nat /\ n > 0
BY PoolAssumption DEF NoFit, EndAddress

(* What the proofs need to know of handles and of their special values.    *)
LEMMA HandleFacts ==
  /\ NoBlock = PoolStart
  /\ PoolStart \in Descriptors /\ PoolStart \notin Handles
  /\ \A h : h \in Descriptors <=> h \in Handles \/ h = PoolStart
  /\ NoBest \notin Descriptors
BY PoolAssumption DEF NoBlock, PoolStart, Descriptors, Handles, NoBest

LEMMA NodeFacts ==
  ASSUME TypeOK
  PROVE  /\ Nodes \subseteq Descriptors /\ owned \subseteq Nodes /\ PoolStart \in Nodes
         /\ PoolStart \notin owned /\ \A h \in Nodes : h \in owned \/ h = PoolStart
         /\ \A h \in Descriptors : EndOf(h) = begin[h] + size[h] /\ EndOf(h) \in Nat
BY HandleFacts DEF TypeOK, Nodes, EndOf

LEMMA InitIInv == Init => IInv
<1> SUFFICES ASSUME Init PROVE IInv
  OBVIOUS
<1> USE Numbers, HandleFacts DEF Init
<1>1. TypeOK
  BY DEF TypeOK
<1>2. Nodes = {PoolStart}
  BY DEF Nodes
<1>3. ListInv
  BY <1>2 DEF ListInv, StartInv, InUseInv, LinkInv, GapInv, RangeInv
<1>4. CallInv
  BY DEF CallInv
<1>5. QED BY <1>1, <1>3, <1>4 DEF IInv

LEMMA FreeAfterNat == ASSUME TypeOK, ListInv, NEW h \in Nodes PROVE FreeAfter(h) \in Nat
<1> USE Numbers, HandleFacts, NodeFacts DEF TypeOK
<1>1. CASE nextblock[h] = NoBlock
  <2>1. EndOf(h) <= EndAddress /\ begin[PoolStart] = StartAddress
    BY DEF ListInv, StartInv, RangeInv
  <2>2. QED BY <1>1, <2>1 DEF FreeAfter
<1>2. CASE nextblock[h] # NoBlock
  BY <1>2 DEF FreeAfter, ListInv, LinkInv
<1>3. QED BY <1>1, <1>2

(***************************************************************************)
(* Type correctness of each kind of step.                                  *)
(***************************************************************************)
LEMMA CallType == ASSUME TypeOK, Call PROVE TypeOK'
<1> USE Numbers, HandleFacts DEF TypeOK
<1>1. ASSUME NEW n \in Requests, AllocBlock(n) PROVE TypeOK'
  BY <1>1 DEF AllocBlock, blockVars
<1>2. ASSUME NEW h \in Handles, FreeBlock(h) PROVE TypeOK'
  <2>1. Handles \subseteq Nat
    BY DEF Handles
  <2>2. QED BY <1>2, <2>1 DEF FreeBlock, blockVars
<1>3. ASSUME NEW h \in owned, NEW p \in 0 .. size[h] - 1, NEW n \in 1 .. size[h] - p,
             ResizeBlock(h, p, n)
      PROVE TypeOK'
  BY <1>3 DEF ResizeBlock, callVars
<1>4. QED BY <1>1, <1>2, <1>3 DEF Call, Narrow, NarrowBlock

LEMMA StepType == ASSUME TypeOK, ListInv, CallInv, Step PROVE TypeOK'
<1> USE Numbers, HandleFacts, NodeFacts DEF TypeOK
<1>1. CASE ScanExact
  BY <1>1 DEF ScanExact, blockVars
<1>2. CASE ScanNext
  <2>1. bestsize' \in Nat
    BY <1>2, FreeAfterNat DEF ScanNext, CallInv
  <2>2. QED BY <1>2, <2>1 DEF ScanNext, blockVars
<1>3. CASE CollectMove
  BY <1>3 DEF CollectMove
<1>4. CASE CollectDone
  BY <1>4 DEF CollectDone, blockVars
<1>5. CASE CollectFail
  BY <1>5 DEF CollectFail, Return, blockVars
<1>6. ASSUME NEW h \in Handles, Place(h) PROVE TypeOK'
  <2>1. best \in Descriptors
    BY <1>6 DEF Place, CallInv
  <2>2. QED BY <1>6, <2>1 DEF Place, Return
<1>7. CASE NoDescriptor
  BY <1>7 DEF NoDescriptor, Return, blockVars
<1>8. CASE FreeNext
  BY <1>8 DEF FreeNext, blockVars
<1>9. CASE Unlink
  BY <1>9 DEF Unlink, Return, CallInv
<1>10. CASE FreeNotFound
  BY <1>10 DEF FreeNotFound, Return, blockVars
<1>11. QED BY <1>1, <1>2, <1>3, <1>4, <1>5, <1>6, <1>7, <1>8, <1>9, <1>10 DEF Step

(***************************************************************************)
(* The shape of the list under each kind of step.                          *)
(***************************************************************************)
LEMMA ListUnchanged == ASSUME ListInv, UNCHANGED <<blockVars, owned>> PROVE ListInv'
BY DEF blockVars, ListInv, StartInv, InUseInv, LinkInv, GapInv, RangeInv, Between, Nodes, EndOf

(* resizeBlock: the borders of h move inwards, everything else stays.      *)
LEMMA NarrowList ==
  ASSUME TypeOK, ListInv,
         NEW h \in owned, NEW p \in 0 .. size[h] - 1, NEW n \in 1 .. size[h] - p,
         ResizeBlock(h, p, n)
  PROVE  ListInv'
<1> USE Numbers, HandleFacts, NodeFacts DEF TypeOK, ListInv
<1>1. /\ begin' = [begin EXCEPT ![h] = @ + p] /\ size' = [size EXCEPT ![h] = n]
      /\ nextblock' = nextblock /\ owned' = owned /\ Nodes' = Nodes
  BY DEF ResizeBlock, Nodes
<1>2. /\ begin[h] <= begin'[h] /\ EndOf(h)' <= EndOf(h) /\ n > 0
      /\ \A k \in Descriptors : k # h => begin'[k] = begin[k] /\ size'[k] = size[k]
      /\ \A k \in Descriptors : begin[k] <= begin'[k] /\ EndOf(k)' <= EndOf(k)
  BY <1>1 DEF EndOf
<1>3. StartInv'
  BY <1>1, <1>2 DEF StartInv
<1>4. InUseInv'
  BY <1>1, <1>2 DEF InUseInv
<1>5. LinkInv'
  <2>1. ASSUME NEW k \in Nodes, nextblock[k] # NoBlock PROVE EndOf(k)' <= begin'[nextblock[k]]
    <3>1. EndOf(k) <= begin[nextblock[k]] /\ nextblock[k] \in Descriptors
      BY <2>1 DEF LinkInv
    <3>2. EndOf(k)' \in Nat /\ begin'[nextblock[k]] \in Nat
      BY <3>1, <1>1 DEF EndOf
    <3>3. QED BY <3>1, <3>2, <1>2
  <2>2. QED BY <1>1, <2>1 DEF LinkInv
<1>6. GapInv'
  <2>1. ASSUME NEW k \in Nodes, NEW m \in owned, m # k PROVE Between(k, m)'
    <3>1. Between(k, m) /\ nextblock[k] \in Descriptors /\ m \in Descriptors /\ k \in Descriptors
      BY <2>1 DEF GapInv
    <3>2. /\ EndOf(m)' \in Nat /\ begin'[k] \in Nat /\ begin'[m] \in Nat
          /\ begin'[nextblock[k]] \in Nat
      BY <3>1, <1>1 DEF EndOf
    <3>3. CASE EndOf(m) <= begin[k]
      BY <3>1, <3>2, <3>3, <1>1, <1>2 DEF Between
    <3>4. CASE nextblock[k] # NoBlock /\ begin[nextblock[k]] <= begin[m]
      <4>1. CASE nextblock[k] = m
        BY <3>4, <4>1, <3>2, <1>1 DEF Between
      <4>2. CASE nextblock[k] # m /\ nextblock[k] # h
        BY <3>4, <4>2, <3>1, <3>2, <1>1, <1>2 DEF Between
      <4>3. CASE nextblock[k] = h /\ m # h
        <5>1. h \in Nodes /\ Between(h, m) /\ Between(m, h) /\ size[m] > 0 /\ size[h] > 0
          BY <4>3, <2>1 DEF GapInv, InUseInv
        <5>2. EndOf(h) <= begin[m]
          <6>1. /\ nextblock[h] # NoBlock => EndOf(h) <= begin[nextblock[h]]
                /\ nextblock[h] \in Descriptors
            BY DEF LinkInv
          <6>2. ~(EndOf(m) <= begin[h])
            BY <3>4, <4>3, <5>1
          <6>3. QED BY <5>1, <6>1, <6>2 DEF Between
        <5>3. QED BY <3>1, <3>2, <3>4, <4>3, <5>1, <5>2, <1>1, <1>2 DEF Between, EndOf
      <4>4. QED BY <4>1, <4>2, <4>3
    <3>5. QED BY <3>1, <3>3, <3>4 DEF Between
  <2>2. QED BY <1>1, <2>1 DEF GapInv
<1>7. RangeInv'
  BY <1>1, <1>2 DEF RangeInv, EndOf
<1>8. QED BY <1>3, <1>4, <1>5, <1>6, <1>7

(* The end of allocBlock: g is linked between best and its successor, into *)
(* the gap between them.                                                   *)
LEMMA PlaceList ==
  ASSUME TypeOK, ListInv, CallInv, NEW g \in Handles, Place(g), NEW b, b = best
  PROVE  ListInv'
<1> USE Numbers, HandleFacts, NodeFacts DEF TypeOK, ListInv
<1>1. /\ b \in Nodes /\ b \in Descriptors /\ FreeAfter(b) >= arg /\ arg > 0
      /\ g \in Descriptors /\ size[g] = 0 /\ g \notin owned /\ g # b /\ g # PoolStart
  BY b = best DEF Place, FirstFree, CallInv, InUseInv
<1>2. /\ begin' = [begin EXCEPT ![g] = EndOf(b)] /\ size' = [size EXCEPT ![g] = arg]
      /\ nextblock' = [nextblock EXCEPT ![g] = nextblock[b], ![b] = g]
      /\ owned' = owned \union {g} /\ Nodes' = Nodes \union {g}
  BY b = best DEF Place, Nodes
<1>3. /\ begin'[g] = EndOf(b) /\ EndOf(g)' = EndOf(b) + arg
      /\ nextblock'[g] = nextblock[b] /\ nextblock'[b] = g
      /\ \A k \in Nodes : begin'[k] = begin[k] /\ size'[k] = size[k] /\ EndOf(k)' = EndOf(k)
      /\ \A k \in Nodes : k # b => nextblock'[k] = nextblock[k]
  BY <1>1, <1>2 DEF EndOf
<1>4. /\ nextblock[b] # NoBlock => nextblock[b] \in owned /\ EndOf(g)' <= begin[nextblock[b]]
      /\ EndOf(g)' <= EndAddress
      /\ StartAddress <= begin'[g]
  <2>1. nextblock[b] # NoBlock => nextblock[b] \in owned /\ begin[nextblock[b]] \in Nat
    BY <1>1 DEF LinkInv
  <2>2. FreeAfter(b) + EndOf(b) =
          IF nextblock[b] = NoBlock THEN EndAddress ELSE begin[nextblock[b]]
    BY <1>1, <2>1 DEF FreeAfter, StartInv
  <2>3. StartAddress <= EndOf(b)
    BY <1>1 DEF StartInv, RangeInv
  <2>4. nextblock[b] # NoBlock => begin[nextblock[b]] <= EndAddress
    BY <2>1 DEF RangeInv
  <2>5. FreeAfter(b) \in Nat
    BY <1>1, FreeAfterNat
  <2>6. QED BY <1>1, <1>3, <2>1, <2>2, <2>3, <2>4, <2>5
<1>5. StartInv' /\ InUseInv'
  BY <1>1, <1>2, <1>3 DEF StartInv, InUseInv
<1>6. LinkInv'
  <2>1. ASSUME NEW k \in Nodes, k # b
        PROVE  /\ nextblock'[k] \in owned' \union {NoBlock}
               /\ nextblock'[k] # NoBlock => EndOf(k)' <= begin'[nextblock'[k]]
    BY <2>1, <1>2, <1>3 DEF LinkInv
  <2>2. EndOf(b)' <= begin'[nextblock'[b]] /\ nextblock'[b] \in owned'
    BY <1>1, <1>2, <1>3
  <2>3. /\ nextblock'[g] \in owned' \union {NoBlock}
        /\ nextblock'[g] # NoBlock => EndOf(g)' <= begin'[nextblock'[g]]
    BY <1>1, <1>2, <1>3, <1>4
  <2>4. QED BY <1>2, <2>1, <2>2, <2>3 DEF LinkInv
<1>7. GapInv'
  <2>1. ASSUME NEW m \in owned, m # b PROVE Between(b, m)'
    <3>1. Between(b, m)
      BY <1>1, <2>1 DEF GapInv
    <3>2. CASE EndOf(m) <= begin[b]
      BY <3>2, <1>1, <1>3 DEF Between
    <3>3. CASE nextblock[b] # NoBlock /\ begin[nextblock[b]] <= begin[m]
      <4>1. EndOf(b) <= begin[nextblock[b]] /\ nextblock[b] \in Descriptors
        BY <1>1, <3>3 DEF LinkInv
      <4>2. EndOf(b) <= begin[m]
        BY <4>1, <3>3, <1>1
      <4>3. QED BY <4>2, <1>1, <1>3 DEF Between
    <3>4. QED BY <3>1, <3>2, <3>3 DEF Between
  <2>2. Between(b, g)'
    BY <1>1, <1>3 DEF Between
  <2>3. ASSUME NEW m \in owned PROVE Between(g, m)'
    <3>1. CASE m = b
      BY <3>1, <1>1, <1>3 DEF Between
    <3>2. CASE m # b
      <4>1. Between(b, m)
        BY <1>1, <3>2 DEF GapInv
      <4>2. CASE EndOf(m) <= begin[b]
        <5>1. EndOf(m) <= EndOf(b)
          BY <4>2, <1>1
        <5>2. QED BY <5>1, <1>3 DEF Between
      <4>3. CASE nextblock[b] # NoBlock /\ begin[nextblock[b]] <= begin[m]
        BY <4>3, <1>3, <1>4 DEF Between
      <4>4. QED BY <4>1, <4>2, <4>3 DEF Between
    <3>3. QED BY <3>1, <3>2
  <2>4. ASSUME NEW k \in Nodes, NEW m \in owned, k # b, m # k PROVE Between(k, m)'
    <3>1. Between(k, m)
      BY <2>4 DEF GapInv
    <3>2. nextblock[k] # NoBlock => nextblock[k] \in Nodes
      BY DEF LinkInv
    <3>3. QED BY <3>1, <3>2, <2>4, <1>3 DEF Between
  <2>5. ASSUME NEW k \in Nodes, k # b PROVE Between(k, g)'
    <3>1. nextblock[k] # NoBlock => nextblock[k] \in Nodes
      BY DEF LinkInv
    <3>2. CASE k = PoolStart
      <4>1. b \in owned /\ Between(k, b) /\ size[b] > 0 /\ EndOf(k) = StartAddress
        BY <1>1, <2>5, <3>2 DEF GapInv, InUseInv, StartInv
      <4>2. nextblock[k] # NoBlock /\ begin[nextblock[k]] <= begin[b]
        BY <4>1, <3>2, <1>1 DEF Between, RangeInv, StartInv
      <4>3. QED BY <4>2, <3>1, <2>5, <1>1, <1>3 DEF Between
    <3>3. CASE k \in owned
      <4>1. Between(b, k) /\ size[k] > 0
        BY <1>1, <2>5, <3>3 DEF GapInv, InUseInv
      <4>2. CASE nextblock[b] # NoBlock /\ begin[nextblock[b]] <= begin[k]
        <5>1. EndOf(g)' <= begin'[k]
          BY <4>2, <1>1, <1>3, <1>4
        <5>2. QED BY <5>1 DEF Between
      <4>3. CASE EndOf(k) <= begin[b]
        <5>1. b \in owned
          BY <4>1, <4>3, <3>3, <1>1 DEF StartInv, RangeInv
        <5>2. Between(k, b) /\ size[b] > 0
          BY <5>1, <2>5 DEF GapInv, InUseInv
        <5>3. nextblock[k] # NoBlock /\ begin[nextblock[k]] <= begin[b]
          BY <5>2, <4>1, <4>3, <1>1 DEF Between
        <5>4. QED BY <5>3, <3>1, <2>5, <1>1, <1>3 DEF Between
      <4>4. QED BY <4>1, <4>2, <4>3 DEF Between
    <3>4. QED BY <3>2, <3>3
  <2>6. QED BY <1>1, <1>2, <2>1, <2>2, <2>3, <2>4, <2>5 DEF GapInv
<1>8. RangeInv'
  BY <1>1, <1>2, <1>3, <1>4 DEF RangeInv
<1>9. QED BY <1>5, <1>6, <1>7, <1>8

(* The end of freeBlock: c, the predecessor of h, is linked to h's         *)
(* successor, and the gap behind c takes in h.                             *)
LEMMA UnlinkList ==
  ASSUME TypeOK, ListInv, CallInv, Unlink, NEW c, c = cur, NEW h, h = arg
  PROVE  ListInv'
<1> USE Numbers, HandleFacts, NodeFacts DEF TypeOK, ListInv
<1>1. /\ c \in Nodes /\ c \in Descriptors /\ h \in Handles /\ h \in Descriptors
      /\ nextblock[c] = h /\ h \in owned /\ size[h] > 0 /\ h # PoolStart
  BY c = cur, h = arg DEF Unlink, CallInv, LinkInv, InUseInv
<1>2. EndOf(c) <= begin[h]
  BY <1>1 DEF LinkInv
<1>3. c # h
  BY <1>1, <1>2
<1>4. /\ begin' = begin /\ size' = [size EXCEPT ![h] = 0]
      /\ nextblock' = [nextblock EXCEPT ![c] = nextblock[h], ![h] = NoBlock]
      /\ owned' = owned \ {h} /\ Nodes' = Nodes \ {h}
  BY <1>1, c = cur, h = arg DEF Unlink, Nodes
<1>5. /\ nextblock'[c] = nextblock[h]
      /\ \A k \in Nodes' : size'[k] = size[k] /\ EndOf(k)' = EndOf(k) /\ begin'[k] = begin[k]
      /\ \A k \in Nodes' : k # c => nextblock'[k] = nextblock[k]
      /\ Nodes' \subseteq Nodes /\ h \in Nodes /\ c \in Nodes'
  BY <1>1, <1>3, <1>4 DEF EndOf
(* Only c points at h: a second predecessor would lie in c's gap.          *)
<1>6. ASSUME NEW k \in Nodes, k # c PROVE nextblock[k] # h
  <2>1. SUFFICES ASSUME nextblock[k] = h PROVE FALSE
    OBVIOUS
  <2>2. EndOf(k) <= begin[h]
    BY <2>1, <1>1 DEF LinkInv
  <2>3. ASSUME NEW a \in owned, NEW b \in Nodes, a # b, nextblock[b] = h, EndOf(a) <= begin[h]
        PROVE  EndOf(a) <= begin[b]
    <3>1. Between(b, a) /\ size[a] > 0
      BY <2>3 DEF GapInv, InUseInv
    <3>2. QED BY <3>1, <2>3 DEF Between
  <2>4. k \in owned => EndOf(k) <= begin[c]
    BY <2>1, <2>2, <2>3, <1>1, <1>6
  <2>5. c \in owned => EndOf(c) <= begin[k]
    BY <2>1, <2>3, <1>1, <1>2, <1>6
  <2>6. (k \in owned => size[k] > 0 /\ StartAddress <= begin[k])
        /\ (c \in owned => size[c] > 0 /\ StartAddress <= begin[c])
    BY DEF InUseInv, RangeInv
  <2>7. QED BY <2>4, <2>5, <2>6, <1>1, <1>6 DEF StartInv
<1>7. StartInv' /\ InUseInv'
  BY <1>1, <1>4, <1>5 DEF StartInv, InUseInv
<1>8. LinkInv'
  <2>1. ASSUME NEW k \in Nodes', k # c
        PROVE  /\ nextblock'[k] \in owned' \union {NoBlock}
               /\ nextblock'[k] # NoBlock => EndOf(k)' <= begin'[nextblock'[k]]
    BY <2>1, <1>4, <1>5, <1>6 DEF LinkInv
  <2>2. nextblock[h] # h /\ nextblock[h] \in owned \union {NoBlock}
    <3>1. h \in Nodes /\ h # c
      BY <1>1, <1>3
    <3>2. nextblock[h] # h
      BY <3>1, <1>6
    <3>3. QED BY <3>1, <3>2 DEF LinkInv
  <2>3. ASSUME nextblock[h] # NoBlock PROVE EndOf(c) <= begin[nextblock[h]]
    <3>1. EndOf(h) <= begin[nextblock[h]] /\ nextblock[h] \in Descriptors
      BY <2>3, <1>5 DEF LinkInv
    <3>2. /\ EndOf(c) \in Nat /\ begin[h] \in Nat /\ size[h] \in Nat
          /\ begin[nextblock[h]] \in Nat /\ EndOf(h) = begin[h] + size[h]
      BY <3>1, <1>1
    <3>3. QED BY <3>1, <3>2, <1>2
  <2>4. /\ nextblock'[c] \in owned' \union {NoBlock}
        /\ nextblock'[c] # NoBlock => EndOf(c)' <= begin'[nextblock'[c]]
    BY <2>2, <2>3, <1>4, <1>5
  <2>5. QED BY <2>1, <2>4 DEF LinkInv
<1>9. GapInv'
  <2>1. ASSUME NEW k \in Nodes', NEW m \in owned', k # c, m # k PROVE Between(k, m)'
    <3>1. Between(k, m) /\ nextblock'[k] = nextblock[k] /\ m \in Nodes'
      BY <2>1, <1>4, <1>5 DEF GapInv, Nodes
    <3>2. QED BY <2>1, <3>1, <1>4, <1>5 DEF Between
  <2>2. ASSUME NEW m \in owned', m # c PROVE Between(c, m)'
    <3>1. Between(c, m) /\ Between(h, m) /\ size[m] > 0 /\ m # h /\ m \in Nodes'
      BY <2>2, <1>1, <1>4, <1>5 DEF GapInv, InUseInv, Nodes
    <3>2. CASE EndOf(m) <= begin[c]
      BY <3>1, <3>2, <1>4, <1>5 DEF Between
    <3>3. CASE begin[h] <= begin[m]
      <4>1. ~(EndOf(m) <= begin[h])
        <5>1. m \in Descriptors
          BY <3>1, <1>5
        <5>2. /\ begin[m] \in Nat /\ size[m] \in Nat /\ begin[h] \in Nat
              /\ EndOf(m) = begin[m] + size[m]
          BY <5>1, <1>1
        <5>3. QED BY <5>2, <3>1, <3>3
      <4>2. nextblock[h] # NoBlock /\ begin[nextblock[h]] <= begin[m]
        BY <3>1, <4>1 DEF Between
      <4>3. QED BY <4>2, <1>4, <1>5 DEF Between
    <3>4. QED BY <3>1, <3>2, <3>3, <1>1 DEF Between
  <2>3. QED BY <2>1, <2>2 DEF GapInv
<1>10. RangeInv'
  BY <1>4, <1>5 DEF RangeInv, Nodes
<1>11. QED BY <1>7, <1>8, <1>9, <1>10

(* Whatever lies outside n and the gap in front of it, which c ends: every *)
(* other block ends at or before the end of c, or begins behind n.         *)
LEMMA AroundSuccessor ==
  ASSUME TypeOK, ListInv, NEW c \in Nodes, NEW n \in owned, n = nextblock[c],
         NEW k \in owned, k # n
  PROVE  EndOf(k) <= EndOf(c) \/ EndOf(n) <= begin[k]
<1> USE HandleFacts, NodeFacts DEF TypeOK, ListInv
<1>1. /\ c \in Descriptors /\ n \in Descriptors /\ n # NoBlock /\ size[n] > 0
      /\ begin[c] \in Nat /\ size[c] \in Nat /\ EndOf(c) = begin[c] + size[c]
      /\ EndOf(c) \in Nat /\ EndOf(n) \in Nat /\ EndOf(n) = begin[n] + size[n]
      /\ EndOf(c) <= begin[n] /\ begin[n] \in Nat
  BY DEF InUseInv, LinkInv
<1>2. k = c \/ (Between(c, k) /\ Between(n, k) /\ Between(k, n))
  BY <1>1 DEF GapInv
<1>3. size[k] > 0
  BY DEF InUseInv
<1>4. CASE k = c
  BY <1>4, <1>1
<1>5. CASE EndOf(k) <= begin[c]
  <2>1. k \in Descriptors
    OBVIOUS
  <2>2. EndOf(k) \in Nat
    BY <2>1
  <2>3. QED BY <1>5, <2>2, <1>1
<1>6. CASE k # c /\ begin[n] <= begin[k]
  <2>1. nextblock[n] # NoBlock /\ begin[nextblock[n]] <= begin[k]
    BY <1>2, <1>3, <1>6 DEF Between
  <2>2. EndOf(n) <= begin[nextblock[n]] /\ nextblock[n] \in Descriptors
    BY <1>1, <2>1 DEF LinkInv
  <2>3. EndOf(n) \in Nat /\ begin[nextblock[n]] \in Nat /\ begin[k] \in Nat
    BY <2>2, <1>1
  <2>4. QED BY <2>1, <2>2, <2>3
<1>7. QED BY <1>2, <1>4, <1>5, <1>6, <1>1 DEF Between

(* One step of the compaction: n, the successor of c, moves down to c.     *)
LEMMA MoveList ==
  ASSUME TypeOK, ListInv, CallInv, CollectMove, NEW c, c = cur, NEW n, n = nextblock[cur]
  PROVE  ListInv'
<1> USE Numbers, HandleFacts, NodeFacts DEF TypeOK, ListInv
<1>1. /\ c \in Nodes /\ c \in Descriptors /\ nextblock[c] = n /\ n # NoBlock
      /\ n \in owned /\ n \in Descriptors /\ size[n] > 0 /\ EndOf(c) <= begin[n]
      /\ begin[c] \in Nat /\ size[c] \in Nat /\ EndOf(c) = begin[c] + size[c]
  BY c = cur, n = nextblock[cur] DEF CollectMove, CallInv, LinkInv, InUseInv
<1>2. /\ begin' = [begin EXCEPT ![n] = EndOf(c)]
      /\ size' = size /\ nextblock' = nextblock /\ owned' = owned /\ Nodes' = Nodes
  BY c = cur, n = nextblock[cur] DEF CollectMove, Nodes
<1>3. /\ begin'[n] = EndOf(c) /\ EndOf(n)' <= EndOf(n) /\ begin'[n] <= begin[n] /\ c # n
      /\ EndOf(n)' = EndOf(c) + size[n]
      /\ \A k \in Descriptors : k # n => begin'[k] = begin[k] /\ EndOf(k)' = EndOf(k)
      /\ \A k \in Descriptors : begin'[k] <= begin[k] /\ EndOf(k)' <= EndOf(k)
      /\ \A k \in Descriptors : EndOf(k)' \in Nat /\ begin'[k] \in Nat
  BY <1>1, <1>2 DEF EndOf
<1>4. StartInv' /\ InUseInv'
  BY <1>1, <1>2, <1>3 DEF StartInv, InUseInv
<1>5. ASSUME NEW k \in owned, k # n PROVE EndOf(k) <= EndOf(c) \/ EndOf(n) <= begin[k]
  BY <1>1, <1>5, AroundSuccessor
<1>6. LinkInv'
  <2>1. ASSUME NEW k \in Nodes, nextblock[k] # NoBlock PROVE EndOf(k)' <= begin'[nextblock[k]]
    <3>1. EndOf(k) <= begin[nextblock[k]] /\ nextblock[k] \in owned
      BY <2>1 DEF LinkInv
    <3>2. CASE nextblock[k] # n
      BY <3>1, <3>2, <1>1, <1>3
    <3>3. CASE nextblock[k] = n
      <4>1. k # n
        BY <3>1, <3>3, <1>1
      <4>2. CASE k = PoolStart
        <5>1. EndOf(k) = StartAddress /\ StartAddress <= EndOf(c)
          BY <4>2, <1>1 DEF StartInv, RangeInv
        <5>2. QED BY <5>1, <4>1, <3>3, <1>1, <1>3
      <4>3. CASE k \in owned
        <5>1. EndOf(k) <= EndOf(c)
          BY <4>1, <4>3, <3>1, <3>3, <1>1, <1>5
        <5>2. QED BY <5>1, <4>1, <3>3, <1>1, <1>3
      <4>4. QED BY <4>2, <4>3
    <3>4. QED BY <3>2, <3>3
  <2>2. QED BY <1>2, <2>1 DEF LinkInv
<1>7. GapInv'
  <2>1. ASSUME NEW k \in Nodes, NEW m \in owned, m # k PROVE Between(k, m)'
    <3>1. Between(k, m) /\ (nextblock[k] # NoBlock => nextblock[k] \in owned)
      BY <2>1 DEF GapInv, LinkInv
    <3>2. CASE k = n
      BY <2>1, <3>1, <3>2, <1>1, <1>2, <1>3, <1>5 DEF Between
    <3>3. CASE m = n
      <4>1. CASE EndOf(m) <= begin[k]
        BY <4>1, <3>3, <2>1, <1>1, <1>3 DEF Between
      <4>2. CASE nextblock[k] = n
        BY <4>2, <3>3, <1>1, <1>2, <1>3 DEF Between
      <4>3. CASE nextblock[k] \in owned /\ nextblock[k] # n /\ begin[nextblock[k]] <= begin[n]
        <5>1. size[nextblock[k]] > 0
          BY <4>3 DEF InUseInv
        <5>2. begin[nextblock[k]] <= EndOf(c)
          BY <5>1, <4>3, <1>1, <1>5
        <5>3. QED BY <5>2, <4>3, <3>3, <1>1, <1>2, <1>3 DEF Between
      <4>4. QED BY <3>1, <3>3, <4>1, <4>2, <4>3, <1>1 DEF Between
    <3>4. CASE k # n /\ m # n
      BY <2>1, <3>1, <3>4, <1>2, <1>3 DEF Between
    <3>5. QED BY <3>2, <3>3, <3>4
  <2>2. QED BY <1>2, <2>1 DEF GapInv
<1>8. RangeInv'
  <2>1. StartAddress <= EndOf(c) /\ EndOf(n) <= EndAddress
    BY <1>1 DEF StartInv, RangeInv
  <2>2. QED BY <2>1, <1>1, <1>2, <1>3 DEF RangeInv
<1>9. QED BY <1>4, <1>6, <1>7, <1>8

(***************************************************************************)
(* The locals of a call under each kind of step.                           *)
(***************************************************************************)
LEMMA ReturnCall == ASSUME Return PROVE CallInv'
BY DEF Return, CallInv

LEMMA CallCall == ASSUME TypeOK, CallInv, Call PROVE CallInv'
<1> USE Numbers, HandleFacts, NodeFacts DEF TypeOK
<1>1. ASSUME NEW n \in Requests, AllocBlock(n) PROVE CallInv'
  BY <1>1 DEF AllocBlock, CallInv, Nodes
<1>2. ASSUME NEW h \in Handles, FreeBlock(h) PROVE CallInv'
  BY <1>2 DEF FreeBlock, CallInv, Nodes
<1>3. ASSUME Narrow PROVE CallInv'
  BY <1>3 DEF Narrow, NarrowBlock, ResizeBlock, callVars, CallInv
<1>4. QED BY <1>1, <1>2, <1>3 DEF Call

(* Whichever node the walk settles on, it is one with room behind it.      *)
LEMMA BestCall ==
  ASSUME TypeOK, CallInv, arg > 0, UNCHANGED <<blockVars, owned, arg>>,
         NEW b, b = best', b # NoBest => b \in Nodes /\ FreeAfter(b) >= arg,
         cur' \in Nodes, pc' \in {"scan", "found", "collect"}, pc' = "found" => b # NoBest
  PROVE  CallInv'
<1>1. Nodes' = Nodes /\ arg' = arg
  BY DEF Nodes
<1>2. b # NoBest => best' \in Nodes /\ FreeAfter(best)' >= arg
  <2>1. FreeAfter(best)' = FreeAfter(b)
    BY DEF FreeAfter, EndOf, blockVars
  <2>2. QED BY <2>1
<1>3. QED BY <1>1, <1>2 DEF CallInv

LEMMA StepCall == ASSUME TypeOK, ListInv, CallInv, Step PROVE CallInv'
<1> USE HandleFacts, NodeFacts
<1>1. CASE ScanExact
  <2>1. /\ arg > 0 /\ cur \in Nodes /\ FreeAfter(cur) >= arg /\ best' = cur
        /\ pc' = "found" /\ cur' = PoolStart /\ UNCHANGED <<blockVars, owned, arg>>
    BY <1>1, FreeAfterNat DEF ScanExact, ExactFit, CallInv, TypeOK
  <2>2. PICK b : b = best'
    OBVIOUS
  <2>3. (b # NoBest => b \in Nodes /\ FreeAfter(b) >= arg) /\ b # NoBest
    BY <2>1, <2>2
  <2>4. QED BY <2>1, <2>2, <2>3, BestCall
<1>2. CASE ScanNext
  <2>1. arg > 0 /\ cur \in Nodes /\ UNCHANGED <<blockVars, owned, arg>>
    BY <1>2 DEF ScanNext, CallInv
  <2>2. PICK b : b = best'
    OBVIOUS
  <2>3. b # NoBest => b \in Nodes /\ FreeAfter(b) >= arg
    <3>1. CASE BetterFit
      <4>1. b = cur /\ FreeAfter(cur) > arg
        BY <3>1, <2>2, <1>2 DEF ScanNext, BetterFit
      <4>2. QED BY <4>1, <2>1, FreeAfterNat DEF TypeOK
    <3>2. CASE ~BetterFit
      BY <3>2, <2>2, <1>2 DEF ScanNext, CallInv
    <3>3. QED BY <3>1, <3>2
  <2>4. cur' \in Nodes
    BY <1>2, <2>1 DEF ScanNext, ListInv, LinkInv
  <2>5. pc' \in {"scan", "found", "collect"} /\ (pc' = "found" => b # NoBest)
    BY <1>2, <2>2 DEF ScanNext
  <2>6. QED BY <2>1, <2>2, <2>3, <2>4, <2>5, BestCall
<1>3. CASE CollectMove
  <2>1. cur' \in Nodes /\ Nodes' = Nodes /\ pc' = "collect" /\ arg' = arg /\ arg > 0
    BY <1>3 DEF CollectMove, CallInv, ListInv, LinkInv, Nodes
  <2>2. QED BY <2>1 DEF CallInv
<1>4. CASE CollectDone
  <2>1. /\ arg > 0 /\ cur \in Nodes /\ best' = cur /\ pc' = "found" /\ cur' = PoolStart
        /\ UNCHANGED <<blockVars, owned, arg>>
    BY <1>4 DEF CollectDone, CallInv
  <2>2. FreeAfter(cur) >= arg
    <3>1. nextblock[cur] = NoBlock /\ TailFits
      BY <1>4 DEF CollectDone
    <3>2. FreeAfter(cur) = (begin[PoolStart] + PoolSize) - EndOf(cur)
      BY <3>1, Zenon DEF FreeAfter
    <3>3. begin[PoolStart] \in Nat /\ EndOf(cur) \in Nat /\ arg \in Nat
      BY <2>1 DEF TypeOK
    <3>4. QED BY <3>1, <3>2, <3>3, Numbers DEF TailFits
  <2>3. PICK b : b = best'
    OBVIOUS
  <2>4. (b # NoBest => b \in Nodes /\ FreeAfter(b) >= arg) /\ b # NoBest
    BY <2>1, <2>2, <2>3
  <2>5. QED BY <2>1, <2>3, <2>4, BestCall
<1>5. CASE FreeNext
  <2>1. cur' \in Nodes /\ Nodes' = Nodes /\ pc' = "free" /\ arg' = arg /\ arg \in Handles
    BY <1>5 DEF FreeNext, CallInv, ListInv, LinkInv, Nodes
  <2>2. QED BY <2>1 DEF CallInv
<1>6. CASE Return
  BY <1>6, ReturnCall
<1>7. QED BY <1>1, <1>2, <1>3, <1>4, <1>5, <1>6
          DEF Step, CollectFail, Place, NoDescriptor, Unlink, FreeNotFound

(***************************************************************************)
(* The invariant is inductive.                                             *)
(***************************************************************************)
LEMMA NextIInv == ASSUME IInv, [Next]_vars PROVE IInv'
<1> USE DEF IInv
<1>1. CASE Call
  <2>1. TypeOK' /\ CallInv'
    BY <1>1, CallType, CallCall
  <2>2. ASSUME Narrow PROVE ListInv'
    BY <2>2, NarrowList DEF Narrow, NarrowBlock
  <2>3. ASSUME ~Narrow PROVE ListInv'
    <3>1. UNCHANGED <<blockVars, owned>>
      BY <1>1, <2>3 DEF Call, AllocBlock, FreeBlock
    <3>2. QED BY <3>1, ListUnchanged
  <2>4. ListInv'
    BY <2>2, <2>3
  <2>5. QED BY <2>1, <2>4
<1>2. CASE Step
  <2>1. TypeOK' /\ CallInv'
    BY <1>2, StepType, StepCall
  <2>2. ASSUME CollectMove PROVE ListInv'
    BY <2>2, MoveList
  <2>3. ASSUME NEW h \in Handles, Place(h) PROVE ListInv'
    BY <2>3, PlaceList
  <2>4. ASSUME Unlink PROVE ListInv'
    BY <2>4, UnlinkList
  <2>5. ASSUME UNCHANGED <<blockVars, owned>> PROVE ListInv'
    BY <2>5, ListUnchanged
  <2>6. ListInv'
    BY <1>2, <2>2, <2>3, <2>4, <2>5
       DEF Step, ScanExact, ScanNext, CollectDone, CollectFail, NoDescriptor, FreeNext, FreeNotFound
  <2>7. QED BY <2>1, <2>6
<1>3. CASE UNCHANGED vars
  <2>1. TypeOK' /\ CallInv'
    BY <1>3 DEF vars, blockVars, callVars, TypeOK, CallInv, Nodes, FreeAfter, EndOf
  <2>2. QED BY <1>3, <2>1, ListUnchanged DEF vars
<1>4. QED BY <1>1, <1>2, <1>3 DEF Next

LEMMA SpecIInv == Spec => []IInv
BY InitIInv, NextIInv, PTL DEF Spec

(* Every descriptor and every local of the allocator keeps its type; in    *)
(* particular no size and no gap ever becomes negative, which the unsigned *)
(* arithmetic of mempool.cpp relies on.                                    *)
THEOREM TypeCorrect == Spec => []TypeOK
BY SpecIInv, PTL DEF IInv

(* Blocks of two handles lie one behind the other, so they share no byte.   *)
LEMMA InvNoOverlap == IInv => NoOverlap
<1> SUFFICES ASSUME IInv PROVE NoOverlap
  OBVIOUS
<1> USE Numbers, HandleFacts, NodeFacts DEF IInv, TypeOK, ListInv
<1>1. ASSUME NEW h \in owned, NEW k \in owned, h # k
      PROVE  EndOf(h) <= begin[k] \/ EndOf(k) <= begin[h]
  <2>1. Between(h, k)
    BY <1>1 DEF GapInv
  <2>2. CASE nextblock[h] # NoBlock /\ begin[nextblock[h]] <= begin[k]
    <3>1. EndOf(h) <= begin[nextblock[h]] /\ nextblock[h] \in Descriptors
      BY <2>2 DEF LinkInv
    <3>2. EndOf(h) \in Nat /\ begin[nextblock[h]] \in Nat /\ begin[k] \in Nat
      BY <3>1
    <3>3. QED BY <2>2, <3>1, <3>2
  <2>3. QED BY <2>1, <2>2 DEF Between
<1>2. QED BY <1>1 DEF NoOverlap, RangeInv

(* Two handles never share a byte, and no block leaves the pool.           *)
THEOREM BlocksApart == Spec => []NoOverlap
BY InvNoOverlap, SpecIInv, PTL

(***************************************************************************)
(* The memory                                                              *)
(***************************************************************************)
StoreInv ==
  /\ IInv
  /\ StoreTypeOK
  /\ pc \in {"scan", "collect", "found"} => arg \in Requests

(* The bytes of a block are cells of the memory.                           *)
LEMMA BlockCells ==
  ASSUME IInv, NEW h \in owned
  PROVE  /\ begin[h] \in Nat /\ size[h] \in Nat /\ size[h] > 0 /\ EndOf(h) = begin[h] + size[h]
         /\ \A i \in 0 .. size[h] - 1 : begin[h] + i \in Cells
<1>1. begin[h] \in Nat /\ size[h] \in Nat /\ size[h] > 0 /\ EndOf(h) = begin[h] + size[h]
  BY HandleFacts, NodeFacts DEF IInv, TypeOK, ListInv, InUseInv
<1>2. StartAddress <= begin[h] /\ EndOf(h) <= EndAddress
  BY DEF IInv, ListInv, RangeInv
<1>3. QED BY <1>1, <1>2, Numbers DEF Cells

(* Two blocks have no byte in common.                                      *)
LEMMA BlocksDisjoint ==
  ASSUME IInv, NEW h \in owned, NEW k \in owned, h # k,
         NEW i \in 0 .. size[h] - 1, NEW j \in 0 .. size[k] - 1
  PROVE  begin[h] + i # begin[k] + j
<1>1. EndOf(h) <= begin[k] \/ EndOf(k) <= begin[h]
  BY InvNoOverlap DEF NoOverlap
<1>2. QED BY <1>1, BlockCells

(***************************************************************************)
(* Steps of the allocator.                                                 *)
(***************************************************************************)
LEMMA SameBytes == ASSUME UNCHANGED <<begin, size, owned, mem>> PROVE store' = store
BY DEF store, Content

LEMMA PlaceAlloc ==
  ASSUME StoreInv, IInv', StoreTypeOK', NEW h \in Handles, Place(h), subject' = h, mem' = mem
  PROVE  Abstract!Alloc
<1>1. /\ arg \in Requests /\ h \notin owned /\ owned' = owned \union {h}
      /\ size'[h] = arg /\ h \in Descriptors /\ arg \in Nat /\ arg > 0
      /\ \A k \in owned : k # h /\ begin'[k] = begin[k] /\ size'[k] = size[k]
  BY HandleFacts, Numbers DEF StoreInv, IInv, TypeOK, ListInv, InUseInv, Place, FirstFree
<1>2. Content(h)' \in [0 .. arg - 1 -> Bytes]
  <2>1. \A i \in 0 .. arg - 1 : begin'[h] + i \in Cells
    <3>1. RangeInv' /\ begin'[h] \in Nat /\ EndOf(h)' = begin'[h] + size'[h]
      BY <1>1 DEF IInv, ListInv, TypeOK, EndOf
    <3>2. QED BY <3>1, <1>1, Numbers DEF RangeInv, Cells
  <2>2. \A i \in 0 .. arg - 1 : mem'[begin'[h] + i] \in Bytes
    BY <2>1 DEF StoreTypeOK
  <2>3. Content(h)' = [i \in 0 .. arg - 1 |-> mem'[begin'[h] + i]]
    BY <1>1 DEF Content
  <2>4. QED BY <2>2, <2>3
<1>3. \A k \in owned : Content(k)' = Content(k)
  BY <1>1 DEF Content
<1>4. store' = [k \in DOMAIN store \union {h} |-> IF k = h THEN Content(h)' ELSE store[k]]
  BY <1>1, <1>3 DEF store
<1>5. h \in Handles \ DOMAIN store
  BY <1>1 DEF store
<1>6. QED BY <1>1, <1>2, <1>4, <1>5 DEF Abstract!Alloc

LEMMA UnlinkFree == ASSUME StoreInv, Unlink, subject' = arg, mem' = mem PROVE Abstract!Free
<1>1. PICK h : h = arg
  OBVIOUS
<1>2. h \in owned
  BY <1>1, HandleFacts DEF StoreInv, IInv, ListInv, CallInv, LinkInv, Unlink
<1>3. owned' = owned \ {h} /\ begin' = begin /\ \A k \in owned' : size'[k] = size[k]
  BY <1>1, <1>2, HandleFacts DEF StoreInv, IInv, TypeOK, Unlink
<1>4. \A k \in owned' : Content(k)' = Content(k)
  BY <1>3 DEF Content
<1>5. store' = [k \in DOMAIN store \ {h} |-> store[k]]
  BY <1>3, <1>4 DEF store
<1>6. QED BY <1>1, <1>2, <1>5 DEF Abstract!Free, store

LEMMA ResizeNarrow ==
  ASSUME StoreInv, NEW h \in owned, NEW p \in 0 .. size[h] - 1, NEW n \in 1 .. size[h] - p,
         ResizeBlock(h, p, n), subject' = h, mem' = mem
  PROVE  Abstract!Narrow
<1>1. begin[h] \in Nat /\ size[h] \in Nat /\ size[h] > 0
  BY BlockCells DEF StoreInv
<1>2. /\ owned' = owned /\ begin'[h] = begin[h] + p /\ size'[h] = n
      /\ \A k \in owned : k # h => begin'[k] = begin[k] /\ size'[k] = size[k]
  BY HandleFacts DEF StoreInv, IInv, TypeOK, ResizeBlock
<1>3. \A k \in owned : k # h => Content(k)' = Content(k)
  BY <1>2 DEF Content
<1>4. Content(h)' = Abstract!Part(Content(h), p, n)
  <2>1. \A i \in 0 .. n - 1 : p + i \in 0 .. size[h] - 1 /\ (begin[h] + p) + i = begin[h] + (p + i)
    BY <1>1
  <2>2. \A i \in 0 .. n - 1 : Content(h)[p + i] = mem[(begin[h] + p) + i]
    BY <2>1 DEF Content
  <2>3. Content(h)' = [i \in 0 .. n - 1 |-> mem[(begin[h] + p) + i]]
    BY <1>2 DEF Content
  <2>4. QED BY <2>2, <2>3 DEF Abstract!Part
<1>5. store' = [store EXCEPT ![h] = Abstract!Part(@, p, n)]
  BY <1>2, <1>3, <1>4 DEF store
<1>6. DOMAIN store[h] = 0 .. size[h] - 1 /\ h \in DOMAIN store
  BY DEF store, Content
<1>7. p \in DOMAIN store[h] /\ n - 1 \in DOMAIN store[h] /\ p + (n - 1) \in DOMAIN store[h]
      /\ (n - 1) + 1 = n
  BY <1>1, <1>6
<1>8. QED BY <1>5, <1>6, <1>7 DEF Abstract!Narrow

(* The compaction: the block n behind c is copied down to the end of c.    *)
LEMMA MoveKeeps ==
  ASSUME StoreInv, CollectMove, NEW c, c = cur, NEW n, n = nextblock[cur],
         mem' = Moved(EndOf(c), begin[n], size[n])
  PROVE  store' = store
<1> USE DEF StoreInv
<1>1. /\ c \in Nodes /\ n \in owned /\ n = nextblock[c] /\ EndOf(c) <= begin[n]
      /\ EndOf(c) \in Nat /\ StartAddress <= EndOf(c) /\ n # NoBlock
  <2>1. /\ c \in Nodes /\ n \in owned /\ n = nextblock[c] /\ EndOf(c) <= begin[n] /\ n # NoBlock
    BY c = cur, n = nextblock[cur], HandleFacts DEF IInv, ListInv, CallInv, LinkInv, CollectMove
  <2>2. EndOf(c) \in Nat /\ StartAddress <= EndOf(c)
    BY <2>1, Numbers, HandleFacts, NodeFacts DEF IInv, TypeOK, ListInv, StartInv, RangeInv
  <2>3. QED BY <2>1, <2>2
<1>2. /\ begin[n] \in Nat /\ size[n] \in Nat /\ size[n] > 0 /\ EndOf(n) = begin[n] + size[n]
      /\ EndOf(n) <= EndAddress
  BY <1>1, BlockCells DEF IInv, ListInv, RangeInv
<1>3. /\ begin'[n] = EndOf(c) /\ size' = size /\ owned' = owned
      /\ \A k \in owned : k # n => begin'[k] = begin[k]
  BY <1>1, HandleFacts, NodeFacts, c = cur, n = nextblock[cur] DEF IInv, TypeOK, CollectMove
<1>4. Content(n)' = Content(n)
  <2>1. ASSUME NEW i \in 0 .. size[n] - 1 PROVE mem'[EndOf(c) + i] = mem[begin[n] + i]
    <3>1. EndOf(c) + i \in Cells
      BY <1>1, <1>2, Numbers DEF Cells
    <3>2. EndOf(c) + i \in EndOf(c) .. EndOf(c) + size[n] - 1 /\ (EndOf(c) + i) - EndOf(c) = i
      BY <1>1, <1>2
    <3>3. mem'[EndOf(c) + i] = mem[begin[n] + ((EndOf(c) + i) - EndOf(c))]
      BY <3>1, <3>2 DEF Moved
    <3>4. QED BY <3>2, <3>3
  <2>2. QED BY <2>1, <1>3 DEF Content
<1>5. ASSUME NEW k \in owned, k # n PROVE Content(k)' = Content(k)
  <2>1. EndOf(k) <= EndOf(c) \/ EndOf(n) <= begin[k]
    BY <1>1, <1>5, AroundSuccessor DEF IInv
  <2>2. ASSUME NEW j \in 0 .. size[k] - 1 PROVE mem'[begin[k] + j] = mem[begin[k] + j]
    <3>1. begin[k] + j \in Cells /\ begin[k] \in Nat /\ size[k] \in Nat /\ EndOf(k) = begin[k] + size[k]
      BY BlockCells
    <3>2. begin[k] + j \notin EndOf(c) .. EndOf(c) + size[n] - 1
      BY <3>1, <2>1, <1>1, <1>2
    <3>3. QED BY <3>1, <3>2 DEF Moved
  <2>3. QED BY <2>2, <1>3, <1>5 DEF Content
<1>6. QED BY <1>3, <1>4, <1>5 DEF store

LEMMA PoolStepNext == ASSUME PoolStep PROVE Next
BY DEF PoolStep, QuietStep, Next, Call, Narrow, Step

LEMMA QuietKeeps ==
  ASSUME StoreInv, PoolStep, QuietStep
  PROVE  store' = store
<1>1. CASE CollectMove
  <2>1. PICK c, n : c = cur /\ n = nextblock[cur]
    OBVIOUS
  <2>2. mem' = Moved(EndOf(c), begin[n], size[n])
    BY <1>1, <2>1 DEF PoolStep, CollectMove
  <2>3. QED BY <1>1, <2>1, <2>2, MoveKeeps
<1>2. CASE ~CollectMove
  <2>1. UNCHANGED <<blockVars, owned>>
    BY <1>2 DEF QuietStep, AllocBlock, FreeBlock, ScanExact, ScanNext, CollectDone, CollectFail,
                NoDescriptor, FreeNext, FreeNotFound
  <2>2. ~(pc = "collect" /\ nextblock[cur] # NoBlock)
    BY <1>2 DEF QuietStep, AllocBlock, FreeBlock, ScanExact, ScanNext, CollectMove, CollectDone,
                CollectFail, NoDescriptor, FreeNext, FreeNotFound
  <2>3. mem' = mem
    BY <2>2 DEF PoolStep
  <2>4. QED BY <2>1, <2>3, SameBytes DEF blockVars
<1>3. QED BY <1>1, <1>2

LEMMA PoolStepMaps ==
  ASSUME StoreInv, IInv', StoreTypeOK', PoolStep
  PROVE  Abstract!Next
<1>1. ASSUME QuietStep, subject' = NoBlock PROVE Abstract!Next
  BY <1>1, QuietKeeps DEF Abstract!Next, Abstract!Nothing
<1>2. ASSUME NEW h \in Handles, Place(h), subject' = h PROVE Abstract!Next
  <2>1. mem' = mem
    BY <1>2 DEF PoolStep, Place
  <2>2. QED BY <1>2, <2>1, PlaceAlloc DEF Abstract!Next
<1>3. ASSUME Unlink, subject' = arg PROVE Abstract!Next
  <2>1. mem' = mem
    BY <1>3 DEF PoolStep, Unlink
  <2>2. QED BY <1>3, <2>1, UnlinkFree DEF Abstract!Next
<1>4. ASSUME NEW h \in owned, NarrowBlock(h), subject' = h PROVE Abstract!Next
  <2>1. PICK p \in 0 .. size[h] - 1 : \E n \in 1 .. size[h] - p : ResizeBlock(h, p, n)
    BY <1>4 DEF NarrowBlock
  <2>2. PICK n \in 1 .. size[h] - p : ResizeBlock(h, p, n)
    BY <2>1
  <2>3. mem' = mem
    BY <2>2 DEF PoolStep, ResizeBlock
  <2>4. QED BY <1>4, <2>2, <2>3, ResizeNarrow DEF Abstract!Next
<1>5. QED BY <1>1, <1>2, <1>3, <1>4 DEF PoolStep

(***************************************************************************)
(* Accesses to the bytes.                                                  *)
(***************************************************************************)

(* A step that writes the len given bytes behind p in block h.             *)
PutAt(h, p, len, bytes) ==
  /\ UNCHANGED vars
  /\ h \in owned /\ p \in 0 .. size[h] - 1 /\ len \in 1 .. size[h] - p /\ DOMAIN bytes = 0 .. len - 1
  /\ \A a \in Cells : mem'[a] = IF a \in begin[h] + p .. begin[h] + p + len - 1
                                 THEN bytes[a - (begin[h] + p)] ELSE mem[a]

(* A write of bytes inside one block replaces them and no others.          *)
LEMMA PutMaps ==
  ASSUME StoreInv, NEW h, NEW p, NEW len, NEW bytes, PutAt(h, p, len, bytes)
  PROVE  h \in owned /\ store' = [store EXCEPT ![h] = Abstract!Put(@, p, bytes)]
<1> USE DEF StoreInv
<1>0. /\ UNCHANGED vars
      /\ h \in owned /\ p \in 0 .. size[h] - 1 /\ len \in 1 .. size[h] - p /\ DOMAIN bytes = 0 .. len - 1
      /\ \A a \in Cells : mem'[a] = IF a \in begin[h] + p .. begin[h] + p + len - 1
                                     THEN bytes[a - (begin[h] + p)] ELSE mem[a]
  BY DEF PutAt
<1>1. begin' = begin /\ size' = size /\ owned' = owned
  BY <1>0 DEF vars, blockVars
<1>2. begin[h] \in Nat /\ size[h] \in Nat /\ size[h] > 0
  BY <1>0, BlockCells
<1>3. ASSUME NEW k \in owned, k # h PROVE Content(k)' = Content(k)
  <2>1. ASSUME NEW j \in 0 .. size[k] - 1 PROVE mem'[begin[k] + j] = mem[begin[k] + j]
    <3>1. begin[k] + j \in Cells /\ begin[k] \in Nat /\ size[k] \in Nat
      BY BlockCells
    <3>2. begin[k] + j \notin begin[h] + p .. begin[h] + p + len - 1
      <4>1. EndOf(h) <= begin[k] \/ EndOf(k) <= begin[h]
        BY <1>0, <1>3, InvNoOverlap DEF NoOverlap
      <4>2. /\ p \in Nat /\ len \in Nat /\ p + len <= size[h] /\ j \in Nat /\ j < size[k]
            /\ EndOf(h) = begin[h] + size[h] /\ EndOf(k) = begin[k] + size[k]
        BY <1>0, <1>2, <3>1, BlockCells
      <4>3. QED BY <4>1, <4>2, <3>1, <1>2
    <3>3. QED BY <3>1, <3>2, <1>0
  <2>2. QED BY <2>1, <1>1 DEF Content
<1>4. Content(h)' = Abstract!Put(Content(h), p, bytes)
  <2>1. ASSUME NEW j \in 0 .. size[h] - 1
        PROVE  mem'[begin[h] + j] = IF j - p \in DOMAIN bytes THEN bytes[j - p] ELSE Content(h)[j]
    <3>1. begin[h] + j \in Cells /\ Content(h)[j] = mem[begin[h] + j]
      BY <1>0, BlockCells DEF Content
    <3>2. /\ (begin[h] + j) - (begin[h] + p) = j - p
          /\ begin[h] + j \in begin[h] + p .. begin[h] + p + len - 1 <=> j - p \in 0 .. len - 1
      BY <1>0, <1>2
    <3>3. QED BY <1>0, <3>1, <3>2
  <2>2. DOMAIN Content(h) = 0 .. size[h] - 1
    BY DEF Content
  <2>3. Content(h)' = [j \in 0 .. size[h] - 1 |-> mem'[begin[h] + j]]
    BY <1>1 DEF Content
  <2>4. QED BY <2>1, <2>2, <2>3 DEF Abstract!Put
<1>5. QED BY <1>0, <1>1, <1>3, <1>4 DEF store

LEMMA WriteMaps ==
  ASSUME StoreInv, NEW h \in owned, NEW p \in 0 .. size[h], NEW len \in Nat \ {0}, NEW v \in Bytes,
         WritePacket(h, p, len, v)
  PROVE  Abstract!Next
<1> USE DEF StoreInv
<1>1. /\ begin[h] \in Nat /\ size[h] \in Nat /\ size[h] > 0 /\ UNCHANGED vars
  BY BlockCells DEF WritePacket
<1>2. PICK m : m = Clipped(h, p, len)
  OBVIOUS
<1>3. m \in Nat /\ m <= size[h] - p /\ (m = 0 => p = size[h])
  BY <1>1, <1>2 DEF Clipped
<1>4. mem' = [a \in Cells |-> IF a \in begin[h] + p .. begin[h] + p + m - 1 THEN v ELSE mem[a]]
  BY <1>2 DEF WritePacket
<1>5. CASE m = 0
  <2>1. \A a \in Cells : a \notin begin[h] + p .. begin[h] + p + m - 1
    BY <1>1, <1>5
  <2>2. mem' = mem
    BY <2>1, <1>4 DEF StoreTypeOK
  <2>3. store' = store
    BY <1>1, <2>2, SameBytes DEF vars, blockVars
  <2>4. subject' \in DOMAIN store
    BY DEF WritePacket, store
  <2>5. QED BY <2>3, <2>4 DEF Abstract!Next, Abstract!Nothing
<1>6. CASE m > 0
  <2>1. PICK bytes : bytes = [i \in 0 .. m - 1 |-> v]
    OBVIOUS
  <2>2. DOMAIN bytes = 0 .. m - 1 /\ p \in 0 .. size[h] - 1 /\ m \in 1 .. size[h] - p
    BY <2>1, <1>1, <1>3, <1>6
  <2>3. \A a \in Cells : a \in begin[h] + p .. begin[h] + p + m - 1 => bytes[a - (begin[h] + p)] = v
    BY <2>1, <1>1, <1>3
  <2>4. PutAt(h, p, m, bytes)
    BY <1>1, <1>4, <2>2, <2>3 DEF PutAt
  <2>5. store' = [store EXCEPT ![h] = Abstract!Put(@, p, bytes)]
    BY <2>4, PutMaps
  <2>6. h \in DOMAIN store /\ DOMAIN store[h] = 0 .. size[h] - 1
    BY DEF store, Content
  <2>7. PICK n : n = m - 1
    OBVIOUS
  <2>8. n \in DOMAIN store[h] /\ bytes = [i \in 0 .. n |-> v]
    BY <2>1, <2>2, <2>6, <2>7, <1>1, <1>3
  <2>9. Abstract!Write
    <3>1. store' = [store EXCEPT ![h] = Abstract!Put(@, p, [i \in 0 .. n |-> v])]
      BY <2>5, <2>8
    <3>2. p \in DOMAIN store[h]
      BY <2>2, <2>6
    <3>3. subject' = h
      BY DEF WritePacket
    <3>4. QED BY <3>1, <3>2, <3>3, <2>6, <2>8 DEF Abstract!Write
  <2>10. QED BY <2>9 DEF Abstract!Next
<1>7. QED BY <1>3, <1>5, <1>6

LEMMA CopyMaps ==
  ASSUME StoreInv, NEW h \in owned, NEW k \in owned, NEW p \in 0 .. size[h],
         p + size[k] = size[h], CopyPacket(h, p, k)
  PROVE  Abstract!Next
<1> USE DEF StoreInv
<1>1. /\ begin[h] \in Nat /\ size[h] \in Nat /\ begin[k] \in Nat /\ size[k] \in Nat
      /\ size[k] > 0 /\ UNCHANGED vars
  BY BlockCells DEF CopyPacket
<1>2. p \in 0 .. size[h] - 1 /\ size[k] \in 1 .. size[h] - p
  BY <1>1
<1>3. PICK bytes : bytes = Content(k)
  OBVIOUS
<1>4. DOMAIN bytes = 0 .. size[k] - 1 /\ \A i \in 0 .. size[k] - 1 : bytes[i] = mem[begin[k] + i]
  BY <1>3 DEF Content
<1>5. ASSUME NEW a \in Cells, a \in begin[h] + p .. begin[h] + p + size[k] - 1
      PROVE  mem[begin[k] + (a - (begin[h] + p))] = bytes[a - (begin[h] + p)]
  <2>1. a - (begin[h] + p) \in 0 .. size[k] - 1
    BY <1>1, <1>2, <1>5
  <2>2. QED BY <2>1, <1>4
<1>6. PutAt(h, p, size[k], bytes)
  BY <1>1, <1>2, <1>4, <1>5 DEF PutAt, CopyPacket, Moved
<1>7. store' = [store EXCEPT ![h] = Abstract!Put(@, p, bytes)]
  BY <1>6, PutMaps
<1>8. h \in DOMAIN store /\ k \in DOMAIN store /\ p \in DOMAIN store[h] /\ bytes = store[k]
  BY <1>2, <1>3 DEF store, Content
<1>9. subject' = h
  BY DEF CopyPacket
<1>10. QED BY <1>7, <1>8, <1>9 DEF Abstract!Next, Abstract!Copy

(* sendPacket leaves every byte as it was.                                 *)
LEMMA SendMaps == ASSUME StoreInv, NEW h \in owned, SendPacket(h) PROVE mem' = mem /\ store' = store
<1> USE DEF StoreInv
<1>1. PICK at : at = begin[h] - 1
  OBVIOUS
<1>2. mem' = IF mem[at] # 0 THEN [[mem EXCEPT ![at] = 0] EXCEPT ![at] = mem[at]] ELSE mem
  BY <1>1 DEF SendPacket, Restored
<1>3. mem' = mem
  BY <1>2 DEF StoreTypeOK
<1>4. QED BY <1>3, SameBytes DEF SendPacket, vars, blockVars

(***************************************************************************)
(* The invariant, and the theorem.                                         *)
(***************************************************************************)
LEMMA InitStoreInv == StoreInit => StoreInv
BY InitIInv DEF StoreInit, StoreInv, StoreTypeOK, Init

LEMMA AccessMaps ==
  ASSUME StoreInv, Access
  PROVE  UNCHANGED vars /\ Abstract!Next
<1>1. ASSUME NEW h \in owned, NEW p \in 0 .. size[h], NEW len \in Requests, NEW v \in Bytes,
             WritePacket(h, p, len, v)
      PROVE  UNCHANGED vars /\ Abstract!Next
  BY <1>1, WriteMaps, Numbers DEF WritePacket
<1>2. ASSUME NEW h \in owned, NEW k \in owned, NEW p \in 0 .. size[h],
             p + size[k] = size[h], CopyPacket(h, p, k)
      PROVE  UNCHANGED vars /\ Abstract!Next
  BY <1>2, CopyMaps DEF CopyPacket
<1>3. ASSUME NEW h \in owned, NEW v \in Bytes, FillPacket(h, v)
      PROVE  UNCHANGED vars /\ Abstract!Next
  <2>1. size[h] \in Nat \ {0} /\ 0 \in 0 .. size[h] /\ WritePacket(h, 0, size[h], v)
    BY <1>3, BlockCells DEF StoreInv, FillPacket
  <2>2. QED BY <2>1, WriteMaps DEF WritePacket
<1>4. ASSUME NEW h \in owned, SendPacket(h) PROVE UNCHANGED vars /\ Abstract!Next
  BY <1>4, SendMaps DEF SendPacket, Abstract!Next, Abstract!Nothing
<1>5. QED BY <1>1, <1>2, <1>3, <1>4 DEF Access

LEMMA AccessType == ASSUME StoreInv, Access PROVE StoreTypeOK'
<1> USE DEF StoreInv, StoreTypeOK
<1>1. ASSUME NEW h \in owned, NEW p, NEW len, NEW v \in Bytes, WritePacket(h, p, len, v)
      PROVE  StoreTypeOK'
  BY <1>1 DEF WritePacket
<1>2. ASSUME NEW h \in owned, NEW k \in owned, NEW p \in 0 .. size[h],
             p + size[k] = size[h], CopyPacket(h, p, k)
      PROVE  StoreTypeOK'
  <2>1. /\ begin[h] \in Nat /\ size[h] \in Nat /\ begin[k] \in Nat /\ size[k] \in Nat
        /\ \A i \in 0 .. size[k] - 1 : begin[k] + i \in Cells
    BY BlockCells
  <2>2. ASSUME NEW a \in Cells, a \in begin[h] + p .. begin[h] + p + size[k] - 1
        PROVE  mem[begin[k] + (a - (begin[h] + p))] \in Bytes
    <3>1. a - (begin[h] + p) \in 0 .. size[k] - 1
      BY <2>1, <2>2
    <3>2. QED BY <3>1, <2>1
  <2>3. QED BY <1>2, <2>2 DEF CopyPacket, Moved
<1>3. ASSUME NEW h \in owned, SendPacket(h) PROVE StoreTypeOK'
  BY <1>3, SendMaps
<1>4. QED BY <1>1, <1>2, <1>3 DEF Access, FillPacket

LEMMA PoolType == ASSUME StoreInv, PoolStep PROVE StoreTypeOK'
<1> USE DEF StoreInv, StoreTypeOK
<1>1. CASE pc = "collect" /\ nextblock[cur] # NoBlock
  <2>1. PICK c, n : c = cur /\ n = nextblock[cur]
    OBVIOUS
  <2>2. n \in owned /\ c \in Descriptors
    BY <1>1, <2>1, NodeFacts DEF IInv, ListInv, LinkInv, CallInv
  <2>3. EndOf(c) \in Nat /\ begin[n] \in Nat /\ size[n] \in Nat /\ \A i \in 0 .. size[n] - 1 : begin[n] + i \in Cells
    BY <2>2, NodeFacts, BlockCells DEF IInv
  <2>4. ASSUME NEW a \in Cells, a \in EndOf(c) .. EndOf(c) + size[n] - 1
        PROVE  mem[begin[n] + (a - EndOf(c))] \in Bytes
    <3>1. a - EndOf(c) \in 0 .. size[n] - 1
      BY <2>3, <2>4
    <3>2. QED BY <3>1, <2>3
  <2>5. mem' = Moved(EndOf(c), begin[n], size[n])
    BY <1>1, <2>1 DEF PoolStep
  <2>6. QED BY <2>4, <2>5 DEF Moved
<1>2. CASE ~(pc = "collect" /\ nextblock[cur] # NoBlock)
  BY <1>2 DEF PoolStep
<1>3. QED BY <1>1, <1>2

LEMMA ArgRequested ==
  ASSUME StoreInv, Next
  PROVE  pc' \in {"scan", "collect", "found"} => arg' \in Requests
<1>1. ASSUME Call PROVE pc' \in {"scan", "collect", "found"} => arg' \in Requests
  BY <1>1 DEF StoreInv, Call, AllocBlock, FreeBlock, Narrow, NarrowBlock, ResizeBlock, callVars
<1>2. ASSUME Step PROVE pc' \in {"scan", "collect", "found"} => arg' \in Requests
  BY <1>2 DEF StoreInv, Step, ScanExact, ScanNext, CollectMove, CollectDone, CollectFail, Place,
              NoDescriptor, FreeNext, Unlink, FreeNotFound, Return
<1>3. QED BY <1>1, <1>2 DEF Next

LEMMA NextStoreInv == ASSUME StoreInv, [StoreNext]_storeVars PROVE StoreInv'
<1>1. IInv'
  BY NextIInv, PoolStepNext, AccessMaps DEF StoreInv, StoreNext, storeVars
<1>2. StoreTypeOK'
  BY PoolType, AccessType DEF StoreInv, StoreNext, storeVars, StoreTypeOK
<1>3. pc' \in {"scan", "collect", "found"} => arg' \in Requests
  <2>1. ASSUME UNCHANGED vars PROVE pc' \in {"scan", "collect", "found"} => arg' \in Requests
    BY <2>1 DEF StoreInv, vars, callVars
  <2>2. QED BY <2>1, ArgRequested, PoolStepNext, AccessMaps DEF StoreNext, storeVars
<1>4. QED BY <1>1, <1>2, <1>3 DEF StoreInv

LEMMA StepImplements == ASSUME StoreInv, [StoreNext]_storeVars PROVE [Abstract!Next]_<<store, subject>>
<1>1. StoreInv'
  BY NextStoreInv
<1>2. ASSUME PoolStep PROVE [Abstract!Next]_<<store, subject>>
  BY <1>1, <1>2, PoolStepMaps DEF StoreInv
<1>3. ASSUME Access PROVE [Abstract!Next]_<<store, subject>>
  BY <1>3, AccessMaps
<1>4. ASSUME UNCHANGED storeVars PROVE UNCHANGED <<store, subject>>
  BY <1>4, SameBytes DEF storeVars, vars, blockVars
<1>5. QED BY <1>2, <1>3, <1>4 DEF StoreNext

LEMMA InitImplements == StoreInit => Abstract!Init
BY DEF StoreInit, Init, Abstract!Init, store

(* The memory is one block of bytes per handle: whatever the allocator     *)
(* moves or hands out, whatever is sent, copied or written, no handle's    *)
(* bytes change but those of the handle that is operated on.               *)
THEOREM StoreImplements == StoreSpec => KeepsBlocks
<1>1. StoreSpec => []StoreInv
  BY InitStoreInv, NextStoreInv, PTL DEF StoreSpec
<1>2. QED BY <1>1, InitImplements, StepImplements, PTL DEF StoreSpec, KeepsBlocks, Abstract!Spec
-------------------------------------------------------------------------------
(***************************************************************************)
(* The receive ring                                                        *)
(*                                                                         *)
(* Addresses go round; what does not is how far an address lies ahead of   *)
(* rdptr, as long as rdptr stays (Ahead).  Counted that way the frames kept*)
(* lie one behind the other in front of wrptr (OrderInv), and the cells of *)
(* each are its own (RamInv).  A frame arrives behind all of them and ends *)
(* at most one address short of rdptr; moving rdptr to the next frame      *)
(* shifts them all by as much.  The one position from which that would be  *)
(* wrong is one where the ring is full to the last address, and frames     *)
(* start at even ones.                                                     *)
(***************************************************************************)

Ahead(r, a) == IF a >= r THEN a - r ELSE a - r + RingSize

Frame == [start : Addresses, next : Addresses, len : Nat, ok : BOOLEAN]
Last == Len(arrived)
StartOf(frames, end, i) == IF i <= Len(frames) THEN frames[i].start ELSE end
Size(frames, i) == Footprint(frames[i].len)

(* The frames that the library has yet to read, or is reading.             *)
Kept == {i \in 1 .. Last : i > current \/ (i = current /\ rxpc \in {"header", "held"})}

TypeInv ==
  /\ arrived \in Seq(Frame) /\ ram \in [Addresses -> Int]
  /\ wrptr \in Addresses /\ rdptr \in Addresses /\ nextPacketPtr \in Addresses
  /\ pktcnt \in Int /\ current \in 0 .. Last
  /\ wrptr % 2 = 0 /\ \A i \in 1 .. Last : arrived[i].start % 2 = 0

NextInv ==
  /\ nextPacketPtr = StartOf(arrived, wrptr, current + 1)
  /\ \A i \in 1 .. Last : arrived[i].next = StartOf(arrived, wrptr, i + 1)

OrderInv ==
  \A i \in Kept : \A j \in 1 .. Last + 1 :
    i < j => Ahead(rdptr, StartOf(arrived, wrptr, i)) + Size(arrived, i) <= Ahead(rdptr, StartOf(arrived, wrptr, j))

RamInv ==
  \A i \in Kept : \A a \in Addresses :
    /\ Ahead(rdptr, StartOf(arrived, wrptr, i)) <= Ahead(rdptr, a)
    /\ Ahead(rdptr, a) < Ahead(rdptr, StartOf(arrived, wrptr, i)) + Size(arrived, i)
    => ram[a] = i

CountInv == pktcnt = Last - current + (IF rxpc = "header" THEN 1 ELSE 0)

RingInv == TypeInv /\ NextInv /\ OrderInv /\ RamInv /\ CountInv /\ NothingLeaks
-------------------------------------------------------------------------------
(***************************************************************************)
(* Addresses                                                               *)
(***************************************************************************)
LEMMA ModRing ==
  ASSUME NEW a \in Int, NEW n \in Nat, n > 0, -n <= a, a < 2 * n
  PROVE  a % n = IF a < 0 THEN a + n ELSE IF a < n THEN a ELSE a - n
<1>1. CASE a < 0
  OBVIOUS
<1>2. CASE 0 <= a /\ a < n
  OBVIOUS
<1>3. CASE n <= a
  OBVIOUS
<1> QED BY <1>1, <1>2, <1>3

LEMMA RingIs == RingSize \in Nat /\ RingSize > 1 /\ RingSize % 2 = 0 /\ Addresses = 0 .. RingSize - 1 /\ RxStop = RingSize - 1
BY RingAssumption DEF RingSize, Addresses

LEMMA FootprintIs ==
  ASSUME NEW len \in Nat PROVE Footprint(len) \in Nat /\ Footprint(len) > 0 /\ Footprint(len) % 2 = 0
BY DEF Footprint, HeaderSize, CrcSize

LEMMA AheadIs == ASSUME NEW r \in Addresses, NEW a \in Addresses 
  PROVE Ahead(r, a) \in Int /\ 0 <= Ahead(r, a) /\ Ahead(r, a) <= RxStop /\ Ahead(r, a) < RingSize
BY RingIs DEF Ahead

LEMMA EvenAdds ==
  ASSUME NEW a \in Int, NEW b \in Int, NEW c \in Int, a % 2 = 0, b % 2 = 0, c % 2 = 0
  PROVE  (a + b) % 2 = 0 /\ (a + b - c) % 2 = 0
OBVIOUS

LEMMA AddRound ==
  ASSUME NEW a \in Addresses, NEW k \in Nat, k < RingSize
  PROVE  (a + k) % RingSize = IF a + k < RingSize THEN a + k ELSE a + k - RingSize
BY RingIs, ModRing

(* Going on from an address, without passing rdptr.                        *)
LEMMA AheadAdds ==
  ASSUME NEW r \in Addresses, NEW a \in Addresses, NEW k \in Nat, Ahead(r, a) + k <= RxStop
  PROVE  (a + k) % RingSize \in Addresses /\ Ahead(r, (a + k) % RingSize) = Ahead(r, a) + k
<1>1. k < RingSize
  <2>1. Ahead(r, a) \in Int /\ 0 <= Ahead(r, a)
    BY AheadIs
  <2> QED BY <2>1, RingIs
<1>2. (a + k) % RingSize = IF a + k < RingSize THEN a + k ELSE a + k - RingSize
  BY <1>1, AddRound
<1> QED BY <1>1, <1>2, RingIs DEF Ahead

(* How far it is from one address to another.                              *)
LEMMA AheadSubtracts ==
  ASSUME NEW r \in Addresses, NEW a \in Addresses, NEW b \in Addresses
  PROVE  (a - b) % RingSize = IF Ahead(r, a) >= Ahead(r, b) THEN Ahead(r, a) - Ahead(r, b)
                              ELSE Ahead(r, a) - Ahead(r, b) + RingSize
<1>1. (a - b) % RingSize = IF a - b < 0 THEN a - b + RingSize ELSE a - b
  BY RingIs, ModRing
<1> QED BY <1>1, RingIs DEF Ahead

(* rdptr moves to the address in front of b.                               *)
LEMMA AheadMoves ==
  ASSUME NEW r \in Addresses, NEW b \in Addresses, NEW a \in Addresses,
         NEW new, new = IF b = 0 THEN RxStop ELSE b - 1
  PROVE  Ahead(new, a) = IF Ahead(r, a) - Ahead(r, b) + 1 < 0 THEN Ahead(r, a) - Ahead(r, b) + 1 + RingSize
                         ELSE IF Ahead(r, a) - Ahead(r, b) + 1 < RingSize THEN Ahead(r, a) - Ahead(r, b) + 1
                         ELSE Ahead(r, a) - Ahead(r, b) + 1 - RingSize
BY RingIs DEF Ahead

LEMMA RoomIs == ASSUME TypeInv PROVE FreeSpace = RxStop - Ahead(rdptr, wrptr)
BY RingIs DEF TypeInv, FreeSpace, Ahead, RingSize
-------------------------------------------------------------------------------
(***************************************************************************)
(* The invariant                                                           *)
(***************************************************************************)
LEMMA StartIs == ASSUME TypeInv, NEW i \in 1 .. Last + 1 PROVE StartOf(arrived, wrptr, i) \in Addresses /\ StartOf(arrived, wrptr, i) % 2 = 0
<1>1. CASE i = Last + 1
  <2>1. Last \in Nat
    BY DEF TypeInv, Last
  <2> QED BY <1>1, <2>1 DEF TypeInv, StartOf, Last
<1>2. CASE i # Last + 1
  <2>1. i \in 1 .. Last /\ Last \in Nat
    BY <1>2 DEF TypeInv, Last
  <2>2. arrived[i] \in Frame
    BY <2>1 DEF TypeInv, Last
  <2> QED BY <2>1, <2>2 DEF TypeInv, StartOf, Frame, Last
<1> QED BY <1>1, <1>2

LEMMA SizeIs == ASSUME TypeInv, NEW i \in 1 .. Last PROVE Size(arrived, i) \in Nat /\ Size(arrived, i) > 0 /\ arrived[i] \in Frame
<1>1. arrived[i] \in Frame
  BY DEF TypeInv, Last
<1>2. arrived[i].len \in Nat
  BY <1>1 DEF Frame
<1> QED BY <1>1, <1>2, FootprintIs DEF Size

(* From the next frame on, frames lie between nextPacketPtr and wrptr.     *)
LEMMA BehindNext ==
  ASSUME TypeInv, NextInv, OrderInv, NEW i \in 1 .. Last + 1, i > current
  PROVE  /\ Ahead(rdptr, nextPacketPtr) <= Ahead(rdptr, StartOf(arrived, wrptr, i))
         /\ Ahead(rdptr, StartOf(arrived, wrptr, i)) <= Ahead(rdptr, wrptr)
<1>1. Last \in Nat /\ current \in 0 .. Last /\ rdptr \in Addresses /\ wrptr = StartOf(arrived, wrptr, Last + 1)
  BY DEF TypeInv, Last, StartOf
<1>2. \A j \in 1 .. Last + 1 : Ahead(rdptr, StartOf(arrived, wrptr, j)) \in Int
  BY <1>1, StartIs, AheadIs, RingIs
<1>3. Ahead(rdptr, nextPacketPtr) <= Ahead(rdptr, StartOf(arrived, wrptr, i))
  <2>1. CASE i = current + 1
    BY <2>1, <1>2 DEF NextInv
  <2>2. CASE i # current + 1
    <3>1. current + 1 \in Kept /\ current + 1 < i /\ current + 1 \in 1 .. Last
      BY <1>1, <2>2 DEF Kept
    <3>2. Ahead(rdptr, StartOf(arrived, wrptr, current + 1)) + Size(arrived, current + 1) <= Ahead(rdptr, StartOf(arrived, wrptr, i))
      BY <3>1 DEF OrderInv
    <3> QED BY <3>1, <3>2, <1>1, <1>2, SizeIs DEF NextInv
  <2> QED BY <2>1, <2>2
<1>4. Ahead(rdptr, StartOf(arrived, wrptr, i)) <= Ahead(rdptr, wrptr)
  <2>1. CASE i = Last + 1
    BY <2>1, <1>1, <1>2
  <2>2. CASE i # Last + 1
    <3>1. i \in Kept /\ i < Last + 1 /\ i \in 1 .. Last
      BY <1>1, <2>2 DEF Kept
    <3>2. Ahead(rdptr, StartOf(arrived, wrptr, i)) + Size(arrived, i) <= Ahead(rdptr, StartOf(arrived, wrptr, Last + 1))
      BY <3>1, <1>1 DEF OrderInv
    <3> QED BY <3>1, <3>2, <1>1, <1>2, SizeIs
  <2> QED BY <2>1, <2>2
<1> QED BY <1>3, <1>4

LEMMA InitInv == RingInit => RingInv
<1> SUFFICES ASSUME RingInit PROVE RingInv
  OBVIOUS
<1>1. Last = 0 /\ Kept = {} /\ current = 0 /\ 0 \in Addresses
  BY RingIs DEF RingInit, Last, Kept
<1>2. TypeInv
  BY <1>1 DEF RingInit, TypeInv, Last
<1> QED BY <1>1, <1>2 DEF RingInit, RingInv, NextInv, OrderInv, RamInv, CountInv, NothingLeaks, StartOf, Last

(* A frame arrives behind all others.                                      *)
LEMMA ArrivesInv ==
  ASSUME RingInv, NEW len \in Lengths, NEW ok \in BOOLEAN, FrameArrives(len, ok)
  PROVE  RingInv'
<1> DEFINE n == Last
           f == Footprint(len)
           frame == [start |-> wrptr, next |-> wrptr', len |-> len, ok |-> ok]
<1>1. /\ n \in Nat /\ wrptr \in Addresses /\ rdptr \in Addresses /\ TypeInv
      /\ UNCHANGED <<rdptr, nextPacketPtr, current, rxpc>>
  BY DEF RingInv, TypeInv, Last, FrameArrives
<1>2. f \in Nat /\ f > 0 /\ f % 2 = 0 /\ len \in Nat
  BY FootprintIs, RingAssumption
<1>3. Ahead(rdptr, wrptr) + f <= RxStop
  <2>1. FreeSpace = RxStop - Ahead(rdptr, wrptr) /\ f <= FreeSpace
    BY <1>1, RoomIs DEF FrameArrives
  <2>2. Ahead(rdptr, wrptr) \in Int
    BY <1>1, AheadIs
  <2> QED BY <2>1, <2>2, <1>2, RingIs
<1>4. wrptr' \in Addresses /\ Ahead(rdptr, wrptr') = Ahead(rdptr, wrptr) + f
  BY <1>1, <1>2, <1>3, AheadAdds DEF FrameArrives
<1>5. wrptr' % 2 = 0
  <2>1. wrptr' = IF wrptr + f < RingSize THEN wrptr + f ELSE wrptr + f - RingSize
    <3>1. f < RingSize
      <4>1. Ahead(rdptr, wrptr) \in Int /\ 0 <= Ahead(rdptr, wrptr)
        BY <1>1, AheadIs
      <4> QED BY <4>1, <1>2, <1>3, RingIs
    <3> QED BY <3>1, <1>1, <1>2, AddRound DEF FrameArrives
  <2>2. wrptr % 2 = 0 /\ wrptr \in Int
    BY <1>1, RingIs DEF TypeInv
  <2>3. (wrptr + f) % 2 = 0 /\ (wrptr + f - RingSize) % 2 = 0
    BY <2>2, <1>2, RingIs, EvenAdds
  <2> QED BY <2>1, <2>3
<1>6. frame \in Frame /\ arrived' = Append(arrived, frame)
  BY <1>1, <1>2, <1>4 DEF FrameArrives, Frame
<1>7. /\ arrived' \in Seq(Frame) /\ Last' = n + 1
      /\ \A i \in 1 .. n : arrived'[i] = arrived[i]
      /\ arrived'[n + 1] = frame
  BY <1>1, <1>6 DEF TypeInv, Last
<1>8. /\ \A i \in 1 .. n + 1 : StartOf(arrived', wrptr', i) = StartOf(arrived, wrptr, i)
      /\ StartOf(arrived', wrptr', n + 2) = wrptr' /\ StartOf(arrived, wrptr, n + 1) = wrptr
  BY <1>1, <1>7 DEF StartOf, Last
<1>9. \A i \in 1 .. n : Size(arrived', i) = Size(arrived, i)
  BY <1>7 DEF Size
<1>10. Size(arrived', n + 1) = f
  <2>1. arrived'[n + 1].len = len
    BY <1>7
  <2> QED BY <2>1 DEF Size
<1>11. Kept' \subseteq Kept \union {n + 1} /\ Kept \subseteq 1 .. n
  BY <1>1, <1>7 DEF Kept
<1>12. \A a \in Addresses : ram'[a] = IF (a - wrptr) % RingSize < f THEN n + 1 ELSE ram[a]
  BY <1>7 DEF FrameArrives, Last
<1>13. TypeInv'
  <2>1. ram' \in [Addresses -> Int]
    BY <1>1, <1>7 DEF FrameArrives, TypeInv, Last
  <2>2. pktcnt' \in Int /\ current' \in 0 .. Last'
    BY <1>1, <1>7 DEF FrameArrives, TypeInv
  <2>3. \A i \in 1 .. n + 1 : arrived'[i].start % 2 = 0
    <3>1. \A i \in 1 .. n : arrived'[i].start % 2 = 0
      BY <1>7 DEF TypeInv, RingInv
    <3>2. arrived'[n + 1].start % 2 = 0
      BY <1>1, <1>7 DEF TypeInv
    <3> QED BY <3>1, <3>2, <1>1
  <2> QED BY <2>1, <2>2, <2>3, <1>1, <1>4, <1>5, <1>7 DEF TypeInv
<1>14. NextInv'
  <2>1. nextPacketPtr' = StartOf(arrived', wrptr', current' + 1)
    BY <1>1, <1>8 DEF RingInv, NextInv, TypeInv
  <2>2. \A i \in 1 .. Last' : arrived'[i].next = StartOf(arrived', wrptr', i + 1)
    BY <1>1, <1>7, <1>8 DEF RingInv, NextInv
  <2> QED BY <2>1, <2>2 DEF NextInv
<1>15. \A i \in 1 .. n + 1 : Ahead(rdptr, StartOf(arrived, wrptr, i)) \in Int
  BY <1>1, StartIs, AheadIs
<1>16. OrderInv'
  <2>1. SUFFICES ASSUME NEW i \in Kept', NEW j \in 1 .. n + 2, i < j
                 PROVE  Ahead(rdptr, StartOf(arrived', wrptr', i)) + Size(arrived', i) <= Ahead(rdptr, StartOf(arrived', wrptr', j))
    BY <1>1, <1>7 DEF OrderInv
  <2>2. CASE i \in Kept
    <3>1. i \in 1 .. n /\ Size(arrived, i) \in Nat
      BY <2>2, <1>1, <1>11, SizeIs
    <3>2. \A k \in 1 .. n + 1 : i < k => Ahead(rdptr, StartOf(arrived, wrptr, i)) + Size(arrived, i) <= Ahead(rdptr, StartOf(arrived, wrptr, k))
      BY <2>2 DEF RingInv, OrderInv
    <3>3. CASE j \in 1 .. n + 1
      <4>1. /\ StartOf(arrived', wrptr', i) = StartOf(arrived, wrptr, i)
            /\ StartOf(arrived', wrptr', j) = StartOf(arrived, wrptr, j)
            /\ Size(arrived', i) = Size(arrived, i)
        BY <3>1, <3>3, <1>1, <1>8, <1>9
      <4> QED BY <4>1, <3>2, <3>3, <2>1
    <3>4. CASE j = n + 2
      <4>1. Ahead(rdptr, StartOf(arrived, wrptr, i)) + Size(arrived, i) <= Ahead(rdptr, wrptr)
        BY <3>1, <3>2, <1>1, <1>8
      <4> QED BY <4>1, <3>1, <3>4, <1>1, <1>2, <1>4, <1>8, <1>9, <1>15, RingIs
    <3> QED BY <3>3, <3>4, <1>1
  <2>3. CASE i = n + 1
    BY <2>1, <2>3, <1>1, <1>2, <1>4, <1>8, <1>10, <1>15, RingIs
  <2> QED BY <2>2, <2>3, <1>11
<1>17. RamInv'
  <2>1. SUFFICES ASSUME NEW i \in Kept', NEW a \in Addresses,
                        Ahead(rdptr, StartOf(arrived', wrptr', i)) <= Ahead(rdptr, a),
                        Ahead(rdptr, a) < Ahead(rdptr, StartOf(arrived', wrptr', i)) + Size(arrived', i)
                 PROVE  ram'[a] = i
    BY <1>1 DEF RamInv
  <2> DEFINE x == Ahead(rdptr, a)
             w == Ahead(rdptr, wrptr)
  <2>2. x \in Int /\ 0 <= x /\ x < RingSize /\ w \in Int /\ 0 <= w /\ w < RingSize
    BY <1>1, AheadIs
  <2>3. (a - wrptr) % RingSize = IF x >= w THEN x - w ELSE x - w + RingSize
    BY <1>1, AheadSubtracts
  <2> HIDE DEF x, w
  <2>4. CASE i \in Kept
    <3>1. i \in 1 .. n /\ Size(arrived, i) \in Nat
      BY <2>4, <1>1, <1>11, SizeIs
    <3>2. Ahead(rdptr, StartOf(arrived, wrptr, i)) + Size(arrived, i) <= w
      BY <2>4, <3>1, <1>1, <1>8 DEF RingInv, OrderInv, w
    <3>3. StartOf(arrived', wrptr', i) = StartOf(arrived, wrptr, i) /\ Size(arrived', i) = Size(arrived, i)
      BY <3>1, <1>1, <1>8, <1>9
    <3>4. x < w
      <4>1. Ahead(rdptr, StartOf(arrived, wrptr, i)) \in Int /\ x < Ahead(rdptr, StartOf(arrived, wrptr, i)) + Size(arrived, i)
        BY <3>1, <3>3, <2>1, <1>1, <1>15 DEF x
      <4> QED BY <4>1, <3>1, <3>2, <2>2
    <3>5. ~((a - wrptr) % RingSize < f)
      BY <3>4, <2>2, <2>3, <1>2, <1>3, RingIs DEF w
    <3>6. ram[a] = i
      BY <2>1, <2>4, <3>3 DEF RingInv, RamInv
    <3> QED BY <3>5, <3>6, <1>12
  <2>5. CASE i = n + 1
    <3>1. w <= x /\ x < w + f
      BY <2>1, <2>5, <1>1, <1>8, <1>10 DEF x, w
    <3>2. (a - wrptr) % RingSize < f
      BY <3>1, <2>2, <2>3, <1>2, RingIs
    <3> QED BY <3>2, <2>5, <1>12
  <2> QED BY <2>4, <2>5, <1>11
<1>18. CountInv' /\ NothingLeaks'
  BY <1>1, <1>7 DEF FrameArrives, RingInv, TypeInv, CountInv, NothingLeaks
<1> QED BY <1>13, <1>14, <1>16, <1>17, <1>18 DEF RingInv

(* The library goes on, and rdptr stays where it is.                       *)
LEMMA StaysInv ==
  ASSUME RingInv, UNCHANGED <<hwVars, rdptr>>, Kept' \subseteq Kept
  PROVE  OrderInv' /\ RamInv'
<1>1. arrived' = arrived /\ ram' = ram /\ wrptr' = wrptr /\ rdptr' = rdptr /\ Last' = Last
  BY DEF hwVars, Last
<1> QED BY <1>1 DEF RingInv, OrderInv, RamInv

LEMMA ReadHeaderInv == ASSUME RingInv, ReadHeader PROVE RingInv'
<1>1. /\ arrived' = arrived /\ wrptr' = wrptr /\ Last' = Last /\ pktcnt' = pktcnt
      /\ UNCHANGED <<hwVars, rdptr>> /\ rxpc = "idle" /\ rxpc' = "header"
  BY DEF ReadHeader, hwVars, Last
<1>2. TypeInv /\ Last \in Nat /\ current \in 0 .. Last /\ pktcnt \in Int
  BY DEF RingInv, TypeInv, Last
<1>3. current < Last
  BY <1>1, <1>2 DEF RingInv, CountInv, ReadHeader
<1>4. current + 1 \in Kept /\ current + 1 \in 1 .. Last
  BY <1>2, <1>3 DEF Kept
<1>5. nextPacketPtr = StartOf(arrived, wrptr, current + 1) /\ nextPacketPtr \in Addresses /\ rdptr \in Addresses
  BY <1>2 DEF RingInv, NextInv, TypeInv
<1>6. current' = current + 1
  <2>1. Ahead(rdptr, nextPacketPtr) \in Int /\ Size(arrived, current + 1) \in Nat /\ Size(arrived, current + 1) > 0
    BY <1>2, <1>4, <1>5, AheadIs, SizeIs
  <2>2. ram[nextPacketPtr] = current + 1
    BY <2>1, <1>4, <1>5 DEF RingInv, RamInv
  <2> QED BY <2>2 DEF ReadHeader
<1>7. nextPacketPtr' = StartOf(arrived', wrptr', current' + 1)
  BY <1>1, <1>4, <1>6 DEF RingInv, NextInv, ReadHeader
<1>8. current' \in 0 .. Last' /\ current' + 1 \in 1 .. Last' + 1
  BY <1>1, <1>2, <1>3, <1>6
<1>9. nextPacketPtr' \in Addresses
  BY <1>1, <1>2, <1>7, <1>8, StartIs
<1>10. TypeInv'
  BY <1>1, <1>2, <1>8, <1>9 DEF TypeInv, hwVars
<1>11. NextInv'
  BY <1>1, <1>7 DEF RingInv, NextInv
<1>12. Kept' \subseteq Kept
  BY <1>1, <1>2, <1>6 DEF Kept
<1>13. CountInv' /\ NothingLeaks'
  BY <1>1, <1>2, <1>6 DEF RingInv, CountInv, NothingLeaks
<1> QED BY <1>1, <1>10, <1>11, <1>12, <1>13, StaysInv DEF RingInv

LEMMA WaitsInv == ASSUME RingInv, DecrementCount \/ KeepPacket PROVE RingInv'
<1>1. /\ arrived' = arrived /\ wrptr' = wrptr /\ Last' = Last /\ nextPacketPtr' = nextPacketPtr /\ current' = current
      /\ UNCHANGED <<hwVars, rdptr>>
  BY DEF DecrementCount, KeepPacket, hwVars, Last
<1>2. TypeInv /\ current \in Int /\ Last \in Int /\ pktcnt \in Int
  BY DEF RingInv, TypeInv, Last
<1>3. Kept' \subseteq Kept /\ rxpc' # "idle" /\ rxpc' # "header"
  BY <1>1 DEF Kept, DecrementCount, KeepPacket
<1>4. pktcnt' \in Int /\ CountInv'
  BY <1>1, <1>2, <1>3 DEF DecrementCount, KeepPacket, RingInv, CountInv
<1>5. TypeInv' /\ NextInv'
  BY <1>1, <1>2, <1>4 DEF TypeInv, RingInv, NextInv, hwVars
<1> QED BY <1>1, <1>3, <1>4, <1>5, StaysInv DEF RingInv, NothingLeaks
-------------------------------------------------------------------------------
(* rdptr moves to nextPacketPtr: all that is kept comes nearer by as much. *)
LEMMA MovesInv ==
  ASSUME RingInv, SetERXRDPT, UNCHANGED <<hwVars, pktcnt, nextPacketPtr, current>>,
         rxpc # "header", rxpc' \notin {"header", "held"}
  PROVE  RingInv'
<1> DEFINE At(i) == StartOf(arrived, wrptr, i)
           m == Ahead(rdptr, nextPacketPtr)   \* how far that is
<1>1. /\ arrived' = arrived /\ ram' = ram /\ wrptr' = wrptr /\ Last' = Last
      /\ pktcnt' = pktcnt /\ nextPacketPtr' = nextPacketPtr /\ current' = current
  BY DEF hwVars, Last
<1>2. /\ TypeInv /\ Last \in Nat /\ current \in 0 .. Last
      /\ nextPacketPtr \in Addresses /\ wrptr \in Addresses /\ rdptr \in Addresses
  BY DEF RingInv, TypeInv, Last
<1>3. rdptr' = IF nextPacketPtr = 0 THEN RxStop ELSE nextPacketPtr - 1
  BY DEF SetERXRDPT
<1>4. rdptr' \in Addresses
  BY <1>2, <1>3, RingIs
<1>5. m \in Int /\ 0 <= m /\ m < RingSize
  BY <1>2, AheadIs
<1>6. \A a \in Addresses :
        /\ Ahead(rdptr, a) \in Int /\ 0 <= Ahead(rdptr, a) /\ Ahead(rdptr, a) < RingSize
        /\ Ahead(rdptr', a) = IF Ahead(rdptr, a) - m + 1 < 0 THEN Ahead(rdptr, a) - m + 1 + RingSize
                              ELSE IF Ahead(rdptr, a) - m + 1 < RingSize THEN Ahead(rdptr, a) - m + 1
                              ELSE Ahead(rdptr, a) - m + 1 - RingSize
  BY <1>2, <1>3, AheadIs, AheadMoves
(* Frames start at even addresses: the last address in front of rdptr is   *)
(* never all that is left.                                                 *)
<1>7. Ahead(rdptr, wrptr) - m + 1 < RingSize
  <2>0. Ahead(rdptr, wrptr) \in Int /\ Ahead(rdptr, wrptr) < RingSize
    BY <1>2, AheadIs
  <2> HIDE DEF m
  <2>1. CASE m > 0
    BY <2>0, <2>1, <1>5, RingIs
  <2>2. CASE m = 0
    <3>1. rdptr = nextPacketPtr
      BY <2>2, <1>2, RingIs DEF Ahead, m
    <3>2. nextPacketPtr = StartOf(arrived, wrptr, current + 1) /\ current + 1 \in 1 .. Last + 1
      BY <1>2 DEF RingInv, NextInv
    <3>3. rdptr % 2 = 0 /\ wrptr % 2 = 0
      BY <3>1, <3>2, <1>2, StartIs DEF TypeInv
    <3>4. Ahead(rdptr, wrptr) # RingSize - 1
      BY <3>3, <1>2, RingIs DEF Ahead
    <3> QED BY <3>4, <2>0, <2>2, RingIs
  <2> QED BY <2>1, <2>2, <1>5
<1>8. \A i \in 1 .. Last + 1 : i > current =>
        /\ At(i) \in Addresses
        /\ m <= Ahead(rdptr, At(i)) /\ Ahead(rdptr, At(i)) <= Ahead(rdptr, wrptr)
        /\ Ahead(rdptr', At(i)) = Ahead(rdptr, At(i)) - m + 1
  <2> SUFFICES ASSUME NEW i \in 1 .. Last + 1, i > current
               PROVE  /\ At(i) \in Addresses
                      /\ m <= Ahead(rdptr, At(i)) /\ Ahead(rdptr, At(i)) <= Ahead(rdptr, wrptr)
                      /\ Ahead(rdptr', At(i)) = Ahead(rdptr, At(i)) - m + 1
    OBVIOUS
  <2>1. At(i) \in Addresses
    BY <1>2, StartIs
  <2>2. m <= Ahead(rdptr, At(i)) /\ Ahead(rdptr, At(i)) <= Ahead(rdptr, wrptr)
    BY BehindNext DEF RingInv
  <2> DEFINE s == Ahead(rdptr, At(i))
             w == Ahead(rdptr, wrptr)
             new == Ahead(rdptr', At(i))
  <2>3. /\ s \in Int /\ w \in Int
        /\ new = IF s - m + 1 < 0 THEN s - m + 1 + RingSize
                 ELSE IF s - m + 1 < RingSize THEN s - m + 1 ELSE s - m + 1 - RingSize
    <3> HIDE DEF At, m
    <3> QED BY <2>1, <1>2, <1>6
  <2>4. m <= s /\ s <= w /\ w - m + 1 < RingSize
    BY <2>2, <1>7
  <2>5. new = s - m + 1
    <3> HIDE DEF s, w, new, m
    <3> QED BY <2>3, <2>4, <1>5, RingIs
  <2> QED BY <2>1, <2>2, <2>5
<1>9. Kept' = {i \in 1 .. Last : i > current} /\ Kept' \subseteq Kept
  BY <1>1 DEF Kept
<1>10. OrderInv'
  <2>1. SUFFICES ASSUME NEW i \in Kept', NEW j \in 1 .. Last + 1, i < j
                 PROVE  Ahead(rdptr', At(i)) + Size(arrived, i) <= Ahead(rdptr', At(j))
    BY <1>1 DEF OrderInv
  <2>2. i \in 1 .. Last /\ i \in 1 .. Last + 1 /\ i > current /\ j > current /\ i \in Kept
    BY <2>1, <1>2, <1>9
  <2>3. Ahead(rdptr, At(i)) + Size(arrived, i) <= Ahead(rdptr, At(j))
    BY <2>1, <2>2 DEF RingInv, OrderInv
  <2>4. Size(arrived, i) \in Nat
    BY <2>2, <1>2, SizeIs
  <2>5. Ahead(rdptr, At(i)) \in Int /\ Ahead(rdptr, At(j)) \in Int
    BY <2>2, <1>6, <1>8
  <2>6. Ahead(rdptr', At(i)) = Ahead(rdptr, At(i)) - m + 1 /\ Ahead(rdptr', At(j)) = Ahead(rdptr, At(j)) - m + 1
    BY <2>2, <1>8
  <2> HIDE DEF At, m
  <2> QED BY <2>3, <2>4, <2>5, <2>6, <1>5
<1>11. RamInv'
  <2>1. SUFFICES ASSUME NEW i \in Kept', NEW a \in Addresses,
                        Ahead(rdptr', At(i)) <= Ahead(rdptr', a),
                        Ahead(rdptr', a) < Ahead(rdptr', At(i)) + Size(arrived, i)
                 PROVE  ram[a] = i
    BY <1>1 DEF RamInv
  <2>2. i \in 1 .. Last /\ i \in 1 .. Last + 1 /\ i > current /\ i \in Kept /\ Last + 1 \in 1 .. Last + 1
    BY <1>2, <1>9
  <2>3. Ahead(rdptr, At(i)) + Size(arrived, i) <= Ahead(rdptr, wrptr)
    <3>1. StartOf(arrived, wrptr, Last + 1) = wrptr
      BY <1>2 DEF StartOf, Last
    <3>2. Ahead(rdptr, At(i)) + Size(arrived, i) <= Ahead(rdptr, StartOf(arrived, wrptr, Last + 1))
      <4>1. i < Last + 1
        BY <2>2, <1>2
      <4> QED BY <4>1, <2>2 DEF RingInv, OrderInv
    <3> QED BY <3>1, <3>2
  <2>4. Size(arrived, i) \in Nat
    BY <2>2, <1>2, SizeIs
  <2> DEFINE x == Ahead(rdptr, a)
             s == Ahead(rdptr, At(i))
             w == Ahead(rdptr, wrptr)
             new == Ahead(rdptr', a)
  <2>5. /\ x \in Int /\ 0 <= x /\ x < RingSize /\ w \in Int /\ w < RingSize
        /\ new = IF x - m + 1 < 0 THEN x - m + 1 + RingSize
                 ELSE IF x - m + 1 < RingSize THEN x - m + 1 ELSE x - m + 1 - RingSize
    <3> HIDE DEF m
    <3> QED BY <1>2, <1>6
  <2>6. s \in Int /\ m <= s /\ s - m + 1 <= new /\ new < s - m + 1 + Size(arrived, i)
    <3>1. Ahead(rdptr', At(i)) = s - m + 1 /\ m <= s /\ s \in Int
      BY <2>2, <1>6, <1>8
    <3> HIDE DEF At, m, s
    <3> QED BY <3>1, <2>1 DEF new
  <2>7. s <= x /\ x < s + Size(arrived, i)
    <3>1. s + Size(arrived, i) <= w
      BY <2>3
    <3> HIDE DEF At, m, s, x, w, new
    <3> QED BY <3>1, <2>4, <2>5, <2>6, <1>5, RingIs
  <2> QED BY <2>2, <2>7 DEF RingInv, RamInv
<1>12. TypeInv'
  BY <1>1, <1>2, <1>4 DEF TypeInv
<1>13. NextInv'
  BY <1>1 DEF RingInv, NextInv
<1>14. CountInv'
  BY <1>1 DEF RingInv, CountInv
<1>15. NothingLeaks'
  <2>1. rdptr' \in Addresses /\ (rdptr' + 1) % RingSize = IF rdptr' + 1 < RingSize THEN rdptr' + 1 ELSE rdptr' + 1 - RingSize
    BY <1>4, RingIs, AddRound
  <2>2. (rdptr' + 1) % RingSize = nextPacketPtr
    BY <2>1, <1>2, <1>3, RingIs
  <2> QED BY <2>2, <1>1 DEF NothingLeaks
<1> QED BY <1>10, <1>11, <1>12, <1>13, <1>14, <1>15 DEF RingInv

LEMMA BeginAgainInv == ASSUME RingInv, BeginAgain PROVE RingInv'
<1>1. /\ arrived' = <<>> /\ Last' = 0 /\ Kept' = {} /\ current' = 0 /\ wrptr' = 0 /\ nextPacketPtr' = 0 /\ pktcnt' = 0
      /\ rdptr' = 0 /\ ram' = [a \in Addresses |-> 0] /\ rxpc' = rxpc /\ rxpc # "header"
  BY DEF BeginAgain, Last, Kept
<1>2. 0 \in Addresses
  BY RingIs
<1>3. TypeInv'
  BY <1>1, <1>2 DEF TypeInv
<1>4. NextInv'
  BY <1>1 DEF NextInv, StartOf
<1>5. OrderInv' /\ RamInv' /\ CountInv' /\ NothingLeaks'
  BY <1>1 DEF OrderInv, RamInv, CountInv, NothingLeaks
<1> QED BY <1>3, <1>4, <1>5 DEF RingInv

LEMMA StepInv == RingInv /\ [RingNext]_ringVars => RingInv'
<1> SUFFICES ASSUME RingInv, [RingNext]_ringVars PROVE RingInv'
  OBVIOUS
<1>1. CASE UNCHANGED ringVars
  BY <1>1 DEF ringVars, hwVars, RingInv, TypeInv, NextInv, OrderInv, RamInv, CountInv, NothingLeaks, Kept, Last
<1>2. CASE ReadHeader
  BY <1>2, ReadHeaderInv
<1>3. CASE DecrementCount \/ KeepPacket
  BY <1>3, WaitsInv
<1>4. CASE DiscardFrame \/ FreePacket \/ CopyFromPool \/ Copies
  BY <1>4, MovesInv DEF DiscardFrame, FreePacket, CopyFromPool, Copies, CopyReceived
<1>5. CASE BeginAgain
  BY <1>5, BeginAgainInv
<1>6. CASE Controller
  BY <1>6, ArrivesInv DEF Controller
<1> QED BY <1>1, <1>2, <1>3, <1>4, <1>5, <1>6 DEF RingNext, Library

(* The cells of a frame that is kept are those that RamInv is about.       *)
LEMMA KeptWhole == RingInv => UnreadKept
<1> SUFFICES ASSUME RingInv, NEW i \in Kept, NEW k \in 0 .. Footprint(arrived[i].len) - 1
             PROVE  ram[(arrived[i].start + k) % RingSize] = i
  BY DEF UnreadKept, CellsOf, Kept, Last
<1> DEFINE s == arrived[i].start
<1>1. TypeInv /\ Last \in Nat /\ i \in 1 .. Last /\ i < Last + 1 /\ Last + 1 \in 1 .. Last + 1 /\ rdptr \in Addresses
  BY DEF RingInv, TypeInv, Last, Kept
<1>2. StartOf(arrived, wrptr, i) = s /\ StartOf(arrived, wrptr, Last + 1) = wrptr /\ s \in Addresses /\ wrptr \in Addresses
  <2>1. arrived[i] \in Frame /\ i <= Len(arrived) /\ ~(Last + 1 <= Len(arrived))
    BY <1>1, SizeIs DEF Last
  <2>2. s \in Addresses
    BY <2>1 DEF Frame
  <2> HIDE DEF s
  <2>3. StartOf(arrived, wrptr, i) = s /\ StartOf(arrived, wrptr, Last + 1) = wrptr
    BY <2>1 DEF StartOf, s
  <2> QED BY <2>2, <2>3, <1>1 DEF TypeInv
<1>3. Ahead(rdptr, s) + Size(arrived, i) <= Ahead(rdptr, wrptr)
  <2>1. Ahead(rdptr, StartOf(arrived, wrptr, i)) + Size(arrived, i) <= Ahead(rdptr, StartOf(arrived, wrptr, Last + 1))
    BY <1>1 DEF RingInv, OrderInv
  <2> QED BY <2>1, <1>2
<1>4. Ahead(rdptr, s) \in Int /\ Ahead(rdptr, wrptr) \in Int /\ Ahead(rdptr, wrptr) <= RxStop
  BY <1>1, <1>2, AheadIs
<1>5. Size(arrived, i) \in Nat /\ k \in Nat /\ k < Size(arrived, i)
  BY <1>1, SizeIs DEF Size
<1> HIDE DEF s
<1>6. Ahead(rdptr, s) + k <= RxStop
  BY <1>3, <1>4, <1>5, RingIs
<1>7. (s + k) % RingSize \in Addresses /\ Ahead(rdptr, (s + k) % RingSize) = Ahead(rdptr, s) + k
  BY <1>1, <1>2, <1>5, <1>6, AheadAdds
<1>8. ram[(s + k) % RingSize] = i
  BY <1>2, <1>4, <1>5, <1>7 DEF RingInv, RamInv
<1> QED BY <1>8 DEF s
-------------------------------------------------------------------------------
(* No later frame is written over one that the controller counts, or that  *)
(* receivePacket has just returned to tick.                                *)
THEOREM UnreadStaysWhole == RingSpec => []UnreadKept
<1> QED BY InitInv, StepInv, KeptWhole, PTL DEF RingSpec

(* Frames are taken out once and in the order of arrival, and between two  *)
(* of them the whole ring is given back but what is unread.                *)
THEOREM RingStaysSound == RingSpec => []RingSound
<1>1. RingInv => RingSound
  <2> SUFFICES ASSUME RingInv PROVE InOrder
    BY DEF RingInv, RingSound
  <2>1. current \in 0 .. Len(arrived) /\ Len(arrived) \in Nat
    BY DEF RingInv, TypeInv, Last
  <2> QED BY <2>1 DEF RingInv, CountInv, NextInv, InOrder, StartOf, Last
<1> QED BY InitInv, StepInv, <1>1, PTL DEF RingSpec
===============================================================================
