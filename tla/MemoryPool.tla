------------------------------ MODULE MemoryPool ------------------------------
(***************************************************************************)
(* The allocator of packet memory, utility/mempool.cpp.  A fixed table of  *)
(* block descriptors is chained in a list that starts at the descriptor    *)
(* POOLSTART; a descriptor whose size is 0 is free to use.  allocBlock     *)
(* walks the list for the best fit, compacts the pool when nothing fits    *)
(* and then takes the first free descriptor; freeBlock walks the list to   *)
(* unlink a block.                                                         *)
(*                                                                         *)
(* One action is one iteration of a loop of the source, so that the loops  *)
(* are part of the state machine: pc says which loop is running, and cur,  *)
(* best, bestsize and arg are the locals and the argument of the call in   *)
(* progress (reset when it returns).  owned is what the callers know: the  *)
(* handles allocBlock returned that have not been freed since.             *)
(***************************************************************************)
EXTENDS Integers

CONSTANTS
  NumBlocks,     \* MEMPOOL_NUM_MEMBLOCKS, the descriptors besides POOLSTART
  PoolSize,      \* MEMPOOL_SIZE, the bytes of packet memory in the pool
  StartAddress,  \* MEMPOOL_STARTADDRESS, the first of those bytes
  Requests       \* the sizes that callers ask for

ASSUME PoolAssumption ==
  /\ NumBlocks \in Nat \ {0}
  /\ PoolSize \in Nat \ {0}
  /\ StartAddress \in Nat
  /\ Requests \subseteq Nat \ {0}

VARIABLES
  begin,      \* memblock.begin of every descriptor
  size,       \* memblock.size
  nextblock,  \* memblock.nextblock
  pc,         \* the loop that is running, or "idle" between two calls
  arg,        \* the size asked for, or the handle to free
  cur,        \* the list node the loop stands at
  best,       \* the node after which the new block goes, or NoBest
  bestsize,   \* the size of the gap after best
  owned       \* the handles that callers hold

blockVars == <<begin, size, nextblock>>
callVars == <<pc, arg, cur, best, bestsize>>
vars == <<blockVars, callVars, owned>>

PoolStart == 0
NoBlock == 0
NoBest == -1
Handles == 1 .. NumBlocks
Descriptors == 0 .. NumBlocks
EndAddress == StartAddress + PoolSize
NoFit == PoolSize + 1

Nodes == owned \union {PoolStart}
EndOf(h) == begin[h] + size[h]

TypeOK ==
  /\ begin \in [Descriptors -> Nat]
  /\ size \in [Descriptors -> Nat]
  /\ nextblock \in [Descriptors -> Descriptors]
  /\ pc \in {"idle", "scan", "collect", "found", "free"}
  /\ arg \in Nat
  /\ cur \in Descriptors
  /\ best \in Descriptors \union {NoBest}
  /\ bestsize \in Nat
  /\ owned \subseteq Handles

(***************************************************************************)
(* init: the list holds POOLSTART alone.                                   *)
(***************************************************************************)
Init ==
  /\ begin = [h \in Descriptors |-> IF h = PoolStart THEN StartAddress ELSE 0]
  /\ size = [h \in Descriptors |-> 0]
  /\ nextblock = [h \in Descriptors |-> NoBlock]
  /\ pc = "idle" /\ arg = 0 /\ cur = PoolStart /\ best = NoBest /\ bestsize = NoFit
  /\ owned = {}

(* A call returns: its locals are gone.                                    *)
Return == pc' = "idle" /\ arg' = 0 /\ cur' = PoolStart /\ best' = NoBest /\ bestsize' = NoFit

(* The unused bytes between node h and its successor, or the pool's end.   *)
FreeAfter(h) ==
  (IF nextblock[h] = NoBlock THEN begin[PoolStart] + PoolSize ELSE begin[nextblock[h]]) - EndOf(h)

(***************************************************************************)
(* allocBlock(n)                                                           *)
(***************************************************************************)
AllocBlock(n) ==
  /\ pc = "idle"
  /\ pc' = "scan" /\ arg' = n /\ cur' = PoolStart /\ best' = NoBest /\ bestsize' = NoFit
  /\ UNCHANGED <<blockVars, owned>>

(* An exact fit ends the walk at once.                                     *)
ExactFit == FreeAfter(cur) = arg

Bug_NoSizeCheck == FreeAfter(cur) < bestsize

(* A gap that is large enough and smaller than the best one so far.        *)
BetterFit == FreeAfter(cur) > arg /\ FreeAfter(cur) < bestsize

ScanExact ==
  /\ pc = "scan" /\ ExactFit
  /\ best' = cur /\ cur' = PoolStart /\ pc' = "found"
  /\ UNCHANGED <<blockVars, arg, bestsize, owned>>

ScanNext ==
  /\ pc = "scan" /\ ~ExactFit
  /\ best' = IF BetterFit THEN cur ELSE best
  /\ bestsize' = IF BetterFit THEN FreeAfter(cur) ELSE bestsize
  /\ IF nextblock[cur] # NoBlock
       THEN cur' = nextblock[cur] /\ pc' = pc
       ELSE cur' = PoolStart /\ pc' = IF best' = NoBest THEN "collect" ELSE "found"
  /\ UNCHANGED <<blockVars, arg, owned>>

Bug_StaysAtNode ==
  /\ pc = "collect" /\ nextblock[cur] # NoBlock
  /\ begin' = [begin EXCEPT ![nextblock[cur]] = EndOf(cur)]
  /\ UNCHANGED <<size, nextblock, callVars, owned>>

(* One block is moved down to the end of its predecessor.                  *)
CollectMove ==
  /\ pc = "collect" /\ nextblock[cur] # NoBlock
  /\ begin' = [begin EXCEPT ![nextblock[cur]] = EndOf(cur)]
  /\ cur' = nextblock[cur]
  /\ UNCHANGED <<size, nextblock, pc, arg, best, bestsize, owned>>

Bug_TailMustExceed == begin[PoolStart] + PoolSize - EndOf(cur) > arg

(* All blocks are packed: the space that is left is behind the last one.   *)
TailFits == begin[PoolStart] + PoolSize - EndOf(cur) >= arg

CollectDone ==
  /\ pc = "collect" /\ nextblock[cur] = NoBlock
  /\ TailFits
  /\ best' = cur /\ cur' = PoolStart /\ pc' = "found"
  /\ UNCHANGED <<blockVars, arg, bestsize, owned>>

CollectFail ==
  /\ pc = "collect" /\ nextblock[cur] = NoBlock
  /\ ~TailFits
  /\ Return
  /\ UNCHANGED <<blockVars, owned>>

(* h is the first descriptor of size 0.                                    *)
FirstFree(h) == size[h] = 0 /\ \A k \in Handles : k < h => size[k] # 0

(* The new block is linked behind best, and its handle is returned.        *)
Place(h) ==
  /\ pc = "found"
  /\ FirstFree(h)
  /\ begin' = [begin EXCEPT ![h] = EndOf(best)]
  /\ size' = [size EXCEPT ![h] = arg]
  /\ nextblock' = [nextblock EXCEPT ![h] = nextblock[best], ![best] = h]
  /\ owned' = owned \union {h}
  /\ Return

NoDescriptor ==
  /\ pc = "found"
  /\ \A h \in Handles : size[h] # 0
  /\ Return
  /\ UNCHANGED <<blockVars, owned>>

(***************************************************************************)
(* freeBlock(h); freeBlock(NOBLOCK) does nothing.                          *)
(***************************************************************************)
FreeBlock(h) ==
  /\ pc = "idle"
  /\ pc' = "free" /\ arg' = h /\ cur' = PoolStart
  /\ UNCHANGED <<blockVars, best, bestsize, owned>>

FreeNext ==
  /\ pc = "free" /\ nextblock[cur] \notin {arg, NoBlock}
  /\ cur' = nextblock[cur]
  /\ UNCHANGED <<blockVars, pc, arg, best, bestsize, owned>>

Unlink ==
  /\ pc = "free" /\ nextblock[cur] = arg
  /\ nextblock' = [nextblock EXCEPT ![cur] = nextblock[arg], ![arg] = NoBlock]
  /\ size' = [size EXCEPT ![arg] = 0]
  /\ owned' = owned \ {arg}
  /\ Return
  /\ UNCHANGED begin

FreeNotFound ==
  /\ pc = "free" /\ nextblock[cur] = NoBlock
  /\ Return
  /\ UNCHANGED <<blockVars, owned>>

(***************************************************************************)
(* resizeBlock(h, position, n), and resizeBlock(h, position) which keeps   *)
(* the rest of the block.  Every caller narrows the block it holds to some *)
(* of its own bytes: UIPClient.cpp:286 and UIPUdp.cpp:273 drop what was    *)
(* read, short of all of it, and UIPClient.cpp:431 and UIPUdp.cpp:171 cut  *)
(* off what was not written.                                               *)
(***************************************************************************)
ResizeBlock(h, position, n) ==
  /\ pc = "idle"
  /\ begin' = [begin EXCEPT ![h] = @ + position]
  /\ size' = [size EXCEPT ![h] = n]
  /\ UNCHANGED <<nextblock, callVars, owned>>

NarrowBlock(h) == \E position \in 0 .. size[h] - 1 :
                    \E n \in 1 .. size[h] - position : ResizeBlock(h, position, n)
Narrow == \E h \in owned : NarrowBlock(h)

Call ==
  \/ \E n \in Requests : AllocBlock(n)
  \/ \E h \in Handles : FreeBlock(h)
  \/ Narrow

(* The iterations of a call in progress.                                   *)
Step ==
  \/ ScanExact \/ ScanNext
  \/ CollectMove \/ CollectDone \/ CollectFail
  \/ \E h \in Handles : Place(h)
  \/ NoDescriptor
  \/ FreeNext \/ Unlink \/ FreeNotFound

Next == Call \/ Step

(* Only the processor that runs the library takes steps, and it runs on:   *)
(* a call in progress keeps being executed.                                *)
Spec == Init /\ [][Next]_vars /\ WF_vars(Step)
-------------------------------------------------------------------------------
(***************************************************************************)
(* Properties                                                              *)
(***************************************************************************)

(* Callers never share memory: the blocks of two handles have no byte in   *)
(* common, and no block leaves the pool, at any point of any call          *)
(* (allocBlock places and compacts, resizeBlock moves the borders).        *)
NoOverlap ==
  /\ \A h \in owned : StartAddress <= begin[h] /\ EndOf(h) <= EndAddress
  /\ \A h, k \in owned : h # k => EndOf(h) <= begin[k] \/ EndOf(k) <= begin[h]

UsedUpTo[h \in Descriptors] == IF h = 0 THEN 0 ELSE UsedUpTo[h - 1] + size[h]

(* allocBlock gives up only when every descriptor is taken or when the     *)
(* free bytes of the whole pool, wherever they were, are too few: scattered*)
(* free memory never makes it fail.                                        *)
FailsOnlyWhenFull ==
  [][(pc \in {"scan", "collect", "found"} /\ pc' = "idle" /\ owned' = owned)
       => (owned = Handles \/ UsedUpTo[NumBlocks] + arg > PoolSize)]_vars

(* Every call returns: no loop of allocBlock or freeBlock runs in a cycle. *)
CallsReturn == (pc # "idle") ~> (pc = "idle")
===============================================================================
