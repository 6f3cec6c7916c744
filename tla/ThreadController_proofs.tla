------------------------ MODULE ThreadController_proofs ------------------------
(***************************************************************************)
(* Proof that the array of a ThreadController holds no thread twice and    *)
(* that cached_size is the number of threads in it between edits, for any  *)
(* number of slots and threads, callbacks that edit the list and passes    *)
(* that interrupt an edit, if what remove reads behind a NULL pointer is no*)
(* ThreadID.                                                               *)
(*                                                                         *)
(* Inductive is: what the edit in progress will set cached_size to is that *)
(* number (Counted), and a callback, which edits in one step, runs only    *)
(* when the sketch is not in an edit itself (LoopAlone).                   *)
(*                                                                         *)
(* From it the second part proves that run() runs all that was due.        *)
(***************************************************************************)
EXTENDS ThreadController, FiniteSetTheorems, TLAPS

SlotInv == slot \in [Slots -> Threads \union {NoThread}] /\ cached_size \in Int

Counted == Cardinality(Used) = IF edit = "none" THEN cached_size ELSE NewSize

RunShape ==
  run = [by |-> run.by, i |-> run.i, checks |-> run.checks, time |-> run.time, edits |-> run.edits]

LoopAlone ==
  /\ RunShape /\ run.by \in {"nobody", "loop", "timer"}
  /\ edit \in {"none", "added", "removed", "cleared"}
  /\ run.by = "loop" => edit = "none"

IInv == SlotInv /\ NoDuplicate /\ Counted /\ LoopAlone

LEMMA FiniteSlots == IsFiniteSet(Slots) /\ IsFiniteSet(Used) /\ Cardinality(Used) \in Nat
<1>1. IsFiniteSet(Slots)
  BY ControllerAssumption, FS_Interval DEF Slots
<1>2. Used \subseteq Slots
  BY DEF Used
<1> QED BY <1>1, <1>2, FS_Subset, FS_CardinalityType

(* add: the slot was empty and the thread in no other.                     *)
LEMMA PlaceAdds ==
  ASSUME IInv, NEW t \in Threads, NEW i \in Place(t), slot' = [slot EXCEPT ![i] = t]
  PROVE  /\ slot' \in [Slots -> Threads \union {NoThread}]
         /\ NoDuplicate'
         /\ Cardinality(Used') = Cardinality(Used) + 1
<1>1. i \in Slots /\ slot[i] = NoThread /\ t # NoThread /\ \A k \in Slots : slot[k] # t
  BY ControllerAssumption DEF Place, Held
<1>2. Used' = Used \union {i} /\ i \notin Used
  BY <1>1 DEF Used, IInv, SlotInv
<1>3. NoDuplicate'
  BY <1>1, <1>2 DEF Used, NoDuplicate, IInv, SlotInv
<1>4. Cardinality(Used') = Cardinality(Used) + 1
  BY <1>2, FiniteSlots, FS_AddElement
<1> QED BY <1>1, <1>3, <1>4 DEF IInv, SlotInv

(* remove: one slot becomes empty.                                         *)
LEMMA MatchRemoves ==
  ASSUME IInv, NullReads = {}, NEW t \in Threads, NEW i \in Match(t), slot' = [slot EXCEPT ![i] = NoThread]
  PROVE  /\ slot' \in [Slots -> Threads \union {NoThread}]
         /\ NoDuplicate'
         /\ Cardinality(Used') = Cardinality(Used) - 1
<1>1. i \in Slots /\ slot[i] = t /\ t # NoThread
  BY ControllerAssumption DEF Match
<1>2. Used' = Used \ {i} /\ i \in Used
  BY <1>1 DEF Used, IInv, SlotInv
<1>3. NoDuplicate'
  BY <1>1, <1>2 DEF Used, NoDuplicate, IInv, SlotInv
<1>4. Cardinality(Used') = Cardinality(Used) - 1
  BY <1>2, FiniteSlots, FS_RemoveElement
<1> QED BY <1>1, <1>3, <1>4 DEF IInv, SlotInv

LEMMA InitInv == Init => IInv
<1> SUFFICES ASSUME Init PROVE IInv
  OBVIOUS
<1>1. Used = {}
  BY DEF Init, Used
<1>2. Cardinality(Used) = 0
  BY <1>1, FS_EmptySet
<1> QED BY <1>1, <1>2 DEF Init, IInv, SlotInv, NoDuplicate, Counted, LoopAlone, RunShape, NotRunning

(* Steps that leave the list and the edit alone.                           *)
LEMMA QuietInv ==
  ASSUME IInv, UNCHANGED <<slot, cached_size, edit>>, RunShape',
         run'.by \in {"nobody", "loop", "timer"}, run'.by = "loop" => run.by = "loop" \/ edit = "none"
  PROVE  IInv'
BY DEF IInv, SlotInv, NoDuplicate, Counted, LoopAlone, Used, NewSize

(* The sketch's edits, in two steps.                                       *)
LEMMA EditInv ==
  ASSUME IInv, NullReads = {}, (\E t \in Threads : Add(t) \/ Remove(t)) \/ Clear \/ FinishEdit \/ Recount
  PROVE  IInv'
<1> USE DEF IInv
<1>1. UNCHANGED run /\ run.by = "nobody"
  BY DEF Add, Remove, Clear, FinishEdit, Recount, NotRunning
<1>2. ASSUME NEW t \in Threads, Add(t) PROVE IInv'
  <2>1. PICK i \in Place(t) : slot' = [slot EXCEPT ![i] = t]
    BY <1>2 DEF Add
  <2>2. /\ slot' \in [Slots -> Threads \union {NoThread}] /\ NoDuplicate'
        /\ Cardinality(Used') = Cardinality(Used) + 1
    BY <2>1, PlaceAdds
  <2>3. edit = "none" /\ edit' = "added" /\ cached_size' = cached_size
    BY <1>2 DEF Add
  <2> QED BY <1>1, <2>2, <2>3 DEF SlotInv, Counted, LoopAlone, RunShape, NewSize
<1>3. ASSUME NEW t \in Threads, Remove(t) PROVE IInv'
  <2>1. PICK i \in Match(t) : slot' = [slot EXCEPT ![i] = NoThread]
    BY <1>3 DEF Remove
  <2>2. /\ slot' \in [Slots -> Threads \union {NoThread}] /\ NoDuplicate'
        /\ Cardinality(Used') = Cardinality(Used) - 1
    BY <2>1, MatchRemoves
  <2>3. edit = "none" /\ edit' = "removed" /\ cached_size' = cached_size
    BY <1>3 DEF Remove
  <2> QED BY <1>1, <2>2, <2>3 DEF SlotInv, Counted, LoopAlone, RunShape, NewSize
<1>4. CASE Clear
  <2>1. slot' \in [Slots -> Threads \union {NoThread}] /\ Used' = {} /\ edit' = "cleared" /\ cached_size' = cached_size
    BY <1>4 DEF Clear, Used
  <2>2. Cardinality(Used') = 0
    BY <2>1, FS_EmptySet
  <2> QED BY <1>1, <2>1, <2>2 DEF SlotInv, NoDuplicate, Counted, LoopAlone, RunShape, NewSize
<1>5. CASE FinishEdit \/ Recount
  <2>1. /\ edit' = "none" /\ UNCHANGED slot
        /\ cached_size' = Cardinality(Used)
    BY <1>5 DEF FinishEdit, Recount, Counted
  <2>2. Used' = Used
    BY <2>1 DEF Used
  <2> QED BY <1>1, <2>1, <2>2, FiniteSlots DEF SlotInv, NoDuplicate, Counted, LoopAlone, RunShape
<1> QED BY <1>2, <1>3, <1>4, <1>5

(* A thread runs, and its callback may edit the list.                      *)
LEMMA RunThreadInv ==
  ASSUME IInv, NullReads = {}, RunThread
  PROVE  IInv'
<1> USE DEF IInv
<1>1. UNCHANGED edit
  BY DEF RunThread
<1>2. CASE CallbackOnly
  <2>1. UNCHANGED <<slot, cached_size>> /\ run'.by = run.by /\ RunShape'
    BY <1>2 DEF CallbackOnly, Pointer, LoopAlone, RunShape
  <2>2. run.by \in {"nobody", "loop", "timer"}
    BY DEF LoopAlone
  <2> QED BY <1>1, <2>1, <2>2, QuietInv
<1>3. CASE CallbackEdits
  <2>1. run'.by = run.by /\ RunShape' /\ edit = "none"
    BY <1>3 DEF CallbackEdits, Pointer, LoopAlone, RunShape
  <2>2. PICK t \in Threads : CallbackAdds(t) \/ CallbackRemoves(t)
    BY <1>3 DEF CallbackEdits
  <2>3. CASE CallbackAdds(t)
    <3>1. PICK i \in Place(t) : slot' = [slot EXCEPT ![i] = t] /\ cached_size' = cached_size + 1
      BY <2>3 DEF CallbackAdds
    <3>2. /\ slot' \in [Slots -> Threads \union {NoThread}] /\ NoDuplicate'
          /\ Cardinality(Used') = Cardinality(Used) + 1
      BY <3>1, PlaceAdds
    <3> QED BY <1>1, <2>1, <3>1, <3>2 DEF SlotInv, Counted, LoopAlone
  <2>4. CASE CallbackRemoves(t)
    <3>1. PICK i \in Match(t) : slot' = [slot EXCEPT ![i] = NoThread] /\ cached_size' = cached_size - 1
      BY <2>4 DEF CallbackRemoves
    <3>2. /\ slot' \in [Slots -> Threads \union {NoThread}] /\ NoDuplicate'
          /\ Cardinality(Used') = Cardinality(Used) - 1
      BY <3>1, MatchRemoves
    <3> QED BY <1>1, <2>1, <3>1, <3>2 DEF SlotInv, Counted, LoopAlone
  <2> QED BY <2>2, <2>3, <2>4
<1> QED BY <1>2, <1>3 DEF RunThread

(* A pass begins, goes on or ends without a callback.                      *)
LEMMA PassInv ==
  ASSUME IInv, (\E by \in {"loop", "timer"} : Begin(by)) \/ SkipEmpty \/ SkipThread \/ Finish
  PROVE  IInv'
<1>1. UNCHANGED <<slot, cached_size, edit>>
  BY DEF Begin, SkipEmpty, SkipThread, Finish
<1>2. RunShape' /\ run'.by \in {"nobody", "loop", "timer"} /\ (run'.by = "loop" => run.by = "loop" \/ edit = "none")
  <2>1. CASE \E by \in {"loop", "timer"} : Begin(by)
    BY <2>1 DEF Begin, NotRunning, RunShape
  <2>2. CASE SkipEmpty \/ SkipThread
    BY <2>2 DEF SkipEmpty, SkipThread, Pointer, IInv, LoopAlone, RunShape
  <2>3. CASE Finish
    BY <2>3 DEF Finish, NotRunning, RunShape
  <2> QED BY <2>1, <2>2, <2>3
<1> QED BY <1>1, <1>2, QuietInv

LEMMA StepInv == NullReads = {} /\ IInv /\ [Next]_vars => IInv'
<1> SUFFICES ASSUME NullReads = {}, IInv, [Next]_vars PROVE IInv'
  OBVIOUS
<1>1. CASE (\E t \in Threads : Add(t) \/ Remove(t)) \/ Clear \/ FinishEdit \/ Recount
  BY <1>1, EditInv
<1>2. CASE Tick \/ (\E t \in Threads : SetEnabled(t) \/ \E n \in Intervals : SetInterval(t, n)) \/ UNCHANGED vars
  <2>1. UNCHANGED <<slot, cached_size, edit, run>>
    BY <1>2 DEF Tick, SetEnabled, SetInterval, vars
  <2> QED BY <2>1, QuietInv DEF IInv, LoopAlone, RunShape
<1>3. CASE RunThread
  BY <1>3, RunThreadInv
<1>4. CASE Begin("loop") \/ Begin("timer") \/ SkipEmpty \/ SkipThread \/ Finish
  BY <1>4, PassInv
<1> QED
  BY <1>1, <1>2, <1>3, <1>4 DEF Next, Sketch, Pass

(* The array and its counter agree at the end of every edit, also of those *)
(* that callbacks make in the middle of run().                             *)
THEOREM SlotsAreSound ==
  ASSUME NullReads = {}
  PROVE  Spec => []SlotsSound
<1>1. IInv => SlotsSound
  BY DEF IInv, Counted, SlotsSound, SizeCounts
<1>2. IInv /\ [Next]_vars => IInv'
  BY StepInv
<1> QED BY InitInv, <1>1, <1>2, PTL DEF Spec
-------------------------------------------------------------------------------
(***************************************************************************)
(* run() runs what is due.  The loop ends when it has seen one thread more *)
(* than cached_size, so the invariant counts: the pointers it has seen are *)
(* the threads in the slots behind it (Behind), but for what a callback has*)
(* taken out, and what is owed is in a slot in front of it, and still due. *)
(***************************************************************************)

ThreadInv ==
  /\ interval \in [Objects -> Int] /\ last_run \in [Objects -> Int] /\ _cached_next_run \in [Objects -> Int]
  /\ clock \in 0 .. MaxTime

Behind(s, i) == {k \in Slots : s[k] # NoThread /\ k < i}

(* The time run() compares with was the clock's, not long ago.             *)
TimeInv == run.time < 0 => \E since \in 0 .. clock : run.time = Long(since)

OwedInv ==
  \A t \in owed : /\ t \in Threads /\ run.time >= _cached_next_run[t] /\ enabled[t]
                  /\ \E k \in Slots : k >= run.i /\ slot[k] = t

LoopInv ==
  run.by # "nobody" =>
    /\ run.i \in Nat /\ run.checks \in Int /\ run.time \in Int /\ run.edits \in 0 .. 1
    /\ run.by = "timer" => run.edits = 0
    /\ run.checks <= Cardinality(Behind(slot, run.i)) + run.edits
    /\ TimeInv /\ OwedInv

DueInv == ThreadInv /\ LoopInv

LEMMA LongIsInt == \A n \in Int : Long(n) \in Int
BY ControllerAssumption DEF Long

(* A clock that has not started anew since has not become less.            *)
LEMMA LongGrows ==
  ASSUME MaxTime < Longs, NEW since \in Nat, NEW now \in Nat, since <= now, now <= MaxTime, Long(since) < 0
  PROVE  Long(now) >= Long(since)
<1> DEFINE M == Longs
           H == Longs \div 2
<1>1. M \in Nat /\ H \in Nat /\ MaxTime \in Nat
  BY ControllerAssumption
<1>2. Long(since) = (IF since >= H THEN since - M ELSE since) /\ Long(now) = (IF now >= H THEN now - M ELSE now)
  <2>1. since % M = since /\ now % M = now
    BY <1>1
  <2> QED BY <2>1 DEF Long
<1> HIDE DEF M, H
<1> QED BY <1>1, <1>2

(* So a thread that is owed is still due by the time its slot is reached.  *)
LEMMA StillDue ==
  ASSUME IInv, DueInv, MaxTime < Longs, run.by # "nobody", NEW t \in owed
  PROVE  ShouldRun(t, run.time)
<1>1. t \in Objects /\ run.time >= _cached_next_run[t] /\ enabled[t] /\ run.time \in Int /\ _cached_next_run[t] \in Int
  BY DEF DueInv, LoopInv, OwedInv, ThreadInv, Objects
<1>2. CASE run.time < 0
  <2>1. PICK since \in 0 .. clock : run.time = Long(since)
    BY <1>2 DEF DueInv, LoopInv, TimeInv
  <2>2. since \in Nat /\ clock \in Nat /\ since <= clock /\ clock <= MaxTime
    BY <2>1, ControllerAssumption DEF DueInv, ThreadInv
  <2>3. Long(clock) >= Long(since)
    BY <1>2, <2>1, <2>2, LongGrows
  <2>4. Long(clock) \in Int
    BY <2>2, LongIsInt
  <2> QED BY <1>1, <1>2, <2>1, <2>3, <2>4 DEF ShouldRun
<1> QED BY <1>1, <1>2 DEF ShouldRun

LEMMA OneMore ==
  ASSUME NEW S, IsFiniteSet(S), NEW e
  PROVE  IsFiniteSet(S \union {e}) /\ Cardinality(S \union {e}) <= Cardinality(S) + 1
<1>1. Cardinality(S) \in Nat
  BY FS_CardinalityType
<1>2. CASE e \in S
  <2>1. S \union {e} = S
    BY <1>2
  <2> QED BY <1>1, <2>1
<1>3. CASE e \notin S
  BY <1>1, <1>3, FS_AddElement
<1> QED BY <1>2, <1>3

LEMMA BehindIs ==
  ASSUME IInv, NEW i \in Nat
  PROVE  IsFiniteSet(Behind(slot, i)) /\ Cardinality(Behind(slot, i)) \in Nat
<1>1. Behind(slot, i) \subseteq Slots
  BY DEF Behind
<1> QED BY <1>1, FiniteSlots, FS_Subset, FS_CardinalityType

(* The slot that is looked at comes to those behind, with a thread in it.  *)
LEMMA BehindGrows ==
  ASSUME IInv, NEW i \in Slots
  PROVE  /\ slot[i] = NoThread => Behind(slot, i + 1) = Behind(slot, i)
         /\ slot[i] # NoThread => /\ Behind(slot, i + 1) = Behind(slot, i) \union {i}
                                  /\ Cardinality(Behind(slot, i + 1)) = Cardinality(Behind(slot, i)) + 1
<1>1. i \in Nat /\ \A k \in Slots : k < i + 1 <=> k < i \/ k = i
  BY ControllerAssumption DEF Slots
<1>2. slot[i] # NoThread => Behind(slot, i + 1) = Behind(slot, i) \union {i}
  BY <1>1 DEF Behind
<1>3. i \notin Behind(slot, i)
  BY <1>1 DEF Behind
<1>4. slot[i] = NoThread => Behind(slot, i + 1) = Behind(slot, i)
  BY <1>1 DEF Behind
<1>5. IsFiniteSet(Behind(slot, i))
  BY <1>1, BehindIs
<1>6. Cardinality(Behind(slot, i) \union {i}) = Cardinality(Behind(slot, i)) + 1
  BY <1>3, <1>5, FS_AddElement
<1> QED BY <1>2, <1>4, <1>6

(* If anything is owed, the loop goes on.                                  *)
LEMMA OwedGoesOn ==
  ASSUME IInv, DueInv, run.by # "nobody", NEW t \in owed
  PROVE  GoesOn
<1>1. /\ run.i \in Nat /\ run.checks \in Int /\ run.edits \in 0 .. 1 /\ (run.by = "timer" => run.edits = 0)
      /\ run.checks <= Cardinality(Behind(slot, run.i)) + run.edits
  BY DEF DueInv, LoopInv
<1>2. PICK k \in Slots : k >= run.i /\ slot[k] = t /\ t \in Threads
  BY DEF DueInv, LoopInv, OwedInv
<1>3. run.i < MaxThreads
  BY <1>1, <1>2, ControllerAssumption DEF Slots
<1>4. Cardinality(Behind(slot, run.i)) + 1 <= Cardinality(Used)
  <2>1. k \in Used /\ k \notin Behind(slot, run.i) /\ Behind(slot, run.i) \subseteq Used
    <3>1. ~(k < run.i)
      BY <1>1, <1>2 DEF Slots
    <3> QED BY <3>1, <1>2, ControllerAssumption DEF Used, Behind
  <2>2. Cardinality(Behind(slot, run.i) \union {k}) = Cardinality(Behind(slot, run.i)) + 1
    BY <2>1, <1>1, BehindIs, FS_AddElement
  <2>3. Behind(slot, run.i) \union {k} \subseteq Used
    BY <2>1
  <2> QED BY <2>2, <2>3, FiniteSlots, FS_Subset
<1>5. Cardinality(Used) <= cached_size + 1 /\ (run.by = "loop" => Cardinality(Used) = cached_size)
  <2>1. Cardinality(Used) > 0
    <3>1. Cardinality(Behind(slot, run.i)) \in Nat
      BY <1>1, BehindIs
    <3> QED BY <3>1, <1>4, FiniteSlots
  <2> QED BY <2>1, FiniteSlots DEF IInv, Counted, SlotInv, LoopAlone, NewSize
<1>6. run.by \in {"loop", "timer"} /\ cached_size \in Int
  BY DEF IInv, LoopAlone, SlotInv
<1> QED BY <1>1, <1>3, <1>4, <1>5, <1>6, BehindIs, FiniteSlots DEF GoesOn

LEMMA DueInit == Init => DueInv
<1> SUFFICES ASSUME Init PROVE DueInv
  OBVIOUS
<1>1. clock \in 0 .. MaxTime
  BY ControllerAssumption DEF Init
<1> QED BY <1>1 DEF Init, DueInv, ThreadInv, LoopInv, NotRunning

(* runned keeps the types, and changes one thread.                         *)
LEMMA RunnedKeeps ==
  ASSUME ThreadInv, NEW t \in Objects, Runned(t), clock' = clock
  PROVE  ThreadInv' /\ enabled' = enabled /\ \A u \in Objects : u # t => _cached_next_run'[u] = _cached_next_run[u]
<1>1. clock \in Int
  BY ControllerAssumption DEF ThreadInv
<1>2. Long(clock) \in Int /\ Long(Long(clock) + interval[t]) \in Int
  BY <1>1, LongIsInt DEF ThreadInv
<1> QED BY <1>2 DEF ThreadInv, Runned

LEMMA SketchDue ==
  ASSUME IInv, DueInv, MaxTime < Longs, Sketch
  PROVE  DueInv'
<1>1. run' = NotRunning /\ clock' = clock
  BY DEF Sketch, Add, Remove, SetEnabled, SetInterval, Clear, FinishEdit, Recount
<1>2. ThreadInv'
  <2>1. CASE UNCHANGED <<interval, last_run, _cached_next_run>>
    BY <2>1, <1>1 DEF DueInv, ThreadInv
  <2>2. ASSUME NEW t \in Threads, NEW n \in Intervals, SetInterval(t, n) PROVE ThreadInv'
    <3>1. Filtered(n) \in Int /\ last_run[t] \in Int /\ t \in Objects
      BY ControllerAssumption DEF Filtered, DueInv, ThreadInv, Objects
    <3>2. Long(last_run[t] + Filtered(n)) \in Int
      BY <3>1, LongIsInt
    <3> QED BY <2>2, <3>1, <3>2, <1>1 DEF SetInterval, DueInv, ThreadInv
  <2> QED BY <2>1, <2>2 DEF Sketch, Add, Remove, SetEnabled, Clear, FinishEdit, Recount, threadVars
<1> QED BY <1>1, <1>2 DEF DueInv, LoopInv, NotRunning

LEMMA TickDue ==
  ASSUME IInv, DueInv, MaxTime < Longs, Tick
  PROVE  DueInv'
<1>1. clock \in Nat /\ clock' = clock + 1 /\ clock' \in 0 .. MaxTime
  <2>1. clock \in Nat /\ clock < MaxTime /\ clock' = (clock + 1) % Longs /\ MaxTime \in Nat /\ Longs \in Nat
    BY ControllerAssumption DEF Tick, DueInv, ThreadInv
  <2>2. clock + 1 < Longs
    BY <2>1
  <2> HIDE DEF ThreadInv
  <2>3. (clock + 1) % Longs = clock + 1
    BY <2>1, <2>2
  <2> QED BY <2>1, <2>3
<1>2. ThreadInv'
  BY <1>1 DEF Tick, threadVars, DueInv, ThreadInv
<1>3. TimeInv => TimeInv'
  <2>1. \A since \in 0 .. clock : since \in 0 .. clock'
    BY <1>1
  <2> QED BY <2>1 DEF Tick, TimeInv, Long
<1> QED BY <1>2, <1>3 DEF Tick, threadVars, DueInv, LoopInv, OwedInv

LEMMA BeginDue ==
  ASSUME IInv, DueInv, NEW by \in {"loop", "timer"}, Begin(by)
  PROVE  DueInv'
<1>1. /\ UNCHANGED <<slot, clock>> /\ UNCHANGED threadVars
      /\ run' = [by |-> by, i |-> 0, checks |-> 0, time |-> Long(clock), edits |-> 0]
      /\ owed' = {t \in Threads : Held(t) /\ ShouldRun(t, Long(clock))}
  BY DEF Begin, NotRunning
<1>2. clock \in Int /\ Long(clock) \in Int /\ clock \in 0 .. clock
  BY ControllerAssumption, LongIsInt DEF DueInv, ThreadInv
<1>3. ThreadInv'
  BY <1>1 DEF DueInv, ThreadInv, threadVars
<1>4. TimeInv'
  BY <1>1, <1>2 DEF TimeInv, Long
<1>5. OwedInv'
  <2>1. \A k \in Slots : k >= 0
    BY DEF Slots
  <2> QED BY <2>1, <1>1, <1>2 DEF OwedInv, Held, ShouldRun, threadVars
<1>6. 0 <= Cardinality(Behind(slot, 0)) + 0
  BY BehindIs
<1> QED BY <1>1, <1>2, <1>3, <1>4, <1>5, <1>6 DEF DueInv, LoopInv

(* A slot is passed: no thread that is owed was in it.                     *)
LEMMA SkipDue ==
  ASSUME IInv, DueInv, MaxTime < Longs, SkipEmpty \/ SkipThread
  PROVE  DueInv'
<1>1. /\ UNCHANGED <<slot, clock, owed>> /\ UNCHANGED threadVars /\ run.by # "nobody" /\ run.i < MaxThreads
      /\ run'.by = run.by /\ run'.i = run.i + 1 /\ run'.time = run.time /\ run'.edits = run.edits
      /\ run'.checks = IF slot[run.i] = NoThread THEN run.checks ELSE run.checks + 1
  <2>1. RunShape /\ (run.by # "nobody" => run.i \in Nat /\ run.edits \in Int)
    BY DEF IInv, LoopAlone, DueInv, LoopInv
  <2>2. CASE SkipEmpty
    BY <2>1, <2>2 DEF SkipEmpty, InLoop, GoesOn, RunShape
  <2>3. CASE SkipThread
    BY <2>1, <2>3 DEF SkipThread, Pointer, InLoop, GoesOn, RunShape
  <2> QED BY <2>2, <2>3
<1>2. run.i \in Slots /\ run.i \in Nat
  BY <1>1, ControllerAssumption DEF DueInv, LoopInv, Slots
<1>3. ThreadInv' /\ TimeInv'
  BY <1>1 DEF DueInv, LoopInv, ThreadInv, TimeInv, Long, threadVars
<1>4. run'.checks <= Cardinality(Behind(slot, run.i + 1)) + run.edits
  BY <1>1, <1>2, BehindGrows, BehindIs DEF DueInv, LoopInv
<1>5. OwedInv'
  <2>1. SUFFICES ASSUME NEW t \in owed PROVE \E k \in Slots : k >= run.i + 1 /\ slot[k] = t
    BY <1>1 DEF OwedInv, DueInv, LoopInv, threadVars
  <2>2. PICK k \in Slots : k >= run.i /\ slot[k] = t /\ t \in Threads
    BY <1>1 DEF DueInv, LoopInv, OwedInv
  <2>3. k # run.i
    <3>1. ShouldRun(t, run.time)
      BY <1>1, StillDue
    <3> QED BY <3>1, <2>2, ControllerAssumption DEF SkipEmpty, SkipThread
  <2>4. k >= run.i + 1
    BY <2>2, <2>3, <1>2 DEF Slots
  <2> QED BY <2>2, <2>4
<1> QED BY <1>1, <1>2, <1>3, <1>4, <1>5 DEF DueInv, LoopInv

(* A thread is run, and its callback may edit the list.                    *)
LEMMA RunDue ==
  ASSUME IInv, DueInv, NullReads = {}, MaxEdits <= 1, RunThread
  PROVE  DueInv'
<1> DEFINE i == run.i
<1>1. /\ clock' = clock /\ run.by # "nobody" /\ i < MaxThreads /\ slot[i] # NoThread /\ Runned(slot[i])
      /\ run'.by = run.by /\ run'.i = i + 1 /\ run'.time = run.time /\ run'.checks = run.checks + 1
      /\ run'.edits \in {run.edits, run.edits + 1}
  <2>1. RunShape /\ (run.by # "nobody" => run.i \in Nat /\ run.edits \in Int)
    BY DEF IInv, LoopAlone, DueInv, LoopInv
  <2>2. run' = Pointer(0) \/ run' = Pointer(1)
    BY DEF RunThread, CallbackOnly, CallbackEdits
  <2>3. CASE run' = Pointer(0)
    BY <2>1, <2>3 DEF RunThread, Pointer, InLoop, GoesOn, RunShape
  <2>4. CASE run' = Pointer(1)
    BY <2>1, <2>4 DEF RunThread, Pointer, InLoop, GoesOn, RunShape
  <2> QED BY <2>2, <2>3, <2>4
<1>2. i \in Slots /\ i \in Nat /\ run.checks \in Int /\ run.time \in Int /\ run.edits \in 0 .. 1
  BY <1>1, ControllerAssumption DEF DueInv, LoopInv, Slots
<1>3. slot[i] \in Threads /\ slot[i] \in Objects
  BY <1>1, <1>2 DEF IInv, SlotInv, Objects
<1>4. ThreadInv' /\ enabled' = enabled /\ \A u \in Objects : u # slot[i] => _cached_next_run'[u] = _cached_next_run[u]
  BY <1>1, <1>3, RunnedKeeps DEF DueInv
<1>5. TimeInv'
  BY <1>1 DEF DueInv, LoopInv, TimeInv, Long
<1>6. run.checks <= Cardinality(Behind(slot, i)) + run.edits /\ Cardinality(Behind(slot, i)) \in Nat
  BY <1>1, <1>2, BehindIs DEF DueInv, LoopInv
<1>7. Cardinality(Behind(slot, i + 1)) = Cardinality(Behind(slot, i)) + 1
  BY <1>1, <1>2, BehindGrows
<1>8. SUFFICES /\ run'.edits \in 0 .. 1 /\ (run.by = "timer" => run'.edits = 0)
               /\ Cardinality(Behind(slot, i + 1)) + run.edits <= Cardinality(Behind(slot', i + 1)) + run'.edits
               /\ Cardinality(Behind(slot', i + 1)) \in Nat
               /\ owed' \subseteq owed \ {slot[i]}
               /\ \A t \in owed' : \A k \in Slots : slot[k] = t => slot'[k] = t
  <2>1. OwedInv'
    <3>1. SUFFICES ASSUME NEW t \in owed'
                   PROVE  /\ t \in Threads /\ run.time >= _cached_next_run'[t] /\ enabled'[t]
                          /\ \E k \in Slots : k >= i + 1 /\ slot'[k] = t
      BY <1>1 DEF OwedInv
    <3>2. t \in Threads /\ run.time >= _cached_next_run[t] /\ enabled[t] /\ t # slot[i] /\ t \in Objects
      BY <1>1, <1>8 DEF DueInv, LoopInv, OwedInv, Objects
    <3>3. PICK k \in Slots : k >= i /\ slot[k] = t
      BY <1>1, <1>8 DEF DueInv, LoopInv, OwedInv
    <3>4. k >= i + 1
      BY <3>2, <3>3, <1>2 DEF Slots
    <3> QED BY <3>2, <3>3, <3>4, <1>4, <1>8
  <2>2. run'.checks <= Cardinality(Behind(slot', i + 1)) + run'.edits
    BY <1>1, <1>2, <1>6, <1>7, <1>8
  <2> QED BY <2>1, <2>2, <1>1, <1>2, <1>4, <1>5, <1>8 DEF DueInv, LoopInv
<1> HIDE DEF i
<1>9. CASE CallbackOnly
  BY <1>9, <1>2, <1>6, <1>7 DEF CallbackOnly, Pointer, DueInv, LoopInv, IInv, LoopAlone, RunShape, i
<1>10. CASE CallbackEdits
  <2>1. run.by = "loop" /\ run.edits = 0 /\ run'.edits = 1
    BY <1>10, <1>2, ControllerAssumption DEF CallbackEdits, Pointer, IInv, LoopAlone, RunShape
  <2>2. PICK t \in Threads : CallbackAdds(t) \/ CallbackRemoves(t)
    BY <1>10 DEF CallbackEdits
  <2>3. IsFiniteSet(Behind(slot', i + 1)) /\ Cardinality(Behind(slot', i + 1)) \in Nat
    <3>1. Behind(slot', i + 1) \subseteq Slots
      BY DEF Behind
    <3> QED BY <3>1, FiniteSlots, FS_Subset, FS_CardinalityType
  <2>4. CASE CallbackAdds(t)
    <3>1. PICK j \in Place(t) : slot' = [slot EXCEPT ![j] = t] /\ owed' = owed \ {slot[i]}
      BY <2>4 DEF CallbackAdds, i
    <3>2. j \in Slots /\ slot[j] = NoThread
      BY <3>1 DEF Place
    <3>3. Behind(slot, i + 1) \subseteq Behind(slot', i + 1)
      BY <3>1, <3>2 DEF Behind, IInv, SlotInv
    <3>4. Cardinality(Behind(slot, i + 1)) <= Cardinality(Behind(slot', i + 1))
      BY <3>3, <2>3, FS_Subset
    <3>5. \A u \in owed' : u # NoThread
      BY <3>1, <1>1, ControllerAssumption DEF DueInv, LoopInv, OwedInv
    <3> QED BY <3>1, <3>2, <3>4, <3>5, <2>1, <2>3, <1>2, <1>6, <1>7 DEF IInv, SlotInv
  <2>5. CASE CallbackRemoves(t)
    <3>1. PICK j \in Match(t) : slot' = [slot EXCEPT ![j] = NoThread] /\ owed' = owed \ {slot[i], slot[j]}
      BY <2>5 DEF CallbackRemoves, i
    <3>2. j \in Slots
      BY <3>1 DEF Match
    <3>3. Behind(slot, i + 1) \subseteq Behind(slot', i + 1) \union {j}
      BY <3>1, <3>2 DEF Behind, IInv, SlotInv
    <3>4. Cardinality(Behind(slot, i + 1)) <= Cardinality(Behind(slot', i + 1)) + 1
      <4>1. /\ IsFiniteSet(Behind(slot', i + 1) \union {j})
            /\ Cardinality(Behind(slot', i + 1) \union {j}) <= Cardinality(Behind(slot', i + 1)) + 1
        BY <2>3, OneMore
      <4>2. /\ Cardinality(Behind(slot, i + 1)) <= Cardinality(Behind(slot', i + 1) \union {j})
            /\ Cardinality(Behind(slot', i + 1) \union {j}) \in Nat
        BY <4>1, <3>3, FS_Subset, FS_CardinalityType
      <4> QED BY <4>1, <4>2, <2>3, <1>6, <1>7
    <3> QED BY <3>1, <3>2, <3>4, <2>1, <2>3, <1>2, <1>6, <1>7 DEF IInv, SlotInv
  <2> QED BY <2>2, <2>4, <2>5
<1> QED BY <1>9, <1>10 DEF RunThread

LEMMA FinishDue == ASSUME IInv, DueInv, Finish PROVE DueInv'
<1>1. ThreadInv'
  <2>1. Controller \in Objects
    BY DEF Objects
  <2> QED BY <2>1, RunnedKeeps DEF Finish, DueInv
<1> QED BY <1>1 DEF Finish, DueInv, LoopInv, NotRunning

LEMMA DueStep == NullReads = {} /\ MaxEdits <= 1 /\ MaxTime < Longs /\ IInv /\ DueInv /\ [Next]_vars => DueInv'
<1> SUFFICES ASSUME NullReads = {}, MaxEdits <= 1, MaxTime < Longs, IInv, DueInv, [Next]_vars PROVE DueInv'
  OBVIOUS
<1>1. CASE UNCHANGED vars
  BY <1>1 DEF vars, threadVars, DueInv, ThreadInv, LoopInv, TimeInv, OwedInv, Long
<1>2. CASE Next
  BY <1>2, TickDue, SketchDue, BeginDue, SkipDue, RunDue, FinishDue DEF Next, Pass
<1> QED BY <1>1, <1>2

(* run() ends only when it has run all that was due, and not been removed, *)
(* when it began: if a callback edits the list once in a run (three slots  *)
(* and two edits refute it) and millis() does not start anew, for any      *)
(* array, any times and intervals, and a run that interrupts add, remove or*)
(* clear.                                                                  *)
THEOREM AllDueAreRun ==
  ASSUME NullReads = {}, MaxEdits <= 1, MaxTime < Longs
  PROVE  Spec => []RunsAllDue
<1>1. IInv /\ DueInv => RunsAllDue
  BY OwedGoesOn DEF RunsAllDue
<1>2. IInv /\ DueInv /\ [Next]_vars => IInv' /\ DueInv'
  BY StepInv, DueStep
<1> QED BY InitInv, DueInit, <1>1, <1>2, PTL DEF Spec
===============================================================================
