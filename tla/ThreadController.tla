--------------------------- MODULE ThreadController ---------------------------
(***************************************************************************)
(* ArduinoThread: a ThreadController runs the Threads in its slots that    *)
(* are due.  It is called from the sketch's loop, where the callbacks of   *)
(* threads may themselves add and remove threads, or, as the README and    *)
(* the example ControllerWithTimer do, from a timer interrupt, which may   *)
(* come in the middle of an add, remove or clear of the sketch.            *)
(***************************************************************************)
EXTENDS Integers, FiniteSets

CONSTANTS
  Threads,       \* the Thread objects, each standing for its ThreadID too
  Controller,    \* the controller, which is a Thread itself
  NoThread,      \* NULL
  MaxThreads,    \* MAX_THREADS
  Intervals,     \* what setInterval is called with
  NullReads,     \* the ThreadIDs that may be read through a NULL pointer
  Longs,         \* how many values a long has: 2^32 on the targets
  MaxTime,       \* bound: millis() stops here, unless it is Longs
  MaxEdits       \* bound: how often callbacks add or remove in one run

ASSUME ControllerAssumption ==
  /\ Controller \notin Threads /\ NoThread \notin Threads
  /\ MaxThreads \in Nat \ {0} /\ Longs \in Nat \ {0} /\ Longs % 2 = 0 /\ MaxTime \in Nat /\ MaxEdits \in Nat
  /\ Intervals \subseteq Int /\ NullReads \subseteq Threads

VARIABLES
  slot,         \* thread[]
  cached_size,
  interval, last_run, _cached_next_run, enabled,   \* of every Thread
  clock,        \* millis()
  edit,         \* the edit of the sketch that still has to set cached_size
  run,          \* the run in progress: who called it, and its locals
  owed          \* the threads that were due when it began and have not run

threadVars == <<interval, last_run, _cached_next_run, enabled>>
vars == <<slot, cached_size, threadVars, clock, edit, run, owed>>

Slots == 0 .. MaxThreads - 1
Used == {i \in Slots : slot[i] # NoThread}
Objects == Threads \union {Controller}

(* A number as a long holds it.                                            *)
Long(n) == LET m == n % Longs IN IF m >= Longs \div 2 THEN m - Longs ELSE m

NotRunning == [by |-> "nobody", i |-> 0, checks |-> 0, time |-> 0, edits |-> 0]

Init ==
  /\ slot = [i \in Slots |-> NoThread] /\ cached_size = 0
  /\ interval = [t \in Objects |-> 0]
  /\ last_run = [t \in Objects |-> 0] /\ _cached_next_run = interval
  /\ enabled = [t \in Objects |-> TRUE]
  /\ clock = 0 /\ edit = "none" /\ run = NotRunning /\ owed = {}

Tick ==
  /\ clock < MaxTime
  /\ clock' = (clock + 1) % Longs
  /\ UNCHANGED <<slot, cached_size, threadVars, edit, run, owed>>

(***************************************************************************)
(* Thread                                                                  *)
(***************************************************************************)
(* runned(), called without a time: it takes millis().                     *)
Runned(t) ==
  /\ last_run' = [last_run EXCEPT ![t] = Long(clock)]
  /\ _cached_next_run' = [_cached_next_run EXCEPT ![t] = Long(Long(clock) + interval[t])]
  /\ UNCHANGED <<interval, enabled>>

(* A negative time means now.                                              *)
ShouldRun(t, time) == (IF time < 0 THEN Long(clock) ELSE time) >= _cached_next_run[t] /\ enabled[t]

(* A negative interval counts as 0.                                        *)
Filtered(n) == IF n < 0 THEN 0 ELSE n

SetInterval(t, n) ==
  /\ run = NotRunning /\ edit = "none"
  /\ interval' = [interval EXCEPT ![t] = Filtered(n)]
  /\ _cached_next_run' = [_cached_next_run EXCEPT ![t] = Long(last_run[t] + Filtered(n))]
  /\ UNCHANGED <<slot, cached_size, last_run, enabled, clock, edit, run, owed>>

(* The sketch sets the member enabled.                                     *)
SetEnabled(t) ==
  /\ run = NotRunning /\ edit = "none"
  /\ enabled' = [enabled EXCEPT ![t] = ~@]
  /\ UNCHANGED <<slot, cached_size, interval, last_run, _cached_next_run, clock, edit, run, owed>>

(***************************************************************************)
(* The list of threads                                                     *)
(***************************************************************************)
Held(t) == \E i \in Slots : slot[i] = t

(* Where add(t) puts t: the first empty slot, unless t is held already.    *)
Place(t) == {i \in Slots : /\ slot[i] = NoThread /\ \A k \in Slots : k < i => slot[k] # NoThread
                           /\ ~Held(t)}

(* The slots at which remove(t) may stop.  It compares the ThreadID behind *)
(* every pointer up to the one it looks for, NULL pointers too.            *)
Match(t) == {i \in Slots : /\ slot[i] = t \/ (slot[i] = NoThread /\ t \in NullReads)
                           /\ \A k \in Slots : k < i => slot[k] # t}

(* add and remove by the sketch: first the slot is written...              *)
Add(t) ==
  /\ run = NotRunning /\ edit = "none"
  /\ \E i \in Place(t) : slot' = [slot EXCEPT ![i] = t]
  /\ edit' = "added"
  /\ UNCHANGED <<cached_size, threadVars, clock, run, owed>>

Remove(t) ==
  /\ run = NotRunning /\ edit = "none"
  /\ \E i \in Match(t) : slot' = [slot EXCEPT ![i] = NoThread]
  /\ edit' = "removed"
  /\ UNCHANGED <<cached_size, threadVars, clock, run, owed>>

Clear ==
  /\ run = NotRunning /\ edit = "none"
  /\ slot' = [i \in Slots |-> NoThread]
  /\ edit' = "cleared"
  /\ UNCHANGED <<cached_size, threadVars, clock, run, owed>>

Bug_CountsOnlyAdds == IF edit = "added" THEN cached_size + 1 ELSE IF edit = "removed" THEN cached_size ELSE 0

NewSize == IF edit = "added" THEN cached_size + 1 ELSE IF edit = "removed" THEN cached_size - 1 ELSE 0

(* ...and then the count.                                                  *)
FinishEdit ==
  /\ run = NotRunning /\ edit # "none"
  /\ cached_size' = NewSize
  /\ edit' = "none"
  /\ UNCHANGED <<slot, threadVars, clock, run, owed>>

(* size(false) counts the threads again.                                   *)
Recount ==
  /\ run = NotRunning /\ edit = "none"
  /\ cached_size' = Cardinality(Used)
  /\ UNCHANGED <<slot, threadVars, clock, edit, run, owed>>

(***************************************************************************)
(* run()                                                                   *)
(***************************************************************************)
(* run() of the controller begins.  (Its own callback would come before.)  *)
Begin(by) ==
  /\ run = NotRunning
  /\ by = "loop" => edit = "none"
  /\ run' = [NotRunning EXCEPT !.by = by, !.time = Long(clock)]
  /\ owed' = {t \in Threads : Held(t) /\ ShouldRun(t, Long(clock))}
  /\ UNCHANGED <<slot, cached_size, threadVars, clock, edit>>

Bug_CountsExactly == run.i < MaxThreads /\ run.checks < cached_size

GoesOn == run.i < MaxThreads /\ run.checks <= cached_size
InLoop == run.by # "nobody" /\ GoesOn

SkipEmpty ==
  /\ InLoop /\ slot[run.i] = NoThread
  /\ run' = [run EXCEPT !.i = @ + 1]
  /\ UNCHANGED <<slot, cached_size, threadVars, clock, edit, owed>>

Pointer(edits) == [run EXCEPT !.i = @ + 1, !.checks = @ + 1, !.edits = @ + edits]

SkipThread ==
  /\ InLoop /\ slot[run.i] # NoThread /\ ~ShouldRun(slot[run.i], run.time)
  /\ run' = Pointer(0)
  /\ UNCHANGED <<slot, cached_size, threadVars, clock, edit, owed>>

(* The callback may add a thread or remove one, itself included, if run()  *)
(* was called from the loop.                                               *)
CallbackAdds(t) == \E i \in Place(t) :
  slot' = [slot EXCEPT ![i] = t] /\ cached_size' = cached_size + 1 /\ owed' = owed \ {slot[run.i]}
CallbackRemoves(t) == \E i \in Match(t) :
  slot' = [slot EXCEPT ![i] = NoThread] /\ cached_size' = cached_size - 1 /\ owed' = owed \ {slot[run.i], slot[i]}
CallbackEdits ==
  /\ run.by = "loop" /\ run.edits < MaxEdits
  /\ \E t \in Threads : CallbackAdds(t) \/ CallbackRemoves(t)
  /\ run' = Pointer(1)
CallbackOnly ==
  run' = Pointer(0) /\ owed' = owed \ {slot[run.i]} /\ UNCHANGED <<slot, cached_size>>

RunThread ==
  /\ InLoop /\ slot[run.i] # NoThread /\ ShouldRun(slot[run.i], run.time)
  /\ Runned(slot[run.i])
  /\ CallbackOnly \/ CallbackEdits
  /\ UNCHANGED <<clock, edit>>

(* The loop has ended; the controller itself has run.                      *)
Finish ==
  /\ run.by # "nobody" /\ ~GoesOn
  /\ Runned(Controller)
  /\ run' = NotRunning /\ owed' = {}
  /\ UNCHANGED <<slot, cached_size, clock, edit>>

Pass == SkipEmpty \/ SkipThread \/ RunThread \/ Finish
Sketch ==
  \/ \E t \in Threads : Add(t) \/ Remove(t) \/ SetEnabled(t) \/ \E n \in Intervals : SetInterval(t, n)
  \/ Clear \/ FinishEdit \/ Recount
Next == Tick \/ Sketch \/ Begin("loop") \/ Begin("timer") \/ Pass

(* The sketch's loop calls run() again and again, and every call goes on.  *)
Spec == Init /\ [][Next]_vars /\ WF_vars(FinishEdit) /\ SF_vars(Begin("loop")) /\ WF_vars(Pass)
-------------------------------------------------------------------------------
(***************************************************************************)
(* Properties                                                              *)
(***************************************************************************)

(* size() is right: between edits cached_size is the number of threads     *)
(* held.  It is kept by hand in add, remove and clear, and run() relies on *)
(* it to know when it has seen every thread.                               *)
SizeCounts == edit = "none" => cached_size = Cardinality(Used)

(* However often it is added, a thread is in one slot at most, so that one *)
(* run() runs it once and one remove() takes it out.                       *)
NoDuplicate == \A i, k \in Used : slot[i] = slot[k] => i = k

(* The array and its counter agree at the end of every edit.               *)
SlotsSound == SizeCounts /\ NoDuplicate

(* run() ends only when every thread that was due when it began, and has   *)
(* not been removed since, has run: also when it interrupts add, remove or *)
(* clear before they have set cached_size, and when callbacks edit the     *)
(* list (up to MaxEdits times).                                            *)
RunsAllDue == run.by # "nobody" /\ ~GoesOn => owed = {}

(* A thread that is due in its slot does not wait for ever.                *)
DueThreadRuns ==
  \A t \in Threads :
    (Held(t) /\ ShouldRun(t, Long(clock))) ~> (~Held(t) \/ ~ShouldRun(t, Long(clock)) \/ last_run[t] = Long(clock))
===============================================================================
