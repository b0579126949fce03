------------------------- MODULE ThrottleFixedGrid -------------------------
(***************************************************************************)
(* dt.ThrottleFixedGridTrailing for one key: calls are put on a grid of    *)
(* slots that starts with the first call, and at the end of a slot its     *)
(* last call is executed.                                                  *)
(*                                                                         *)
(* Callers, timer goroutines and the idle sweeper meet in the key's entry, *)
(* under its mutex, and in the concurrent map, outside of it: an idle      *)
(* entry leaves the map while a caller may be about to lock it.  A section *)
(* under the mutex is one action; the map operations of a caller that does *)
(* not hold it yet are another.  Entries are numbered in the order of      *)
(* their creation, calls in the order in which they get the mutex.         *)
(***************************************************************************)
EXTENDS Integers, Sequences, FiniteSets

CONSTANTS
  Caller,      \* goroutines that may be in ThrottleFixedGridTrailing at a time
  Period,      \* the period all callers of the key pass
  MaxRetries,  \* the literal 64 of the retry loop
  MaxCalls,    \* bound: invocations of ThrottleFixedGridTrailing
  MaxTime      \* bound: last instant of the model's clock

ASSUME ThrottleAssumption ==
  /\ Period \in Nat \ {0}
  /\ MaxRetries \in Nat \ {0}
  /\ MaxCalls \in Nat
  /\ MaxTime \in Nat

VARIABLES
  clock,    \* time, 0 is before everything
  current,  \* throttleFixedGridMaps: the number of the key's entry, 0 for none
  entry,    \* all entries so far; one out of the map may still be referenced
  caller,   \* the goroutines in ThrottleFixedGridTrailing
  asked,    \* invocations so far
  slots,    \* history: the entry and slot of each call that got the mutex
  started,  \* calls handed to a goroutine (go fn()) that has not run yet
  ran       \* calls executed, in order

vars == <<clock, current, entry, caller, asked, slots, started, ran>>

-----------------------------------------------------------------------------
Time == 0..MaxTime
Entry ==
  [epoch : Nat,        \* 0: no call yet
   slot : Int,         \* pendingSlot, -1 for none
   call : Nat,         \* pendingCall, 0 for nil
   deadline : Nat,     \* of the timer, 0 for a nil timer
   armed : BOOLEAN,    \* the timer has neither expired nor been stopped
   firing : Nat,       \* goroutines of expired timers, before onSlotTimerFire's lock
   cleaning : Nat]     \* and after it, before removeFixedGridEntryIfIdle

NewEntry == [epoch |-> 0, slot |-> -1, call |-> 0, deadline |-> 0,
             armed |-> FALSE, firing |-> 0, cleaning |-> 0]

Outside == [pc |-> "outside"]
Inside  == [pc : {"get", "lock"}, entry : Nat, attempts : 1..MaxRetries]

\* Init: no entry, nobody inside.
Init ==
  /\ clock = 1
  /\ current = 0 /\ entry = <<>>
  /\ caller = [c \in Caller |-> Outside]
  /\ asked = 0
  /\ slots = <<>> /\ started = {} /\ ran = <<>>

-----------------------------------------------------------------------------
Begin(c) ==
  /\ caller[c] = Outside
  /\ asked < MaxCalls
  /\ asked' = asked + 1
  /\ caller' = [caller EXCEPT ![c] = [pc |-> "get", entry |-> 0, attempts |-> 1]]
  /\ UNCHANGED <<clock, current, entry, slots, started, ran>>

(* SetIfAbsent a fresh entry, or Get the one that is there.                *)
Obtain(c) ==
  LET e == IF current = 0 THEN Len(entry) + 1 ELSE current
  IN /\ caller[c].pc = "get"
     /\ current' = e
     /\ entry' = IF current = 0 THEN Append(entry, NewEntry) ELSE entry
     /\ caller' = [caller EXCEPT ![c].pc = "lock", ![c].entry = e]
     /\ UNCHANGED <<clock, asked, slots, started, ran>>

(* The entry has left the map meanwhile: again, at most MaxRetries times.  *)
StillCurrent(e) == current = e
Retry(c) ==
  LET r == caller[c]
  IN /\ r.pc = "lock"
     /\ ~StillCurrent(r.entry)
     /\ caller' = [caller EXCEPT ![c] =
          IF r.attempts < MaxRetries
          THEN [pc |-> "get", entry |-> 0, attempts |-> r.attempts + 1]
          ELSE Outside]
     /\ UNCHANGED <<clock, current, entry, asked, slots, started, ran>>

(* Under the mutex: the call becomes the pending call of the slot of now.  *)
(* A call pending for an earlier slot is handed to a goroutine first, and  *)
(* whatever timer there was makes room for one at the end of the slot.     *)
CatchUpLost(x, slot) == FALSE                               \* mutant
CatchUp(x, slot) == x.call # 0 /\ slot > x.slot

StoppedTimer(x, epoch, slot) ==                             \* mutant
  [x EXCEPT !.deadline = epoch + (slot + 1) * Period, !.armed = x.deadline = 0]
WithTimer(x, epoch, slot) ==
  [x EXCEPT !.deadline = epoch + (slot + 1) * Period, !.armed = TRUE]

Accept(c) ==
  LET e == caller[c].entry
      x == entry[e]
      epoch == IF x.epoch = 0 THEN clock ELSE x.epoch
      slot == (clock - epoch) \div Period
  IN /\ caller[c].pc = "lock"
     /\ StillCurrent(e)
     /\ started' = IF CatchUp(x, slot) THEN started \cup {x.call} ELSE started
     /\ slots' = Append(slots, [entry |-> e, slot |-> slot])
     /\ entry' = [entry EXCEPT ![e] =
          [WithTimer(x, epoch, slot) EXCEPT
             !.epoch = epoch, !.slot = slot, !.call = Len(slots) + 1]]
     /\ caller' = [caller EXCEPT ![c] = Outside]
     /\ UNCHANGED <<clock, current, asked, ran>>

-----------------------------------------------------------------------------
(* The runtime starts the goroutine of a timer at its deadline.            *)
Expire(e) ==
  /\ entry[e].armed
  /\ clock >= entry[e].deadline
  /\ entry' = [entry EXCEPT ![e].armed = FALSE, ![e].firing = @ + 1]
  /\ UNCHANGED <<clock, current, caller, asked, slots, started, ran>>

(* onSlotTimerFire: the pending call, if there is one, is taken out with   *)
(* its timer and handed to a goroutine.                                    *)
KeepPending(x) == x                                         \* mutant
AllReset(x) ==                                              \* mutant
  [x EXCEPT !.slot = -1, !.call = -1, !.deadline = 0, !.armed = FALSE]
Flushed(x) == [x EXCEPT !.slot = -1, !.call = 0, !.deadline = 0, !.armed = FALSE]

Fire(e) ==
  LET x == entry[e]
      y == IF x.call = 0 THEN x ELSE Flushed(x)
  IN /\ x.firing > 0
     /\ started' = IF x.call = 0 THEN started ELSE started \cup {x.call}
     /\ entry' = [entry EXCEPT ![e] =
          [y EXCEPT !.firing = x.firing - 1, !.cleaning = x.cleaning + 1]]
     /\ UNCHANGED <<clock, current, caller, asked, slots, ran>>

(* removeFixedGridEntryIfIdle, after a timer ...                           *)
IdleTimer(x) == x.deadline = 0 \/ ~x.armed                  \* mutant
Idle(x) == x.call = 0 /\ x.deadline = 0

Clean(e) ==
  /\ entry[e].cleaning > 0
  /\ entry' = [entry EXCEPT ![e].cleaning = @ - 1]
  /\ current' = IF current = e /\ Idle(entry[e]) THEN 0 ELSE current
  /\ UNCHANGED <<clock, caller, asked, slots, started, ran>>

(* ... or by the sweeper, for which a fresh entry is idle too.             *)
Sweep ==
  /\ current # 0
  /\ Idle(entry[current])
  /\ current' = 0
  /\ UNCHANGED <<clock, entry, caller, asked, slots, started, ran>>

(* A goroutine runs its call.                                              *)
Run(k) ==
  /\ k \in started
  /\ started' = started \ {k}
  /\ ran' = Append(ran, k)
  /\ UNCHANGED <<clock, current, entry, caller, asked, slots>>

Tick ==
  /\ clock < MaxTime
  /\ clock' = clock + 1
  /\ UNCHANGED <<current, entry, caller, asked, slots, started, ran>>

-----------------------------------------------------------------------------
CallerStep(c) == Obtain(c) \/ Retry(c) \/ Accept(c)

Next ==
  \/ \E c \in Caller : Begin(c) \/ CallerStep(c)
  \/ \E e \in DOMAIN entry : Expire(e) \/ Fire(e) \/ Clean(e)
  \/ Sweep
  \/ \E k \in started : Run(k)
  \/ Tick

Spec == Init /\ [][Next]_vars

(* Timers expire, their goroutines and those of the calls get to run, time *)
(* passes; callers come when they like.                                    *)
Fairness ==
  /\ \A c \in Caller : WF_vars(CallerStep(c))
  /\ WF_vars(\E e \in DOMAIN entry : Expire(e))
  /\ WF_vars(\E e \in DOMAIN entry : Fire(e))
  /\ WF_vars(\E k \in started : Run(k))
  /\ WF_vars(Tick)

FairSpec == Spec /\ Fairness

-----------------------------------------------------------------------------
Call == 1..Len(slots)
Place == [entry : Nat, slot : Nat]

(* Types of the variables.                                                 *)
TypeOK ==
  /\ clock \in Nat /\ clock >= 1
  /\ entry \in Seq(Entry)
  /\ current \in 0..Len(entry)
  /\ caller \in [Caller -> {Outside} \cup Inside]
  /\ \A c \in Caller : caller[c].pc = "lock" => caller[c].entry \in 1..Len(entry)
  /\ asked \in Nat
  /\ slots \in Seq(Place)
  /\ \A k \in Call : slots[k].entry \in 1..Len(entry)
  /\ started \subseteq Call
  /\ ran \in Seq(Call)

(* A pending call always has a goroutine to come for it: a timer that is   *)
(* still to expire or one whose goroutine waits for the mutex.             *)
PendingHasTimer ==
  \A e \in DOMAIN entry :
    entry[e].call # 0 => entry[e].armed \/ entry[e].firing > 0

(* A call that got the mutex is not lost: it is pending, on its way, done, *)
(* or a later call of its slot has taken its place.                        *)
Pending(k) == \E e \in DOMAIN entry : entry[e].call = k
Done(k)    == \E j \in DOMAIN ran : ran[j] = k
Covered(k) == \E j \in Call : j > k /\ slots[j] = slots[k]
NoCallLost == \A k \in Call : Pending(k) \/ k \in started \/ Done(k) \/ Covered(k)

(* No call is executed twice, whoever takes it out of the entry.           *)
RunsOnce ==
  /\ \A i, j \in DOMAIN ran : ran[i] = ran[j] => i = j
  /\ \A j \in DOMAIN ran : ran[j] \notin started /\ ~Pending(ran[j])

(* A call that got the mutex is executed or covered in the end.            *)
EveryCallEnds ==
  \A k \in 1..MaxCalls :
    k \in Call /\ clock + 2 * Period <= MaxTime ~> Done(k) \/ Covered(k)

(* With entries, timers, retries and removals out of sight it is a place   *)
(* for one waiting call: the key's entry is where calls meet, whichever    *)
(* goroutine takes the call out, and no grid starts beside a running one.  *)
Waiting == IF current = 0 THEN 0 ELSE entry[current].call
Contract == INSTANCE TrailingCalls WITH place <- slots, waiting <- Waiting, due <- started
KeepsContract == Contract!Spec
=============================================================================
