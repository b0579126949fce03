--------------------------- MODULE ThrottleProofs ---------------------------
EXTENDS ThrottleFixedGrid, SequenceTheorems, TLAPS

(* What the slot of an instant is: the grid cell that contains it.         *)
LEMMA SlotBounds ==
  ASSUME NEW t \in Nat, NEW p \in Nat \ {0}
  PROVE  /\ t \div p \in Nat
         /\ (t \div p) * p <= t
         /\ t < (t \div p + 1) * p
  BY SMT

(* Instants further on have no smaller slot.                               *)
LEMMA SlotMonotone ==
  ASSUME NEW m \in Nat, NEW n \in Nat, NEW p \in Nat \ {0},
         m * p < (n + 1) * p
  PROVE  m <= n
<1>1. SUFFICES ASSUME m >= n + 1 PROVE FALSE
  OBVIOUS
<1>2. PICK k \in Nat : m = n + 1 + k
  <2>1. m - n - 1 \in Nat
    BY <1>1, SMT
  <2> QED
    BY <2>1, SMT
<1>3. m * p = (n + 1) * p + k * p
  BY <1>2, SMT
<1>4. k * p \in Nat
  BY SMT
<1> QED
  BY <1>3, <1>4, SMT

-----------------------------------------------------------------------------
(* A step that gives the entry e of the sequence a new value.              *)
LEMMA EntryUpdate ==
  ASSUME TypeOK, NEW e \in DOMAIN entry, NEW x \in Entry,
         entry' = [entry EXCEPT ![e] = x]
  PROVE  /\ entry' \in Seq(Entry) /\ Len(entry') = Len(entry)
         /\ DOMAIN entry' = DOMAIN entry
         /\ entry'[e] = x
         /\ \A f \in DOMAIN entry : f # e => entry'[f] = entry[f]
  BY ExceptSeq DEF TypeOK

(* What the sections under the mutex make of an entry: the timer of        *)
(* Expire, the two cases of Fire, Clean, and the new call of Accept.       *)
Expired(x) == [x EXCEPT !.armed = FALSE, !.firing = x.firing + 1]
FiredNothing(x) == [x EXCEPT !.firing = x.firing - 1, !.cleaning = x.cleaning + 1]
FiredCall(x) ==
  [Flushed(x) EXCEPT !.firing = x.firing - 1, !.cleaning = x.cleaning + 1]
Cleaned(x) == [x EXCEPT !.cleaning = x.cleaning - 1]
EpochOf(x) == IF x.epoch = 0 THEN clock ELSE x.epoch
SlotOf(x)  == (clock - EpochOf(x)) \div Period
Called(x)  ==
  [WithTimer(x, EpochOf(x), SlotOf(x)) EXCEPT
     !.epoch = EpochOf(x), !.slot = SlotOf(x), !.call = Len(slots) + 1]

LEMMA ExpiredEntry ==
  ASSUME NEW x \in Entry
  PROVE  /\ Expired(x) \in Entry
         /\ Expired(x).call = x.call /\ Expired(x).epoch = x.epoch
         /\ Expired(x).slot = x.slot /\ Expired(x).firing > 0
         /\ Expired(x).deadline = x.deadline
<1> DEFINE n == x.firing + 1
           y == [x EXCEPT !.armed = FALSE, !.firing = n]
<1>1. n \in Nat /\ n > 0
  BY DEF Entry
<1> HIDE DEF n
<1>2. /\ y \in Entry /\ y.firing = n
      /\ y.call = x.call /\ y.epoch = x.epoch /\ y.slot = x.slot
      /\ y.deadline = x.deadline
  BY <1>1 DEF Entry
<1> QED
  BY <1>1, <1>2 DEF Expired, n

LEMMA FiredEntry ==
  ASSUME NEW x \in Entry, x.firing > 0
  PROVE  /\ FiredNothing(x) \in Entry /\ FiredCall(x) \in Entry
         /\ FiredCall(x).call = 0 /\ FiredNothing(x).call = x.call
         /\ FiredCall(x).epoch = x.epoch /\ FiredNothing(x).epoch = x.epoch
<1> DEFINE m == x.firing - 1
           n == x.cleaning + 1
           y == [x EXCEPT !.firing = m, !.cleaning = n]
           z == Flushed(x)
<1>1. m \in Nat /\ n \in Nat
  BY DEF Entry
<1>2. /\ Flushed(x) \in [epoch : Nat, slot : Int, call : Nat, deadline : Nat,
                         armed : BOOLEAN, firing : Nat, cleaning : Nat]
      /\ Flushed(x).call = 0 /\ Flushed(x).epoch = x.epoch
  <2>1. -1 \in Int /\ 0 \in Nat /\ FALSE \in BOOLEAN
    OBVIOUS
  <2> DEFINE k == -1
  <2> HIDE DEF k
  <2>2. k \in Int => [x EXCEPT !.slot = k, !.call = 0, !.deadline = 0, !.armed = FALSE] \in Entry
    BY DEF Entry
  <2>3. /\ [x EXCEPT !.slot = k, !.call = 0, !.deadline = 0, !.armed = FALSE].call = 0
        /\ [x EXCEPT !.slot = k, !.call = 0, !.deadline = 0, !.armed = FALSE].epoch = x.epoch
    BY DEF Entry
  <2> QED
    BY <2>1, <2>2, <2>3 DEF Flushed, k, Entry
<1> HIDE DEF m, n, z
<1>3. y \in Entry /\ y.call = x.call /\ y.epoch = x.epoch
  BY <1>1 DEF Entry
<1>4. z \in Entry /\ z.call = 0 /\ z.epoch = x.epoch
  BY <1>2 DEF Entry, z
<1>5. [z EXCEPT !.firing = m, !.cleaning = n] \in Entry
      /\ [z EXCEPT !.firing = m, !.cleaning = n].call = 0
      /\ [z EXCEPT !.firing = m, !.cleaning = n].epoch = x.epoch
  BY <1>1, <1>4 DEF Entry
<1> QED
  BY <1>3, <1>5 DEF FiredNothing, FiredCall, m, n, z

LEMMA CleanedEntry ==
  ASSUME NEW x \in Entry, x.cleaning > 0
  PROVE  /\ Cleaned(x) \in Entry
         /\ Cleaned(x).call = x.call /\ Cleaned(x).epoch = x.epoch
         /\ Cleaned(x).slot = x.slot /\ Cleaned(x).armed = x.armed
         /\ Cleaned(x).firing = x.firing
  BY DEF Entry, Cleaned

(* The clock is not behind the entries' epochs.                            *)
Epochs == \A e \in DOMAIN entry : entry[e].epoch <= clock

LEMMA CalledEntry ==
  ASSUME TypeOK, Epochs, NEW e \in DOMAIN entry
  PROVE  LET x == entry[e] IN
         /\ EpochOf(x) \in Nat /\ EpochOf(x) >= 1 /\ EpochOf(x) <= clock
         /\ clock - EpochOf(x) \in Nat /\ SlotOf(x) \in Nat
         /\ Called(x) \in Entry
         /\ Called(x).call = Len(slots) + 1 /\ Called(x).armed
         /\ Called(x).slot = SlotOf(x) /\ Called(x).epoch = EpochOf(x)
<1> DEFINE x == entry[e]
<1> USE ThrottleAssumption
<1>1. x \in Entry /\ x.epoch <= clock /\ Len(slots) \in Nat /\ clock \in Nat /\ clock >= 1
  BY DEF TypeOK, Epochs
<1>2. EpochOf(x) \in Nat /\ EpochOf(x) >= 1 /\ EpochOf(x) <= clock
      /\ clock - EpochOf(x) \in Nat
  BY <1>1 DEF EpochOf, Entry
<1>3. SlotOf(x) \in Nat
  BY <1>2, SlotBounds DEF SlotOf
<1> HIDE DEF x
<1>4. EpochOf(x) + (SlotOf(x) + 1) * Period \in Nat
  <2>1. (SlotOf(x) + 1) * Period \in Nat
    BY <1>3, SMT
  <2> QED
    BY <1>2, <2>1
<1> DEFINE d == EpochOf(x) + (SlotOf(x) + 1) * Period
           o == EpochOf(x)
           t == SlotOf(x)
           k == Len(slots) + 1
           w == [x EXCEPT !.deadline = d, !.armed = TRUE]
           y == [w EXCEPT !.epoch = o, !.slot = t, !.call = k]
<1>5. /\ Called(x) = y /\ k \in Nat /\ d \in Nat /\ o \in Nat /\ t \in Nat
  BY <1>1, <1>2, <1>3, <1>4 DEF Called, WithTimer
<1>6. /\ Called(x) \in Entry
      /\ Called(x).call = Len(slots) + 1 /\ Called(x).armed
      /\ Called(x).slot = SlotOf(x) /\ Called(x).epoch = EpochOf(x)
  <2> HIDE DEF d, o, t, k
  <2>1. w \in Entry
    BY <1>1, <1>5 DEF Entry
  <2> HIDE DEF w
  <2>2. y \in Entry /\ y.call = k /\ y.slot = t /\ y.epoch = o /\ y.armed = w.armed
    <3>1. y \in Entry
      <4>1. t \in Int
        BY <1>5
      <4>2. [w EXCEPT !.epoch = o] \in Entry
        BY <1>5, <2>1 DEF Entry
      <4>3. [w EXCEPT !.epoch = o, !.slot = t] \in Entry
        BY <4>1, <4>2 DEF Entry
      <4> QED
        BY <1>5, <4>3 DEF Entry
    <3>2. y.call = k /\ y.slot = t /\ y.epoch = o
      BY <2>1 DEF Entry
    <3>3. y.armed = w.armed
      BY <2>1 DEF Entry
    <3> QED
      BY <3>1, <3>2, <3>3
  <2>3. w.armed
    BY <1>1 DEF w, Entry
  <2> QED
    BY <1>5, <2>2, <2>3 DEF k, t, o
<1> QED
  BY <1>2, <1>3, <1>6 DEF x

(* The steps, by what they do to the entries.                              *)
LEMMA ExpireStep ==
  ASSUME TypeOK, NEW e \in DOMAIN entry, Expire(e)
  PROVE  entry' = [entry EXCEPT ![e] = Expired(entry[e])]
  BY DEF Expire, Expired, TypeOK, Entry

LEMMA FireStep ==
  ASSUME TypeOK, NEW e \in DOMAIN entry, Fire(e)
  PROVE  /\ entry[e].call = 0 => entry' = [entry EXCEPT ![e] = FiredNothing(entry[e])]
         /\ entry[e].call # 0 => entry' = [entry EXCEPT ![e] = FiredCall(entry[e])]
  BY DEF Fire, FiredNothing, FiredCall

LEMMA CleanStep ==
  ASSUME TypeOK, NEW e \in DOMAIN entry, Clean(e)
  PROVE  entry' = [entry EXCEPT ![e] = Cleaned(entry[e])]
  BY DEF Clean, Cleaned, TypeOK, Entry

LEMMA AcceptStep ==
  ASSUME TypeOK, NEW c \in Caller, Accept(c)
  PROVE  /\ caller[c].entry \in DOMAIN entry /\ current = caller[c].entry
         /\ entry' = [entry EXCEPT ![current] = Called(entry[current])]
         /\ slots' = Append(slots, [entry |-> current, slot |-> SlotOf(entry[current])])
  BY DEF Accept, Called, EpochOf, SlotOf, StillCurrent, TypeOK

-----------------------------------------------------------------------------
(* A pending call is one that got the mutex.                               *)
CallNumbers == \A e \in DOMAIN entry : entry[e].call \in 0..Len(slots)

TypeInv == TypeOK /\ Epochs /\ CallNumbers

(* Steps that change one entry, the calls handed over and perhaps what is  *)
(* in the map keep the types.                                              *)
LEMMA EntryStep ==
  ASSUME TypeInv, NEW e \in DOMAIN entry, NEW x \in Entry,
         entry' = [entry EXCEPT ![e] = x],
         x.epoch <= clock, x.call \in 0..Len(slots),
         current' \in {0, current}, started' \subseteq Call,
         UNCHANGED <<clock, caller, asked, slots, ran>>
  PROVE  TypeInv'
<1>1. TypeOK /\ Epochs /\ CallNumbers
  BY DEF TypeInv
<1>2. /\ entry' \in Seq(Entry) /\ Len(entry') = Len(entry)
      /\ DOMAIN entry' = DOMAIN entry /\ entry'[e] = x
      /\ \A f \in DOMAIN entry : f # e => entry'[f] = entry[f]
  BY <1>1, EntryUpdate
<1>3. TypeOK'
  BY <1>1, <1>2 DEF TypeOK, Call
<1>4. Epochs'
  BY <1>1, <1>2 DEF Epochs
<1>5. CallNumbers'
  BY <1>1, <1>2 DEF CallNumbers
<1> QED
  BY <1>3, <1>4, <1>5 DEF TypeInv

(* The type invariant holds: every goroutine refers to an entry that was   *)
(* created, every call number to a call that was accepted.  That no epoch  *)
(* lies in the future makes it inductive: slots are never negative.        *)
LEMMA TypeInductive == Spec => []TypeInv
<1>1. Init => TypeInv
  BY DEF Init, TypeInv, TypeOK, Epochs, CallNumbers, Inside, Outside, Call
<1>2. TypeInv /\ [Next]_vars => TypeInv'
  <2> SUFFICES ASSUME TypeInv, [Next]_vars PROVE TypeInv'
    OBVIOUS
  <2> USE ThrottleAssumption
  <2>0. /\ TypeOK /\ Epochs /\ CallNumbers /\ entry \in Seq(Entry) /\ Len(entry) \in Nat
        /\ DOMAIN entry = 1..Len(entry) /\ clock \in Nat
    BY DEF TypeInv, TypeOK
  <2>1. ASSUME NEW c \in Caller, Begin(c) PROVE TypeInv'
    BY <2>0, <2>1 DEF TypeInv, Epochs, CallNumbers, TypeOK, Begin, Inside, Outside, Call
  <2>2. ASSUME NEW c \in Caller, Obtain(c) PROVE TypeInv'
    <3>1. /\ entry' \in Seq(Entry) /\ Len(entry') \in Nat /\ Len(entry') >= Len(entry)
          /\ current' \in 1..Len(entry')
          /\ \A e \in DOMAIN entry' : entry'[e].epoch <= clock /\ entry'[e].call \in 0..Len(slots)
      <4>1. CASE current = 0
        <5>1. NewEntry \in Entry /\ NewEntry.epoch = 0 /\ NewEntry.call = 0 /\ Len(slots) \in Nat
          BY <2>0 DEF NewEntry, Entry, TypeOK
        <5>2. entry' = Append(entry, NewEntry) /\ current' = Len(entry) + 1
          BY <2>2, <4>1 DEF Obtain
        <5>3. \A e \in DOMAIN entry' : \/ e \in DOMAIN entry /\ entry'[e] = entry[e]
                                     \/ entry'[e] = NewEntry
          BY <2>0, <5>1, <5>2, AppendProperties
        <5> QED
          BY <2>0, <5>1, <5>2, <5>3, AppendProperties DEF Epochs, CallNumbers
      <4>2. CASE current # 0
        BY <2>0, <2>2, <4>2 DEF Obtain, TypeOK, Epochs, CallNumbers
      <4> QED
        BY <4>1, <4>2
    <3>2. caller' = [caller EXCEPT ![c] = [caller[c] EXCEPT !.pc = "lock", !.entry = current']]
      BY <2>2 DEF Obtain
    <3>3. caller[c] \in Inside
      BY <2>0, <2>2 DEF Obtain, TypeOK, Outside
    <3>4. /\ [caller[c] EXCEPT !.pc = "lock", !.entry = current'] \in Inside
          /\ [caller[c] EXCEPT !.pc = "lock", !.entry = current'].entry = current'
      <4>1. current' \in Nat
        BY <3>1
      <4> HIDE DEF Obtain
      <4> QED
        BY <3>3, <4>1 DEF Inside
    <3>5. caller' \in [Caller -> {Outside} \cup Inside]
      BY <2>0, <3>2, <3>4 DEF TypeOK
    <3>6. ASSUME NEW d \in Caller, caller'[d].pc = "lock"
          PROVE  caller'[d].entry \in 1..Len(entry')
      <4>1. CASE d = c
        BY <2>0, <3>1, <3>2, <3>4, <4>1 DEF TypeOK
      <4>2. CASE d # c
        <5>1. caller'[d] = caller[d]
          BY <2>0, <3>2, <4>2 DEF TypeOK
        <5>2. caller[d].entry \in 1..Len(entry)
          BY <2>0, <3>6, <5>1 DEF TypeOK
        <5> QED
          BY <2>0, <3>1, <5>1, <5>2
      <4> QED
        BY <4>1, <4>2
    <3>7. UNCHANGED <<clock, asked, slots, started, ran>>
      BY <2>2 DEF Obtain
    <3>8. \A k \in Call : slots[k].entry \in 1..Len(entry')
      BY <2>0, <3>1 DEF TypeOK, Call
    <3> QED
      BY <2>0, <3>1, <3>5, <3>6, <3>7, <3>8 DEF TypeInv, TypeOK, Epochs, CallNumbers, Call
  <2>3. ASSUME NEW c \in Caller, Retry(c) PROVE TypeInv'
    <3>1. /\ caller'[c].pc # "lock" /\ caller'[c] \in {Outside} \cup Inside
          /\ caller' = [caller EXCEPT ![c] = caller'[c]]
      <4>1. caller[c] \in Inside
        BY <2>0, <2>3 DEF Retry, TypeOK, Outside
      <4> QED
        BY <2>0, <2>3, <4>1 DEF Retry, TypeOK, Inside, Outside
    <3>2. UNCHANGED <<clock, current, entry, asked, slots, started, ran>>
      BY <2>3 DEF Retry
    <3>3. caller' \in [Caller -> {Outside} \cup Inside]
      BY <2>0, <3>1 DEF TypeOK
    <3>4. \A d \in Caller : caller'[d].pc = "lock" => caller'[d] = caller[d]
      BY <2>0, <3>1 DEF TypeOK
    <3> QED
      BY <2>0, <3>2, <3>3, <3>4 DEF TypeInv, TypeOK, Epochs, CallNumbers, Call
  <2>4. ASSUME NEW c \in Caller, Accept(c) PROVE TypeInv'
    <3> DEFINE x == entry[current]
    <3>1. /\ current \in DOMAIN entry
          /\ entry' = [entry EXCEPT ![current] = Called(x)]
          /\ slots' = Append(slots, [entry |-> current, slot |-> SlotOf(x)])
      BY <2>0, <2>4, AcceptStep
    <3>2. /\ Called(x) \in Entry /\ Called(x).epoch <= clock /\ SlotOf(x) \in Nat
      BY <2>0, <3>1, CalledEntry
    <3> HIDE DEF x
    <3>3. /\ entry' \in Seq(Entry) /\ Len(entry') = Len(entry)
          /\ DOMAIN entry' = DOMAIN entry
          /\ \A f \in DOMAIN entry : entry'[f] = IF f = current THEN Called(x) ELSE entry[f]
      BY <2>0, <3>1, <3>2, EntryUpdate
    <3>4. [entry |-> current, slot |-> SlotOf(x)] \in Place
      BY <2>0, <3>1, <3>2 DEF Place
    <3>5. /\ slots' \in Seq(Place) /\ Len(slots') = Len(slots) + 1
          /\ \A k \in 1..Len(slots') : slots'[k].entry \in 1..Len(entry)
      BY <2>0, <3>1, <3>4, AppendProperties DEF TypeOK, Call
    <3>6. started' \subseteq 1..Len(slots')
      <4>1. x.call \in 0..Len(slots) /\ started \subseteq 1..Len(slots) /\ Len(slots) \in Nat
        BY <2>0, <3>1 DEF x, CallNumbers, TypeOK, Call
      <4>2. started' \subseteq started \cup {x.call} /\ (x.call = 0 => started' = started)
        BY <2>4, <3>1 DEF x, Accept, CatchUp, StillCurrent
      <4> QED
        BY <3>5, <4>1, <4>2
    <3>7. /\ caller' = [caller EXCEPT ![c] = Outside]
          /\ UNCHANGED <<clock, current, asked, ran>>
      BY <2>4 DEF Accept
    <3>8. /\ caller' \in [Caller -> {Outside} \cup Inside]
          /\ \A d \in Caller : caller'[d].pc = "lock" => caller'[d].entry \in 1..Len(entry)
      BY <2>0, <3>7 DEF TypeOK, Outside
    <3>9. ran' \in Seq(1..Len(slots'))
      <4>1. /\ ran \in Seq(1..Len(slots)) /\ Len(slots) \in Nat
            /\ 1..Len(slots) \subseteq 1..Len(slots')
        BY <2>0, <3>5 DEF TypeOK, Call
      <4>2. ran \in Seq(1..Len(slots'))
        <5>1. \A j \in 1..Len(ran) : ran[j] \in 1..Len(slots')
          BY <4>1
        <5> QED
          BY <4>1, <5>1
      <4> QED
        BY <3>7, <4>2
    <3>10. TypeOK'
      BY <2>0, <3>3, <3>5, <3>6, <3>7, <3>8, <3>9 DEF TypeOK, Call
    <3>11. Epochs' /\ CallNumbers'
      <4>1. Called(x).call = Len(slots) + 1 /\ Len(slots) \in Nat
        BY <2>0, <3>1, CalledEntry DEF x, TypeOK
      <4>2. Epochs'
        BY <2>0, <3>2, <3>3, <3>7 DEF Epochs
      <4>3. ASSUME NEW f \in DOMAIN entry PROVE entry'[f].call \in 0..(Len(slots) + 1)
        <5>1. entry[f].call \in 0..Len(slots)
          BY <2>0 DEF CallNumbers
        <5>2. entry'[f] = Called(x) \/ entry'[f] = entry[f]
          BY <3>3
        <5> QED
          BY <4>1, <5>1, <5>2
      <4> QED
        BY <3>3, <3>5, <4>2, <4>3 DEF CallNumbers
    <3> QED
      BY <3>10, <3>11 DEF TypeInv
  <2>5. ASSUME NEW e \in DOMAIN entry, Expire(e) PROVE TypeInv'
    <3>1. /\ entry[e] \in Entry /\ entry[e].epoch <= clock
          /\ entry[e].call \in 0..Len(slots) /\ started \subseteq Call
      BY <2>0 DEF TypeOK, Epochs, CallNumbers
    <3>2. UNCHANGED <<clock, current, caller, asked, slots, started, ran>>
      BY <2>5 DEF Expire
    <3> QED
      BY <2>0, <2>5, <3>1, <3>2, ExpireStep, ExpiredEntry, EntryStep
  <2>6. ASSUME NEW e \in DOMAIN entry, Fire(e) PROVE TypeInv'
    <3>1. /\ entry[e] \in Entry /\ entry[e].epoch <= clock
          /\ entry[e].call \in 0..Len(slots) /\ started \subseteq Call
          /\ Len(slots) \in Nat
      BY <2>0 DEF TypeOK, Epochs, CallNumbers
    <3>2. /\ UNCHANGED <<clock, current, caller, asked, slots, ran>>
          /\ entry[e].firing > 0
          /\ started' = IF entry[e].call = 0 THEN started ELSE started \cup {entry[e].call}
      BY <2>6 DEF Fire
    <3>3. started' \subseteq Call
      <4>1. entry[e].call # 0 => entry[e].call \in 1..Len(slots)
        BY <3>1
      <4> QED
        BY <3>1, <3>2, <4>1 DEF Call
    <3>4. CASE entry[e].call = 0
      <4> DEFINE y == FiredNothing(entry[e])
      <4>1. entry' = [entry EXCEPT ![e] = y]
        BY <2>0, <2>6, <3>4, FireStep
      <4>2. y \in Entry /\ y.epoch = entry[e].epoch /\ y.call \in 0..Len(slots)
        BY <3>1, <3>2, <3>4, FiredEntry
      <4> HIDE DEF y
      <4> QED
        BY <2>0, <3>1, <3>2, <3>3, <4>1, <4>2, EntryStep
    <3>5. CASE entry[e].call # 0
      <4> DEFINE y == FiredCall(entry[e])
      <4>1. entry' = [entry EXCEPT ![e] = y]
        BY <2>0, <2>6, <3>5, FireStep
      <4>2. y \in Entry /\ y.epoch = entry[e].epoch /\ y.call \in 0..Len(slots)
        BY <3>1, <3>2, <3>5, FiredEntry
      <4> HIDE DEF y
      <4> QED
        BY <2>0, <3>1, <3>2, <3>3, <4>1, <4>2, EntryStep
    <3> QED
      BY <3>4, <3>5
  <2>7. ASSUME NEW e \in DOMAIN entry, Clean(e) PROVE TypeInv'
    <3>1. /\ entry[e] \in Entry /\ entry[e].epoch <= clock
          /\ entry[e].call \in 0..Len(slots) /\ started \subseteq Call
      BY <2>0 DEF TypeOK, Epochs, CallNumbers
    <3>2. /\ UNCHANGED <<clock, caller, asked, slots, started, ran>>
          /\ entry[e].cleaning > 0 /\ current' \in {0, current}
      BY <2>7 DEF Clean
    <3> QED
      BY <2>0, <2>7, <3>1, <3>2, CleanStep, CleanedEntry, EntryStep
  <2>8. ASSUME Sweep PROVE TypeInv'
    BY <2>0, <2>8 DEF Sweep, TypeInv, TypeOK, Epochs, CallNumbers, Call
  <2>9. ASSUME NEW k \in started, Run(k) PROVE TypeInv'
    <3>1. /\ started' = started \ {k} /\ ran' = Append(ran, k)
          /\ UNCHANGED <<clock, current, entry, caller, asked, slots>>
      BY <2>9 DEF Run
    <3>2. k \in Call
      BY <2>0 DEF TypeOK
    <3>3. ran' \in Seq(Call)
      BY <2>0, <3>1, <3>2 DEF TypeOK
    <3> QED
      BY <2>0, <3>1, <3>3 DEF TypeInv, TypeOK, Epochs, CallNumbers, Call
  <2>10. ASSUME Tick PROVE TypeInv'
    <3>1. /\ clock' \in Nat /\ clock' >= 1 /\ clock' > clock
          /\ UNCHANGED <<current, entry, caller, asked, slots, started, ran>>
      BY <2>0, <2>10 DEF Tick, TypeOK
    <3>2. \A e \in DOMAIN entry : entry[e].epoch \in Nat
      <4>1. \A e \in DOMAIN entry : entry[e] \in Entry
        BY <2>0
      <4> QED
        BY <4>1 DEF Entry
    <3>3. Epochs'
      BY <2>0, <3>1, <3>2 DEF Epochs
    <3> QED
      BY <2>0, <3>1, <3>3 DEF TypeInv, TypeOK, CallNumbers, Call
  <2>11. ASSUME UNCHANGED vars PROVE TypeInv'
    BY <2>0, <2>11 DEF vars, TypeInv, TypeOK, Epochs, CallNumbers, Call
  <2> QED
    BY <2>1, <2>2, <2>3, <2>4, <2>5, <2>6, <2>7, <2>8, <2>9, <2>10, <2>11
       DEF Next, CallerStep
<1> QED
  BY <1>1, <1>2, PTL DEF Spec

(* The types are kept: a goroutine refers to an entry that was created, a  *)
(* call that is started or executed is one that got the mutex.             *)
THEOREM TypeCorrect == Spec => []TypeOK
<1>1. TypeInv => TypeOK
  BY DEF TypeInv
<1> QED
  BY <1>1, TypeInductive, PTL

-----------------------------------------------------------------------------
(* Steps outside of the entries change no entry.                           *)
LEMMA OtherSteps ==
  ASSUME TypeInv,
         \/ \E c \in Caller : Begin(c) \/ Retry(c)
         \/ Sweep \/ (\E k \in started : Run(k)) \/ Tick \/ UNCHANGED vars
  PROVE  /\ entry' = entry /\ slots' = slots
         /\ ~Sweep => current' = current
  BY DEF Begin, Retry, Sweep, Run, Tick, vars

(* Obtain adds at most an entry without a call, and only to an empty map.  *)
LEMMA ObtainStep ==
  ASSUME TypeInv, NEW c \in Caller, Obtain(c)
  PROVE  /\ slots' = slots /\ started' = started /\ ran' = ran /\ clock' = clock
         /\ current # 0 => entry' = entry /\ current' = current
         /\ \A e \in DOMAIN entry : e \in DOMAIN entry' /\ entry'[e] = entry[e]
         /\ \A e \in DOMAIN entry' : e \in DOMAIN entry \/ entry'[e].call = 0
<1>1. entry \in Seq(Entry) /\ Len(entry) \in Nat /\ DOMAIN entry = 1..Len(entry)
  BY DEF TypeInv, TypeOK
<1>2. CASE current = 0
  <2>1. NewEntry \in Entry /\ NewEntry.call = 0
    BY DEF NewEntry, Entry
  <2>2. entry' = Append(entry, NewEntry)
    BY <1>2 DEF Obtain
  <2> HIDE DEF NewEntry
  <2>3. /\ \A e \in 1..Len(entry) : e \in DOMAIN entry' /\ entry'[e] = entry[e]
        /\ \A e \in DOMAIN entry' : e \in 1..Len(entry) \/ entry'[e] = NewEntry
    BY <1>1, <2>1, <2>2, AppendProperties
  <2>4. slots' = slots /\ started' = started /\ ran' = ran /\ clock' = clock
    BY DEF Obtain
  <2> QED
    BY <1>1, <1>2, <2>1, <2>3, <2>4
<1>3. CASE current # 0
  BY <1>3 DEF Obtain
<1> QED
  BY <1>2, <1>3

(* A step of Next, by its effect on pending calls: it is one of the steps  *)
(* that touch one entry, a caller's Obtain, or none of both.               *)
LEMMA StepKinds ==
  ASSUME [Next]_vars
  PROVE  \/ \E c \in Caller : Obtain(c) \/ Accept(c)
         \/ \E e \in DOMAIN entry : Expire(e) \/ Fire(e) \/ Clean(e)
         \/ \E c \in Caller : Begin(c) \/ Retry(c)
         \/ Sweep \/ (\E k \in started : Run(k)) \/ Tick \/ UNCHANGED vars
  BY DEF Next, CallerStep

(* The steps that touch one entry, seen from all entries.                  *)
LEMMA ExpireEffect ==
  ASSUME TypeInv, NEW e \in DOMAIN entry, Expire(e)
  PROVE  /\ DOMAIN entry' = DOMAIN entry
         /\ \A f \in DOMAIN entry :
              /\ entry'[f].call = entry[f].call /\ entry'[f].epoch = entry[f].epoch
              /\ entry'[f].slot = entry[f].slot
              /\ entry[f].armed \/ entry[f].firing > 0
                   => entry'[f].armed \/ entry'[f].firing > 0
         /\ UNCHANGED <<current, slots, started, ran, clock>>
<1>1. TypeOK /\ entry[e] \in Entry
  BY DEF TypeInv, TypeOK
<1>2. /\ DOMAIN entry' = DOMAIN entry /\ entry'[e] = Expired(entry[e])
      /\ \A f \in DOMAIN entry : f # e => entry'[f] = entry[f]
  BY <1>1, ExpireStep, ExpiredEntry, EntryUpdate
<1>3. UNCHANGED <<current, slots, started, ran, clock>>
  BY DEF Expire
<1> QED
  BY <1>1, <1>2, <1>3, ExpiredEntry

LEMMA FireEffect ==
  ASSUME TypeInv, NEW e \in DOMAIN entry, Fire(e)
  PROVE  /\ DOMAIN entry' = DOMAIN entry /\ entry'[e].call = 0
         /\ \A f \in DOMAIN entry : f # e => entry'[f] = entry[f]
         /\ started' = IF entry[e].call = 0 THEN started ELSE started \cup {entry[e].call}
         /\ UNCHANGED <<current, slots, ran, clock>>
<1>1. TypeOK /\ entry[e] \in Entry
  BY DEF TypeInv, TypeOK
<1>2. /\ UNCHANGED <<current, slots, ran, clock>> /\ entry[e].firing > 0
      /\ started' = IF entry[e].call = 0 THEN started ELSE started \cup {entry[e].call}
  BY DEF Fire
<1>3. CASE entry[e].call = 0
  BY <1>1, <1>2, <1>3, FireStep, FiredEntry, EntryUpdate
<1>4. CASE entry[e].call # 0
  BY <1>1, <1>2, <1>4, FireStep, FiredEntry, EntryUpdate
<1> QED
  BY <1>3, <1>4

LEMMA CleanEffect ==
  ASSUME TypeInv, NEW e \in DOMAIN entry, Clean(e)
  PROVE  /\ DOMAIN entry' = DOMAIN entry
         /\ \A f \in DOMAIN entry :
              /\ entry'[f].call = entry[f].call /\ entry'[f].epoch = entry[f].epoch
              /\ entry'[f].slot = entry[f].slot /\ entry'[f].armed = entry[f].armed
              /\ entry'[f].firing = entry[f].firing
         /\ current' = current \/ (current = e /\ entry[e].call = 0)
         /\ UNCHANGED <<slots, started, ran, clock>>
<1>1. TypeOK /\ entry[e] \in Entry /\ entry[e].cleaning > 0
  BY DEF TypeInv, TypeOK, Clean
<1>2. /\ DOMAIN entry' = DOMAIN entry /\ entry'[e] = Cleaned(entry[e])
      /\ \A f \in DOMAIN entry : f # e => entry'[f] = entry[f]
  BY <1>1, CleanStep, CleanedEntry, EntryUpdate
<1>3. /\ UNCHANGED <<slots, started, ran, clock>>
      /\ current' = current \/ (current = e /\ entry[e].call = 0)
  BY DEF Clean, Idle
<1> QED
  BY <1>1, <1>2, <1>3, CleanedEntry

LEMMA AcceptEffect ==
  ASSUME TypeInv, NEW c \in Caller, Accept(c)
  PROVE  /\ current \in DOMAIN entry /\ DOMAIN entry' = DOMAIN entry
         /\ entry'[current] = Called(entry[current])
         /\ \A f \in DOMAIN entry : f # current => entry'[f] = entry[f]
         /\ slots' = Append(slots, [entry |-> current, slot |-> SlotOf(entry[current])])
         /\ started' = IF CatchUp(entry[current], SlotOf(entry[current]))
                       THEN started \cup {entry[current].call} ELSE started
         /\ UNCHANGED <<current, ran, clock>>
<1>1. TypeOK /\ Epochs
  BY DEF TypeInv
<1>2. /\ current \in DOMAIN entry /\ entry' = [entry EXCEPT ![current] = Called(entry[current])]
      /\ slots' = Append(slots, [entry |-> current, slot |-> SlotOf(entry[current])])
      /\ current = caller[c].entry
  BY <1>1, AcceptStep
<1>3. Called(entry[current]) \in Entry
  BY <1>1, <1>2, CalledEntry
<1>4. /\ UNCHANGED <<current, ran, clock>>
      /\ started' = IF CatchUp(entry[current], SlotOf(entry[current]))
                    THEN started \cup {entry[current].call} ELSE started
  BY <1>2 DEF Accept, SlotOf, EpochOf
<1> QED
  BY <1>1, <1>2, <1>3, <1>4, EntryUpdate

-----------------------------------------------------------------------------
(* An entry that owes an execution is the key's entry in the map, so that  *)
(* no second grid starts beside it and the next call finds it: neither a   *)
(* timer's cleaning nor the sweeper removes it under a caller's feet.      *)
PendingInMap == \A e \in DOMAIN entry : entry[e].call # 0 => current = e

(* An entry that owes an execution stays in the map, whatever the callers, *)
(* the timers' goroutines and the sweeper do in between.                   *)
THEOREM PendingKeptInMap == Spec => []PendingInMap
<1>1. Init => PendingInMap
  BY DEF Init, PendingInMap
<1>2. TypeInv /\ PendingInMap /\ [Next]_vars => PendingInMap'
  <2> SUFFICES ASSUME TypeInv, PendingInMap, [Next]_vars PROVE PendingInMap'
    OBVIOUS
  <2>0. \A e \in DOMAIN entry : entry[e].call # 0 => current = e
    BY DEF PendingInMap
  <2>1. ASSUME NEW c \in Caller, Obtain(c) PROVE PendingInMap'
    <3>1. ASSUME NEW e \in DOMAIN entry', entry'[e].call # 0 PROVE current' = e
      <4>1. e \in DOMAIN entry /\ entry[e].call # 0
        BY <2>1, <3>1, ObtainStep
      <4>2. current = e /\ e # 0
        BY <2>0, <4>1 DEF TypeInv, TypeOK
      <4> QED
        BY <2>1, <4>2, ObtainStep
    <3> QED
      BY <3>1 DEF PendingInMap
  <2>2. ASSUME NEW c \in Caller, Accept(c) PROVE PendingInMap'
    BY <2>0, <2>2, AcceptEffect DEF PendingInMap
  <2>3. ASSUME NEW e \in DOMAIN entry, Expire(e) PROVE PendingInMap'
    BY <2>0, <2>3, ExpireEffect DEF PendingInMap
  <2>4. ASSUME NEW e \in DOMAIN entry, Fire(e) PROVE PendingInMap'
    BY <2>0, <2>4, FireEffect DEF PendingInMap
  <2>5. ASSUME NEW e \in DOMAIN entry, Clean(e) PROVE PendingInMap'
    BY <2>0, <2>5, CleanEffect DEF PendingInMap
  <2>6. ASSUME Sweep PROVE PendingInMap'
    <3>1. entry' = entry /\ current \in DOMAIN entry /\ entry[current].call = 0
      BY <2>6 DEF Sweep, Idle, TypeInv, TypeOK
    <3> QED
      BY <2>0, <3>1 DEF PendingInMap
  <2>7. CASE \/ \E c \in Caller : Begin(c) \/ Retry(c)
             \/ (\E k \in started : Run(k)) \/ Tick \/ UNCHANGED vars
    <3>1. entry' = entry /\ current' = current
      BY <2>7 DEF Begin, Retry, Run, Tick, vars
    <3> QED
      BY <2>0, <3>1 DEF PendingInMap
  <2> QED
    BY <2>1, <2>2, <2>3, <2>4, <2>5, <2>6, <2>7, StepKinds
<1> QED
  BY <1>1, <1>2, TypeInductive, PTL DEF Spec

(* A pending call never waits for nothing: some timer, or the goroutine of *)
(* one that has expired, is there to take it out.                          *)
THEOREM PendingKeepsTimer == Spec => []PendingHasTimer
<1>1. Init => PendingHasTimer
  BY DEF Init, PendingHasTimer
<1>2. TypeInv /\ PendingHasTimer /\ [Next]_vars => PendingHasTimer'
  <2> SUFFICES ASSUME TypeInv, PendingHasTimer, [Next]_vars PROVE PendingHasTimer'
    OBVIOUS
  <2>0. \A e \in DOMAIN entry :
          entry[e].call # 0 => entry[e].armed \/ entry[e].firing > 0
    BY DEF PendingHasTimer
  <2>1. ASSUME NEW c \in Caller, Obtain(c) PROVE PendingHasTimer'
    BY <2>0, <2>1, ObtainStep DEF PendingHasTimer
  <2>2. ASSUME NEW c \in Caller, Accept(c) PROVE PendingHasTimer'
    <3>1. current \in DOMAIN entry /\ Called(entry[current]).armed
      BY <2>2, AcceptEffect, CalledEntry DEF TypeInv
    <3> QED
      BY <2>0, <2>2, <3>1, AcceptEffect DEF PendingHasTimer
  <2>3. ASSUME NEW e \in DOMAIN entry, Expire(e) PROVE PendingHasTimer'
    BY <2>0, <2>3, ExpireEffect DEF PendingHasTimer
  <2>4. ASSUME NEW e \in DOMAIN entry, Fire(e) PROVE PendingHasTimer'
    BY <2>0, <2>4, FireEffect DEF PendingHasTimer
  <2>5. ASSUME NEW e \in DOMAIN entry, Clean(e) PROVE PendingHasTimer'
    BY <2>0, <2>5, CleanEffect DEF PendingHasTimer
  <2>6. CASE \/ \E c \in Caller : Begin(c) \/ Retry(c)
             \/ Sweep \/ (\E k \in started : Run(k)) \/ Tick \/ UNCHANGED vars
    <3>1. entry' = entry
      BY <2>6, OtherSteps
    <3> QED
      BY <2>0, <3>1 DEF PendingHasTimer
  <2> QED
    BY <2>1, <2>2, <2>3, <2>4, <2>5, <2>6, StepKinds
<1> QED
  BY <1>1, <1>2, TypeInductive, PTL DEF Spec

-----------------------------------------------------------------------------
(* The pending call of an entry was put there in the slot the entry says,  *)
(* and that slot has begun.                                                *)
AtPlace(e) ==
  /\ slots[entry[e].call] = [entry |-> e, slot |-> entry[e].slot]
  /\ entry[e].epoch >= 1
  /\ entry[e].slot \in Nat
  /\ entry[e].slot * Period <= clock - entry[e].epoch
Places == \A e \in DOMAIN entry : entry[e].call # 0 => AtPlace(e)

(* A call accepted while another is pending falls into the same slot or a  *)
(* later one.                                                              *)
LEMMA SlotsAdvance ==
  ASSUME TypeInv, NEW e \in DOMAIN entry, AtPlace(e)
  PROVE  SlotOf(entry[e]) >= entry[e].slot
<1> DEFINE x == entry[e]
           t == clock - x.epoch
           m == x.slot
           n == t \div Period
<1> USE ThrottleAssumption
<1>1. x \in Entry /\ x.epoch >= 1 /\ x.epoch <= clock /\ clock \in Nat
  BY DEF TypeInv, TypeOK, Epochs, AtPlace
<1>2. x.epoch \in Nat
  BY <1>1 DEF Entry
<1>3. t \in Nat /\ m \in Nat /\ m * Period <= t
  BY <1>1, <1>2 DEF AtPlace
<1>4. SlotOf(x) = n
  BY <1>1 DEF SlotOf, EpochOf
<1> HIDE DEF x, t, m
<1>5. n \in Nat /\ t < (n + 1) * Period
  BY <1>3, SlotBounds
<1> HIDE DEF n
<1>6. m * Period < (n + 1) * Period
  <2>1. m * Period \in Nat /\ (n + 1) * Period \in Nat
    BY <1>3, <1>5, SMT
  <2> QED
    BY <1>3, <1>5, <2>1
<1>7. m <= n
  BY <1>3, <1>5, <1>6, SlotMonotone
<1> QED
  BY <1>3, <1>4, <1>5, <1>7 DEF m, x

(* Steps that change neither calls nor slots nor epochs.                   *)
LEMMA PlacesKept ==
  ASSUME TypeInv, Places, slots' = slots, clock' \in Nat, clock' >= clock,
         \A f \in DOMAIN entry' :
           \/ entry'[f].call = 0
           \/ /\ f \in DOMAIN entry
              /\ entry'[f].call = entry[f].call /\ entry'[f].epoch = entry[f].epoch
              /\ entry'[f].slot = entry[f].slot
  PROVE  Places'
<1> SUFFICES ASSUME NEW f \in DOMAIN entry', entry'[f].call # 0 PROVE AtPlace(f)'
  BY DEF Places
<1>1. /\ f \in DOMAIN entry
      /\ entry'[f].call = entry[f].call /\ entry'[f].epoch = entry[f].epoch
      /\ entry'[f].slot = entry[f].slot
  OBVIOUS
<1>2. AtPlace(f)
  BY <1>1 DEF Places
<1> DEFINE q == entry[f].slot * Period
<1>3. q \in Int /\ entry[f].epoch \in Nat /\ clock \in Nat
  <2>1. entry[f] \in Entry /\ clock \in Nat /\ entry[f].slot \in Nat
    BY <1>1, <1>2 DEF TypeInv, TypeOK, AtPlace
  <2>2. q \in Int
    BY <2>1, ThrottleAssumption
  <2> QED
    BY <2>1, <2>2 DEF Entry
<1>4. q <= clock - entry[f].epoch
  BY <1>2 DEF AtPlace
<1> HIDE DEF q
<1>5. q <= clock' - entry[f].epoch
  BY <1>3, <1>4
<1> QED
  BY <1>1, <1>2, <1>5 DEF AtPlace, q

(* Steps that accept no call lose none, if they keep what is pending       *)
(* pending or hand it over, and what is handed over there or done.         *)
LEMMA NothingLost ==
  ASSUME NoCallLost, slots' = slots,
         \A k \in Call : Pending(k) => Pending(k)' \/ k \in started',
         \A k \in started : k \in started' \/ Done(k)',
         \A k \in Call : Done(k) => Done(k)'
  PROVE  NoCallLost'
<1> SUFFICES ASSUME NEW k \in Call
             PROVE  Pending(k)' \/ k \in started' \/ Done(k)' \/ Covered(k)'
  BY DEF NoCallLost, Call
<1>1. Covered(k) => Covered(k)'
  BY DEF Covered, Call
<1> QED
  BY <1>1 DEF NoCallLost

(* The slot an entry says is what tells a call that is to be caught up     *)
(* from one that is covered, so the two are kept together.                 *)
LEMMA CallsAccounted == Spec => [](Places /\ NoCallLost)
<1>1. Init => Places /\ NoCallLost
  BY DEF Init, Places, NoCallLost, Call
<1>2. TypeInv /\ TypeInv' /\ Places /\ NoCallLost /\ [Next]_vars => Places' /\ NoCallLost'
  <2> SUFFICES ASSUME TypeInv, TypeInv', Places, NoCallLost, [Next]_vars
               PROVE  Places' /\ NoCallLost'
    OBVIOUS
  <2>0. /\ TypeOK /\ entry \in Seq(Entry) /\ slots \in Seq(Place) /\ ran \in Seq(Call)
        /\ Len(slots) \in Nat /\ DOMAIN entry = 1..Len(entry) /\ clock \in Nat
        /\ started \subseteq Call
    BY DEF TypeInv, TypeOK
  <2>1. ASSUME NEW c \in Caller, Obtain(c) PROVE Places' /\ NoCallLost'
    <3>1. /\ slots' = slots /\ started' = started /\ ran' = ran /\ clock' = clock
          /\ \A e \in DOMAIN entry : e \in DOMAIN entry' /\ entry'[e] = entry[e]
          /\ \A e \in DOMAIN entry' : e \in DOMAIN entry \/ entry'[e].call = 0
      BY <2>1, ObtainStep
    <3>2. Places'
      BY <2>0, <3>1, PlacesKept
    <3>3. NoCallLost'
      BY <3>1, NothingLost DEF Pending, Done
    <3> QED
      BY <3>2, <3>3
  <2>2. ASSUME NEW c \in Caller, Accept(c) PROVE Places' /\ NoCallLost'
    <3> DEFINE x == entry[current]
               y == Called(x)
               n == Len(slots) + 1
               q == [entry |-> current, slot |-> SlotOf(x)]
    <3>1. /\ current \in DOMAIN entry /\ DOMAIN entry' = DOMAIN entry
          /\ entry'[current] = y
          /\ \A f \in DOMAIN entry : f # current => entry'[f] = entry[f]
          /\ slots' = Append(slots, q)
          /\ started' = IF CatchUp(x, SlotOf(x)) THEN started \cup {x.call} ELSE started
          /\ UNCHANGED <<current, ran, clock>>
      BY <2>2, AcceptEffect
    <3>2. /\ y.call = n /\ y.slot = SlotOf(x) /\ y.epoch = EpochOf(x)
          /\ SlotOf(x) \in Nat /\ EpochOf(x) \in Nat /\ EpochOf(x) >= 1
          /\ clock - EpochOf(x) \in Nat
      BY <3>1, CalledEntry DEF TypeInv
    <3>3. q \in Place
      BY <2>0, <3>1, <3>2 DEF Place
    <3>4. /\ Len(slots') = n /\ slots'[n] = q
          /\ \A k \in 1..Len(slots) : slots'[k] = slots[k]
      BY <2>0, <3>1, <3>3, AppendProperties
    <3>5. x \in Entry /\ x.call \in 0..Len(slots) /\ x.call \in Nat
      BY <2>0, <3>1 DEF TypeInv, CallNumbers
    <3>6. x.call # 0 => /\ x.call \in Call /\ slots[x.call] = [entry |-> current, slot |-> x.slot]
                        /\ x.slot \in Nat /\ SlotOf(x) >= x.slot
      BY <2>0, <3>1, <3>5, SlotsAdvance DEF Places, AtPlace, Call
    <3> HIDE DEF x, y, q
    <3>7. Places'
      <4> SUFFICES ASSUME NEW f \in DOMAIN entry, entry'[f].call # 0 PROVE AtPlace(f)'
        BY <3>1 DEF Places
      <4>1. CASE f = current
        <5>1. SlotOf(x) * Period <= clock - EpochOf(x)
          BY <3>2, SlotBounds, ThrottleAssumption DEF SlotOf
        <5> QED
          BY <3>1, <3>2, <3>4, <4>1, <5>1 DEF AtPlace, q
      <4>2. CASE f # current
        <5>1. entry'[f] = entry[f] /\ AtPlace(f)
          BY <3>1, <4>2 DEF Places
        <5>2. entry[f].call \in 1..Len(slots)
          BY <2>0, <4>2, <5>1 DEF TypeInv, CallNumbers
        <5> QED
          BY <3>1, <3>4, <5>1, <5>2 DEF AtPlace
      <4> QED
        BY <4>1, <4>2
    <3>8. NoCallLost'
      <4> SUFFICES ASSUME NEW k \in 1..n
                   PROVE  Pending(k)' \/ k \in started' \/ Done(k)' \/ Covered(k)'
        BY <3>4 DEF NoCallLost, Call
      <4>1. CASE k = n
        BY <3>1, <3>2, <4>1 DEF Pending
      <4>2. CASE k \in Call /\ Pending(k) /\ k = x.call
        <5>1. x.call # 0
          BY <4>2 DEF Call
        <5>2. CASE SlotOf(x) > x.slot
          BY <3>1, <4>2, <5>1, <5>2 DEF CatchUp
        <5>3. CASE SlotOf(x) = x.slot
          <6>1. slots'[k] = q /\ slots'[n] = q /\ n \in 1..Len(slots') /\ n > k
            BY <2>0, <3>4, <3>6, <4>2, <5>1, <5>3 DEF Call, q
          <6> QED
            BY <6>1 DEF Covered, Call
        <5> QED
          BY <3>2, <3>6, <5>1, <5>2, <5>3
      <4>3. CASE k \in Call /\ Pending(k) /\ k # x.call
        <5>1. PICK f \in DOMAIN entry : entry[f].call = k
          BY <4>3 DEF Pending
        <5>2. f # current
          BY <4>3, <5>1 DEF x
        <5> QED
          BY <3>1, <5>1, <5>2 DEF Pending
      <4>4. CASE k \in Call /\ Covered(k)
        <5>1. PICK j \in Call : j > k /\ slots[j] = slots[k]
          BY <4>4 DEF Covered
        <5>2. j \in 1..Len(slots') /\ slots'[j] = slots'[k]
          BY <2>0, <3>4, <4>4, <5>1 DEF Call
        <5> QED
          BY <5>1, <5>2 DEF Covered, Call
      <4>5. CASE k \in Call /\ (k \in started \/ Done(k))
        BY <3>1, <4>5 DEF Done
      <4>6. k = n \/ k \in Call
        BY <2>0 DEF Call
      <4> QED
        BY <4>1, <4>2, <4>3, <4>4, <4>5, <4>6 DEF NoCallLost
    <3> QED
      BY <3>7, <3>8
  <2>3. ASSUME NEW e \in DOMAIN entry, Expire(e) PROVE Places' /\ NoCallLost'
    <3>1. Places'
      BY <2>0, <2>3, ExpireEffect, PlacesKept
    <3>2. NoCallLost'
      BY <2>3, ExpireEffect, NothingLost DEF Pending, Done
    <3> QED
      BY <3>1, <3>2
  <2>4. ASSUME NEW e \in DOMAIN entry, Fire(e) PROVE Places' /\ NoCallLost'
    <3>1. /\ DOMAIN entry' = DOMAIN entry /\ entry'[e].call = 0
          /\ \A f \in DOMAIN entry : f # e => entry'[f] = entry[f]
          /\ started' = IF entry[e].call = 0 THEN started ELSE started \cup {entry[e].call}
          /\ UNCHANGED <<current, slots, ran, clock>>
      BY <2>4, FireEffect
    <3>2. Places'
      BY <2>0, <3>1, PlacesKept
    <3>3. \A k \in Call : Pending(k) => Pending(k)' \/ k \in started'
      BY <2>0, <3>1 DEF Pending, Call
    <3>4. NoCallLost'
      BY <3>1, <3>3, NothingLost DEF Done
    <3> QED
      BY <3>2, <3>4
  <2>5. ASSUME NEW e \in DOMAIN entry, Clean(e) PROVE Places' /\ NoCallLost'
    <3>1. Places'
      BY <2>0, <2>5, CleanEffect, PlacesKept
    <3>2. NoCallLost'
      BY <2>5, CleanEffect, NothingLost DEF Pending, Done
    <3> QED
      BY <3>1, <3>2
  <2>6. ASSUME NEW j \in started, Run(j) PROVE Places' /\ NoCallLost'
    <3>1. /\ started' = started \ {j} /\ ran' = Append(ran, j)
          /\ UNCHANGED <<clock, current, entry, slots>>
      BY <2>6 DEF Run
    <3>2. Places'
      BY <2>0, <3>1, PlacesKept
    <3>3. /\ Len(ran') = Len(ran) + 1 /\ ran'[Len(ran) + 1] = j /\ Len(ran) \in Nat
          /\ DOMAIN ran' = 1..(Len(ran) + 1) /\ DOMAIN ran = 1..Len(ran)
          /\ \A i \in DOMAIN ran : ran'[i] = ran[i]
      BY <2>0, <3>1
    <3>4. Done(j)' /\ \A k \in Call : Done(k) => Done(k)'
      BY <3>3 DEF Done
    <3>5. \A k \in started : k \in started' \/ Done(k)'
      BY <3>1, <3>4
    <3>6. NoCallLost'
      BY <3>1, <3>4, <3>5, NothingLost DEF Pending
    <3> QED
      BY <3>2, <3>6
  <2>7. CASE \/ \E c \in Caller : Begin(c) \/ Retry(c)
             \/ Sweep \/ Tick \/ UNCHANGED vars
    <3>1. /\ entry' = entry /\ slots' = slots /\ started' = started /\ ran' = ran
          /\ clock' \in {clock, clock + 1}
      BY <2>7 DEF Begin, Retry, Sweep, Tick, vars
    <3>2. Places'
      BY <2>0, <3>1, PlacesKept
    <3>3. NoCallLost'
      BY <3>1, NothingLost DEF Pending, Done
    <3> QED
      BY <3>2, <3>3
  <2> QED
    BY <2>1, <2>2, <2>3, <2>4, <2>5, <2>6, <2>7, StepKinds
<1> QED
  BY <1>1, <1>2, TypeInductive, PTL DEF Spec

(* A call that got the mutex is pending, handed to a goroutine, executed,  *)
(* or covered by a later call of its slot.                                 *)
THEOREM CallsNotLost == Spec => []NoCallLost
  BY CallsAccounted, PTL

-----------------------------------------------------------------------------
(* A call is in one place: pending in one entry, handed over, or executed. *)
OnePlace == RunsOnce /\ \A k \in started : ~Pending(k)

(* An entry's call is pending there only.                                  *)
LEMMA OneEntry ==
  ASSUME Places, NEW e \in DOMAIN entry, NEW f \in DOMAIN entry,
         entry[e].call # 0, entry[f].call = entry[e].call
  PROVE  e = f
<1>1. /\ slots[entry[e].call] = [entry |-> e, slot |-> entry[e].slot]
      /\ slots[entry[e].call] = [entry |-> f, slot |-> entry[f].slot]
  BY DEF Places, AtPlace
<1>2. [entry |-> e, slot |-> entry[e].slot].entry = e
      /\ [entry |-> f, slot |-> entry[f].slot].entry = f
  OBVIOUS
<1> QED
  BY <1>1, <1>2

(* Steps that hand nothing over and make nothing pending.                  *)
LEMMA OnePlaceKept ==
  ASSUME OnePlace, started' = started, ran' = ran,
         \A k \in started \cup {ran[j] : j \in DOMAIN ran} : Pending(k)' => Pending(k)
  PROVE  OnePlace'
  BY DEF OnePlace, RunsOnce

(* No call is executed twice: a catch-up, a timer's goroutine and the late *)
(* goroutine of a stopped timer never hand over the same call.             *)
THEOREM CallsRunOnce == Spec => []RunsOnce
<1>1. Init => OnePlace
  BY DEF Init, OnePlace, RunsOnce
<1>2. TypeInv /\ Places /\ OnePlace /\ [Next]_vars => OnePlace'
  <2> SUFFICES ASSUME TypeInv, Places, OnePlace, [Next]_vars PROVE OnePlace'
    OBVIOUS
  <2>0. /\ ran \in Seq(Call) /\ Len(slots) \in Nat /\ started \subseteq Call
        /\ \A j \in DOMAIN ran : ran[j] \in Call
        /\ \A k \in Call : k # 0 /\ k # Len(slots) + 1
    BY DEF TypeInv, TypeOK, Call
  <2>1. ASSUME NEW c \in Caller, Obtain(c) PROVE OnePlace'
    <3>1. \A k \in Call : Pending(k)' => Pending(k)
      BY <2>0, <2>1, ObtainStep DEF Pending
    <3> QED
      BY <2>0, <2>1, <3>1, ObtainStep, OnePlaceKept
  <2>2. ASSUME NEW c \in Caller, Accept(c) PROVE OnePlace'
    <3> DEFINE x == entry[current]
    <3>1. /\ current \in DOMAIN entry /\ DOMAIN entry' = DOMAIN entry
          /\ entry'[current].call = Len(slots) + 1
          /\ \A f \in DOMAIN entry : f # current => entry'[f] = entry[f]
          /\ started' = IF CatchUp(x, SlotOf(x)) THEN started \cup {x.call} ELSE started
          /\ ran' = ran
      BY <2>2, AcceptEffect, CalledEntry DEF TypeInv
    <3>2. \A k \in Call : Pending(k)' => Pending(k) /\ k # x.call
      <4> SUFFICES ASSUME NEW k \in Call, Pending(k)' PROVE Pending(k) /\ k # x.call
        OBVIOUS
      <4>1. PICK f \in DOMAIN entry : entry'[f].call = k
        BY <3>1 DEF Pending
      <4>2. f # current /\ entry[f].call = k /\ k # 0
        BY <2>0, <3>1, <4>1
      <4> QED
        BY <3>1, <4>2, OneEntry DEF Pending
    <3>3. CASE started' = started
      BY <2>0, <3>1, <3>2, <3>3, OnePlaceKept
    <3>4. CASE started' = started \cup {x.call} /\ x.call # 0
      <4>1. Pending(x.call) /\ x.call \in Call
        BY <3>1, <3>4 DEF Pending, TypeInv, CallNumbers, Call
      <4>2. ASSUME NEW j \in DOMAIN ran PROVE ran[j] \notin started' /\ ~Pending(ran[j])'
        <5>1. ran[j] \notin started /\ ~Pending(ran[j]) /\ ran[j] \in Call
          BY <2>0 DEF OnePlace, RunsOnce
        <5>2. ran[j] # x.call
          BY <4>1, <5>1
        <5>3. ~Pending(ran[j])'
          <6> DEFINE v == ran[j]
          <6>1. v \in Call /\ ~Pending(v) /\ v = ran'[j]
            BY <3>1, <5>1
          <6> HIDE DEF v
          <6>2. \A f \in DOMAIN entry' : entry'[f].call # v
            BY <3>2, <6>1 DEF Pending
          <6> QED
            BY <6>1, <6>2 DEF Pending
        <5> QED
          BY <3>4, <5>1, <5>2, <5>3
      <4>3. \A k \in started' : ~Pending(k)'
        BY <2>0, <3>2, <3>4, <4>1 DEF OnePlace
      <4> QED
        BY <3>1, <4>2, <4>3 DEF OnePlace, RunsOnce
    <3> QED
      BY <3>1, <3>3, <3>4 DEF CatchUp
  <2>3. ASSUME NEW e \in DOMAIN entry, Expire(e) PROVE OnePlace'
    <3>1. \A k : Pending(k)' => Pending(k)
      BY <2>3, ExpireEffect DEF Pending
    <3> QED
      BY <2>3, <3>1, ExpireEffect, OnePlaceKept
  <2>4. ASSUME NEW e \in DOMAIN entry, Fire(e) PROVE OnePlace'
    <3> DEFINE k == entry[e].call
    <3>1. /\ DOMAIN entry' = DOMAIN entry /\ entry'[e].call = 0
          /\ \A f \in DOMAIN entry : f # e => entry'[f] = entry[f]
          /\ started' = IF k = 0 THEN started ELSE started \cup {k}
          /\ ran' = ran
      BY <2>4, FireEffect
    <3>2. \A i \in Call : Pending(i)' => Pending(i) /\ (k # 0 => i # k)
      <4> SUFFICES ASSUME NEW i \in Call, Pending(i)'
                   PROVE  Pending(i) /\ (k # 0 => i # k)
        OBVIOUS
      <4>1. PICK f \in DOMAIN entry : entry'[f].call = i
        BY <3>1 DEF Pending
      <4>2. f # e /\ entry[f].call = i
        BY <2>0, <3>1, <4>1
      <4> QED
        BY <4>2, OneEntry DEF Pending
    <3>3. CASE k = 0
      BY <2>0, <3>1, <3>2, <3>3, OnePlaceKept
    <3>4. CASE k # 0
      <4>1. Pending(k) /\ k \in Call
        BY <3>4 DEF Pending, TypeInv, CallNumbers, Call
      <4>2. \A j \in DOMAIN ran : ran[j] \notin started' /\ ~Pending(ran[j])'
        BY <2>0, <3>1, <3>2, <3>4, <4>1 DEF OnePlace, RunsOnce
      <4>3. \A i \in started' : ~Pending(i)'
        BY <2>0, <3>1, <3>2, <3>4, <4>1 DEF OnePlace
      <4> QED
        BY <3>1, <4>2, <4>3 DEF OnePlace, RunsOnce
    <3> QED
      BY <3>3, <3>4
  <2>5. ASSUME NEW e \in DOMAIN entry, Clean(e) PROVE OnePlace'
    <3>1. \A k : Pending(k)' => Pending(k)
      BY <2>5, CleanEffect DEF Pending
    <3> QED
      BY <2>5, <3>1, CleanEffect, OnePlaceKept
  <2>6. ASSUME NEW k \in started, Run(k) PROVE OnePlace'
    <3>1. /\ started' = started \ {k} /\ ran' = Append(ran, k) /\ entry' = entry
      BY <2>6 DEF Run
    <3>2. /\ Len(ran) \in Nat /\ DOMAIN ran = 1..Len(ran)
          /\ DOMAIN ran' = 1..(Len(ran) + 1) /\ ran'[Len(ran) + 1] = k
          /\ \A j \in DOMAIN ran : ran'[j] = ran[j]
      BY <2>0, <3>1
    <3>3. ~Pending(k) /\ \A j \in DOMAIN ran : ran[j] # k
      BY DEF OnePlace, RunsOnce
    <3>4. \A i, j \in DOMAIN ran' : ran'[i] = ran'[j] => i = j
      BY <3>2, <3>3 DEF OnePlace, RunsOnce
    <3>5. \A j \in DOMAIN ran' :
            ran'[j] \notin started' /\ \A f \in DOMAIN entry : entry[f].call # ran'[j]
      <4>1. \A j \in DOMAIN ran : ran[j] \notin started /\ ~Pending(ran[j])
        BY DEF OnePlace, RunsOnce
      <4> SUFFICES ASSUME NEW j \in DOMAIN ran'
                   PROVE  ran'[j] \notin started' /\ ~Pending(ran'[j])
        BY DEF Pending
      <4>2. CASE j \in DOMAIN ran
        BY <3>1, <3>2, <4>1, <4>2
      <4>3. CASE ran'[j] = k
        BY <3>1, <3>3, <4>3
      <4> QED
        BY <3>2, <4>2, <4>3
    <3>6. \A i \in started' : ~Pending(i)'
      BY <3>1 DEF OnePlace, Pending
    <3> QED
      BY <3>1, <3>4, <3>5, <3>6 DEF OnePlace, RunsOnce, Pending
  <2>7. CASE \/ \E c \in Caller : Begin(c) \/ Retry(c)
             \/ Sweep \/ Tick \/ UNCHANGED vars
    <3>1. entry' = entry /\ started' = started /\ ran' = ran
      BY <2>7 DEF Begin, Retry, Sweep, Tick, vars
    <3> QED
      BY <3>1, OnePlaceKept DEF Pending
  <2> QED
    BY <2>1, <2>2, <2>3, <2>4, <2>5, <2>6, <2>7, StepKinds
<1>3. OnePlace => RunsOnce
  BY DEF OnePlace
<1> QED
  BY <1>1, <1>2, <1>3, TypeInductive, CallsAccounted, PTL DEF Spec

-----------------------------------------------------------------------------
(* What the key's entry shows of a step that touches some entry.           *)
LEMMA WaitingKept ==
  ASSUME TypeInv, DOMAIN entry' = DOMAIN entry, current' = current,
         \A f \in DOMAIN entry : entry'[f].call = entry[f].call
  PROVE  Waiting' = Waiting
  BY DEF TypeInv, TypeOK, Waiting

(* A call accepted takes the waiting one's place, or makes it due when it  *)
(* belongs to an earlier slot.                                             *)
LEMMA AcceptAccepts ==
  ASSUME TypeInv, Places, NEW c \in Caller, Accept(c)
  PROVE  Contract!Accept
<1> DEFINE x == entry[current]
           p == [entry |-> current, slot |-> SlotOf(x)]
           n == Len(slots) + 1
<1>1. /\ current \in DOMAIN entry /\ DOMAIN entry' = DOMAIN entry
      /\ entry'[current] = Called(x) /\ slots' = Append(slots, p)
      /\ started' = IF CatchUp(x, SlotOf(x)) THEN started \cup {x.call} ELSE started
      /\ current' = current /\ ran' = ran
  BY AcceptEffect
<1>2. /\ slots \in Seq(Place) /\ Len(slots) \in Nat /\ current # 0
      /\ DOMAIN entry = 1..Len(entry)
  BY <1>1 DEF TypeInv, TypeOK
<1>3. SlotOf(x) \in Nat /\ Called(x).call = n
  BY <1>1, CalledEntry DEF TypeInv
<1>4. p \in Place
  BY <1>1, <1>2, <1>3 DEF Place
<1>5. Len(slots') = n /\ slots'[n] = p
  BY <1>1, <1>2, <1>4, AppendProperties
<1>6. Waiting = x.call /\ Waiting' = n
  BY <1>1, <1>2, <1>3 DEF Waiting
<1>7. CatchUp(x, SlotOf(x)) <=> Waiting # 0 /\ slots[Waiting] # slots'[n]
  <2>1. CASE x.call = 0
    BY <1>6, <2>1 DEF CatchUp
  <2>2. CASE x.call # 0
    <3>1. slots[x.call] = [entry |-> current, slot |-> x.slot] /\ x.slot \in Nat
      BY <1>1, <2>2 DEF Places, AtPlace
    <3>2. SlotOf(x) >= x.slot
      BY <1>1, <2>2, SlotsAdvance DEF Places
    <3>3. slots[x.call] = p <=> x.slot = SlotOf(x)
      BY <3>1
    <3> HIDE DEF x, p
    <3>4. SlotOf(x) > x.slot <=> x.slot # SlotOf(x)
      BY <1>3, <3>1, <3>2
    <3> QED
      BY <1>5, <1>6, <2>2, <3>3, <3>4 DEF CatchUp
  <2> QED
    BY <2>1, <2>2
<1> HIDE DEF x, p
<1> QED
  BY <1>1, <1>5, <1>6, <1>7 DEF Contract!Accept

(* The entries, their timers and removals implement the place for one      *)
(* waiting call.                                                           *)
THEOREM ThrottleKeepsContract == Spec => KeepsContract
<1>1. Init => Contract!Init
  BY DEF Init, Contract!Init, Waiting
<1>2. TypeInv /\ PendingInMap /\ Places /\ [Next]_vars
        => [Contract!Next]_(Contract!contractVars)
  <2> SUFFICES ASSUME TypeInv, PendingInMap, Places, [Next]_vars
               PROVE  Contract!Next \/ UNCHANGED Contract!contractVars
    OBVIOUS
  <2>0. /\ DOMAIN entry = 1..Len(entry) /\ current \in 0..Len(entry) /\ Len(entry) \in Nat
    BY DEF TypeInv, TypeOK
  <2>1. ASSUME NEW c \in Caller, Obtain(c) PROVE UNCHANGED Contract!contractVars
    <3>1. /\ slots' = slots /\ started' = started /\ ran' = ran
          /\ current # 0 => entry' = entry /\ current' = current
          /\ \A e \in DOMAIN entry' : e \in DOMAIN entry \/ entry'[e].call = 0
      BY <2>1, ObtainStep
    <3>2. Waiting' = Waiting
      <4>1. CASE current # 0
        BY <3>1, <4>1 DEF Waiting
      <4>2. CASE current = 0
        <5>1. current' = Len(entry) + 1 /\ entry' = Append(entry, NewEntry)
          BY <2>1, <4>2 DEF Obtain
        <5>2. NewEntry \in Entry /\ NewEntry.call = 0 /\ entry \in Seq(Entry)
          BY DEF NewEntry, Entry, TypeInv, TypeOK
        <5> HIDE DEF NewEntry
        <5>3. entry'[current'] = NewEntry
          BY <5>1, <5>2, AppendProperties
        <5> QED
          BY <4>2, <5>2, <5>3 DEF Waiting
      <4> QED
        BY <4>1, <4>2
    <3> QED
      BY <3>1, <3>2 DEF Contract!contractVars
  <2>2. ASSUME NEW c \in Caller, Accept(c) PROVE Contract!Next
    BY <2>2, AcceptAccepts DEF Contract!Next
  <2>3. ASSUME NEW e \in DOMAIN entry, Expire(e) PROVE UNCHANGED Contract!contractVars
    BY <2>3, ExpireEffect, WaitingKept DEF Contract!contractVars
  <2>4. ASSUME NEW e \in DOMAIN entry, Fire(e)
        PROVE  Contract!Next \/ UNCHANGED Contract!contractVars
    <3>1. /\ DOMAIN entry' = DOMAIN entry /\ entry'[e].call = 0
          /\ \A f \in DOMAIN entry : f # e => entry'[f] = entry[f]
          /\ started' = IF entry[e].call = 0 THEN started ELSE started \cup {entry[e].call}
          /\ current' = current /\ slots' = slots /\ ran' = ran
      BY <2>4, FireEffect
    <3>2. CASE entry[e].call = 0
      BY <3>1, <3>2, WaitingKept DEF Contract!contractVars
    <3>3. CASE entry[e].call # 0
      <4>1. current = e
        BY <3>3 DEF PendingInMap
      <4>2. Waiting = entry[e].call /\ Waiting' = 0
        BY <2>0, <3>1, <4>1 DEF Waiting
      <4>3. Contract!SlotEnds
        BY <3>1, <3>3, <4>2 DEF Contract!SlotEnds
      <4> QED
        BY <4>3 DEF Contract!Next
    <3> QED
      BY <3>2, <3>3
  <2>5. ASSUME NEW e \in DOMAIN entry, Clean(e) PROVE UNCHANGED Contract!contractVars
    <3>1. /\ DOMAIN entry' = DOMAIN entry
          /\ \A f \in DOMAIN entry : entry'[f].call = entry[f].call
          /\ current' = current \/ (current = e /\ entry[e].call = 0)
          /\ UNCHANGED <<slots, started, ran>>
      BY <2>5, CleanEffect
    <3>2. CASE current' = current
      BY <3>1, <3>2, WaitingKept DEF Contract!contractVars
    <3>3. CASE current = e /\ entry[e].call = 0 /\ current' # current
      <4>1. current' = 0
        BY <2>5, <3>3 DEF Clean
      <4>2. Waiting = 0 /\ Waiting' = 0
        BY <3>3, <4>1 DEF Waiting
      <4> QED
        BY <3>1, <4>2 DEF Contract!contractVars
    <3> QED
      BY <3>1, <3>2, <3>3
  <2>6. CASE Sweep
    <3>1. Waiting = 0 /\ Waiting' = 0
      BY <2>6 DEF Sweep, Idle, Waiting
    <3> QED
      BY <2>6, <3>1 DEF Sweep, Contract!contractVars
  <2>7. ASSUME NEW k \in started, Run(k) PROVE Contract!Next
    <3>1. Waiting' = Waiting
      BY <2>7 DEF Run, Waiting
    <3> QED
      BY <2>7, <3>1 DEF Run, Contract!Next, Contract!Execute
  <2>8. CASE (\E c \in Caller : Begin(c) \/ Retry(c)) \/ Tick \/ UNCHANGED vars
    BY <2>8 DEF Begin, Retry, Tick, vars, Waiting, Contract!contractVars
  <2> QED
    BY <2>1, <2>2, <2>3, <2>4, <2>5, <2>6, <2>7, <2>8, StepKinds
<1> QED
  BY <1>1, <1>2, TypeInductive, PendingKeptInMap, CallsAccounted, PTL
     DEF Spec, KeepsContract, Contract!Spec
=============================================================================
