------------------------- MODULE VideoRecordsProofs -------------------------
(* Theorems about VideoRecords for any number of requests, days and         *)
(* recordings: types, and that a first answer is complete.  The invariant   *)
(* follows the parts of one query: each is on its way, or in the hands of   *)
(* one handler, or in lists, and in none of them twice.                    *)
EXTENDS VideoRecords, FiniteSetTheorems, TLAPS

(* The parts of a list are of day d and all different.                      *)
Fine(list, d) ==
  /\ \A i \in 1 .. Len(list) : list[i].day = d /\ list[i].part \in 1 .. Total[d]
  /\ \A i, j \in 1 .. Len(list) : list[i].part = list[j].part => i = j

(* Part m is not in the list.                                              *)
Absent(m, list) == \A i \in 1 .. Len(list) : list[i].part # m.part

Under(k, m) == SN[m.day] = k

(* No query was sent under the serial number k ...                          *)
Nothing(k) ==
  /\ \A m \in message : ~Under(k, m)
  /\ \A h \in handler : ~Under(k, h.m)
  /\ cache[k] = NoEntry

(* ... or one, by r for the day d, whose parts are where they are once.     *)
Of(m, d, r) == m.from = r /\ m.day = d /\ m.part \in 0 .. Total[d]

Flight(k, d, r) ==
  /\ \A m \in message : Under(k, m) => Of(m, d, r) /\ Absent(m, cache[k].list)
  /\ \A h \in handler : Under(k, h.m) =>
       Of(h.m, d, r) /\ Fine(h.list, d) /\ Absent(h.m, cache[k].list)
  /\ \A m \in message, h \in handler : Under(k, m) /\ Under(k, h.m) =>
       m # h.m /\ Absent(m, h.list)
  /\ \A g, h \in handler : Under(k, g.m) /\ Under(k, h.m) =>
       Absent(g.m, h.list) /\ (g.m = h.m => g = h)
  /\ Fine(cache[k].list, d)
  /\ cache[k].ok => cache[k].total = Total[d]

Parted ==
  \A k \in Key :
    /\ queried[k] = 0 => Nothing(k)
    /\ queried[k] = 1 => \E d \in Day, r \in Requester : SN[d] = k /\ Flight(k, d, r)

(* An answer was asked for, and only who is done has one.                   *)
Got ==
  \A r \in Requester : request[r].got.ok => request[r].pc = "done" /\ queried[Serial(r)] # 0

Inv == TypeOK /\ IsFiniteSet(queryCh) /\ Parted /\ Got /\ FirstAnswerComplete

-----------------------------------------------------------------------------
(* Lists.                                                                  *)
LEMMA Extended ==
  ASSUME NEW d \in Day, NEW m \in Sent, m.day = d, m.part \in 0 .. Total[d],
         NEW list \in Seq(Item), Fine(list, d), Absent(m, list)
  PROVE  /\ list \o Items(m) \in Seq(Item)
         /\ Fine(list \o Items(m), d)
         /\ \A x \in Sent : Absent(x, list) /\ x.part # m.part => Absent(x, list \o Items(m))
  <1>1. CASE m.part = 0
    <2>1. list \o Items(m) = list
      BY <1>1 DEF Items
    <2> QED BY <2>1
  <1>2. CASE m.part # 0
    <2> DEFINE item == [day |-> m.day, part |-> m.part]
               longer == list \o <<item>>
    <2>1. Items(m) = <<item>> /\ item \in Item
      BY <1>2 DEF Items, Sent, Item
    <2>2. /\ longer \in Seq(Item) /\ Len(longer) = Len(list) + 1
          /\ \A i \in 1 .. Len(list) : longer[i] = list[i]
          /\ longer[Len(list) + 1] = item
      BY <2>1
    <2>3. item.day = d /\ item.part \in 1 .. Total[d] /\ item.part = m.part
      BY <1>2, RecordsAssumption
    <2> HIDE DEF longer, item
    <2>4. \A i \in 1 .. Len(longer) : i \in 1 .. Len(list) \/ i = Len(list) + 1
      BY <2>2
    <2>5. Fine(longer, d)
      BY <2>2, <2>3, <2>4 DEF Fine, Absent
    <2>6. \A x \in Sent : Absent(x, list) /\ x.part # m.part => Absent(x, longer)
      BY <2>2, <2>3, <2>4 DEF Absent
    <2> QED BY <2>1, <2>2, <2>5, <2>6 DEF longer
  <1> QED BY <1>1, <1>2

(* As many different parts as there are recordings are all of them.         *)
LEMMA FullIsComplete ==
  ASSUME NEW d \in Day, NEW list \in Seq(Item), Fine(list, d), Len(list) >= Total[d]
  PROVE  Complete(list, d)
  <1> DEFINE S == 1 .. Len(list)
             T == 1 .. Total[d]
             f == [i \in S |-> list[i].part]
  <1>1. Total[d] \in Nat /\ Len(list) \in Nat
    BY RecordsAssumption
  <1>2. f \in Injection(S, T)
    BY DEF Fine, Injection, IsInjective
  <1>3. /\ IsFiniteSet(S) /\ Cardinality(S) = Len(list)
        /\ IsFiniteSet(T) /\ Cardinality(T) = Total[d]
    <2>1. \A n \in Nat : IsFiniteSet(1 .. n) /\ Cardinality(1 .. n) = n
      BY FS_Interval
    <2> QED BY <1>1, <2>1
  <1> HIDE DEF S, T, f
  <1>4. Cardinality(S) <= Cardinality(T) /\ (Cardinality(S) = Cardinality(T) => f \in Surjection(S, T))
    BY <1>2, <1>3, FS_Injection
  <1>5. Len(list) = Total[d] /\ f \in Surjection(S, T)
    BY <1>1, <1>3, <1>4
  <1>6. ASSUME NEW i \in 1 .. Total[d]
        PROVE  \E j \in DOMAIN list : list[j] = [day |-> d, part |-> i]
    <2>1. PICK j \in S : f[j] = i
      BY <1>5 DEF Surjection, T
    <2>2. j \in DOMAIN list /\ list[j] \in Item /\ list[j].day = d /\ list[j].part = i
      BY <2>1 DEF S, f, Fine
    <2> QED BY <2>2 DEF Item
  <1> QED BY <1>5, <1>6 DEF Complete

-----------------------------------------------------------------------------
(* Types.                                                                  *)
LEMMA RequestGoes ==
  ASSUME TypeOK, NEW r \in Requester,
         NEW pc \in {"none", "wait", "add", "look", "send", "poll", "done"},
         request' = [request EXCEPT ![r].pc = pc]
  PROVE  request' \in [Requester ->
           [pc : {"none", "wait", "add", "look", "send", "poll", "done"}, day : Day, got : Entry]]
  BY DEF TypeOK

LEMMA Returned ==
  ASSUME TypeOK, NEW r \in Requester, NEW got \in Entry, Return(r, got)
  PROVE  /\ request' \in [Requester ->
              [pc : {"none", "wait", "add", "look", "send", "poll", "done"}, day : Day, got : Entry]]
         /\ removal' \subseteq {"guard", "cache"} \X Requester
  <1>1. Timers(r) \subseteq {"guard", "cache"} \X Requester
    BY DEF Timers
  <1>2. request' = [request EXCEPT ![r].pc = "done", ![r].got = got]
        /\ removal' = removal \cup Timers(r)
    BY DEF Return
  <1>3. removal' \subseteq {"guard", "cache"} \X Requester
    BY <1>1, <1>2 DEF TypeOK
  <1> HIDE DEF Timers
  <1> QED BY <1>2, <1>3 DEF TypeOK

LEMMA NoEntryTyped == NoEntry \in Entry
  BY DEF NoEntry, Entry

LEMMA SerialTyped ==
  ASSUME TypeOK, NEW r \in Requester
  PROVE  Serial(r) \in Key /\ request[r].day \in Day
  BY DEF TypeOK, Serial, Key

LEMMA StepTypeOK ==
  ASSUME TypeOK, IsFiniteSet(queryCh), Next
  PROVE  TypeOK' /\ IsFiniteSet(queryCh)'
  <1> USE NoEntryTyped, SerialTyped
  <1>1. ASSUME NEW r \in Requester, NEW d \in Day, Begin(r, d)
        PROVE  TypeOK' /\ IsFiniteSet(queryCh)'
    BY <1>1 DEF Begin, TypeOK
  <1>2. ASSUME NEW r \in Requester, AddGuard(r)
        PROVE  TypeOK' /\ IsFiniteSet(queryCh)'
    BY <1>2, RequestGoes DEF AddGuard, TypeOK
  <1>3. ASSUME NEW r \in Requester, Look(r)
        PROVE  TypeOK' /\ IsFiniteSet(queryCh)'
    BY <1>3, RequestGoes, Returned DEF Look, TypeOK
  <1>4. ASSUME NEW r \in Requester, SendQuery(r)
        PROVE  TypeOK' /\ IsFiniteSet(queryCh)'
    <2>1. /\ IsFiniteSet(queryCh \cup {r})
          /\ Cardinality(queryCh \cup {r}) =
               IF r \in queryCh THEN Cardinality(queryCh) ELSE Cardinality(queryCh) + 1
      BY FS_AddElement
    <2>2. Cardinality(queryCh) \in Nat /\ Cardinality(queryCh) < ChanCap /\ ChanCap \in Nat
      BY <1>4, FS_CardinalityType, RecordsAssumption DEF SendQuery, Room
    <2>3. queryCh' = queryCh \cup {r}
      BY <1>4 DEF SendQuery
    <2>4. IsFiniteSet(queryCh') /\ Cardinality(queryCh') <= ChanCap
      BY <2>1, <2>2, <2>3
    <2> QED BY <1>4, <2>4, RequestGoes DEF SendQuery, TypeOK
  <1>5. ASSUME NEW r \in Requester, Poll(r) \/ TimeOut(r)
        PROVE  TypeOK' /\ IsFiniteSet(queryCh)'
    <2>1. cache[Serial(r)] \in Entry
      BY DEF TypeOK
    <2> QED BY <1>5, <2>1, Returned DEF Poll, TimeOut, TypeOK
  <1>6. ASSUME NEW r \in Requester, Timer(r)
        PROVE  TypeOK' /\ IsFiniteSet(queryCh)'
    <2>1. cache' \in [Key -> Entry] /\ guard' \subseteq Day
          /\ removal' \subseteq {"guard", "cache"} \X Requester
      BY <1>6, ZenonT(60) DEF Timer, RemoveGuard, RemoveCache, TypeOK
    <2> QED BY <1>6, <2>1 DEF Timer, RemoveGuard, RemoveCache, TypeOK
  <1>7. ASSUME NEW r \in Requester, Dispatch(r)
        PROVE  TypeOK' /\ IsFiniteSet(queryCh)'
    <2>1. queryCh' \subseteq queryCh
      BY <1>7 DEF Dispatch
    <2>2. IsFiniteSet(queryCh') /\ Cardinality(queryCh') <= ChanCap
      <3>1. IsFiniteSet(queryCh') /\ Cardinality(queryCh') <= Cardinality(queryCh)
        BY <2>1, FS_Subset
      <3>2. Cardinality(queryCh') \in Nat /\ Cardinality(queryCh) \in Nat
        BY <3>1, FS_CardinalityType
      <3> QED BY <3>1, <3>2, RecordsAssumption DEF TypeOK
    <2>3. Parts(r) \subseteq Sent
      BY RecordsAssumption DEF Parts, Part, Sent
    <2>4. queried' \in [Key -> Nat]
      BY <1>7 DEF Dispatch, TypeOK
    <2>5. message' \subseteq Sent
      BY <1>7, <2>3 DEF Dispatch, TypeOK
    <2> QED BY <1>7, <2>1, <2>2, <2>4, <2>5 DEF Dispatch, TypeOK
  <1>8. ASSUME NEW m \in message, Lose(m) \/ GetList(m)
        PROVE  TypeOK' /\ IsFiniteSet(queryCh)'
    <2>1. m \in Sent /\ SN[m.day] \in Key
      BY DEF TypeOK, Sent, Key
    <2>2. cache[SN[m.day]].list \in Seq(Item)
      BY <2>1 DEF TypeOK, Entry
    <2>3. message' \subseteq Sent
      BY <1>8 DEF Lose, GetList, TypeOK
    <2>4. \A h \in handler' : h.m \in Sent /\ h.list \in Seq(Item) /\ h = [m |-> h.m, list |-> h.list]
      BY <1>8, <2>1, <2>2 DEF Lose, GetList, TypeOK
    <2> QED BY <1>8, <2>3, <2>4 DEF Lose, GetList, TypeOK
  <1>9. ASSUME NEW h \in handler, SetList(h)
        PROVE  TypeOK' /\ IsFiniteSet(queryCh)'
    <2>1. h.m \in Sent /\ h.list \in Seq(Item)
      BY DEF TypeOK
    <2>2. Items(h.m) \in Seq(Item)
      <3>1. [day |-> h.m.day, part |-> h.m.part] \in Item
        BY <2>1 DEF Sent, Item
      <3> QED BY <3>1 DEF Items
    <2>3. [ok |-> TRUE, total |-> Total[h.m.day], list |-> h.list \o Items(h.m)] \in Entry
      BY <2>1, <2>2, RecordsAssumption DEF Entry, Sent
    <2>4. cache' \in [Key -> Entry]
      BY <1>9, <2>3 DEF SetList, TypeOK
    <2> QED BY <1>9, <2>4 DEF SetList, TypeOK
  <1> QED BY <1>1, <1>2, <1>3, <1>4, <1>5, <1>6, <1>7, <1>8, <1>9 DEF Next, DO

-----------------------------------------------------------------------------
(* Where the parts of a query are.                                         *)
LEMMA Empty ==
  ASSUME NEW d \in Day
  PROVE  Fine(NoEntry.list, d) /\ \A m : Absent(m, NoEntry.list)
  BY DEF Fine, Absent, NoEntry

LEMMA FlightLose ==
  ASSUME NEW k \in Key, NEW d \in Day, NEW r \in Requester, Flight(k, d, r),
         message' \subseteq message, UNCHANGED <<handler, cache>>
  PROVE  Flight(k, d, r)'
  BY DEF Flight

(* A part in the hands of a handler is not on its way any more.            *)
LEMMA FlightGet ==
  ASSUME TypeOK, NEW k \in Key, NEW d \in Day, NEW r \in Requester, Flight(k, d, r),
         NEW m \in message, GetList(m)
  PROVE  Flight(k, d, r)'
  <1> DEFINE h == [m |-> m, list |-> cache[SN[m.day]].list]
  <1>1. message' = message \ {m} /\ handler' = handler \cup {h} /\ cache' = cache
    BY DEF GetList
  <1>2. h.m = m /\ (Under(k, m) => h.list = cache[k].list)
    BY DEF Under
  <1> HIDE DEF h
  <1>3. CASE ~Under(k, m)
    BY <1>1, <1>2, <1>3 DEF Flight
  <1>4. CASE Under(k, m)
    <2>1. \A x \in message' : Under(k, x) =>
            /\ Of(x, d, r) /\ Absent(x, cache[k].list)
            /\ x # h.m /\ Absent(x, h.list)
            /\ \A g \in handler : Under(k, g.m) => x # g.m /\ Absent(x, g.list)
      BY <1>1, <1>2, <1>4 DEF Flight
    <2>2. \A g \in handler' : Under(k, g.m) =>
            Of(g.m, d, r) /\ Fine(g.list, d) /\ Absent(g.m, cache[k].list)
      BY <1>1, <1>2, <1>4 DEF Flight
    <2>3. \A g \in handler : Under(k, g.m) =>
            /\ Absent(g.m, h.list) /\ Absent(h.m, g.list) /\ g.m # h.m
      BY <1>1, <1>2, <1>4 DEF Flight
    <2>4. Absent(h.m, h.list)
      BY <1>2, <1>4 DEF Flight
    <2>5. \A f, g \in handler : Under(k, f.m) /\ Under(k, g.m) =>
            Absent(f.m, g.list) /\ (f.m = g.m => f = g)
      BY DEF Flight
    <2>6. Fine(cache[k].list, d) /\ (cache[k].ok => cache[k].total = Total[d])
      BY DEF Flight
    <2> QED BY <1>1, <2>1, <2>2, <2>3, <2>4, <2>5, <2>6 DEF Flight
  <1> QED BY <1>3, <1>4

(* A part that is set extends one list that did not have it.               *)
LEMMA FlightSet ==
  ASSUME TypeOK, NEW k \in Key, NEW d \in Day, NEW r \in Requester, Flight(k, d, r),
         NEW h \in handler, SetList(h)
  PROVE  Flight(k, d, r)'
  <1>1. message' = message /\ handler' = handler \ {h}
    BY DEF SetList
  <1>2. CASE ~Under(k, h.m)
    <2>1. cache'[k] = cache[k]
      BY <1>2 DEF SetList, TypeOK, Under
    <2> QED BY <1>1, <2>1 DEF Flight
  <1>3. CASE Under(k, h.m)
    <2> DEFINE longer == h.list \o Items(h.m)
    <2>0. h.m \in Sent /\ h.list \in Seq(Item) /\ Of(h.m, d, r) /\ Fine(h.list, d)
          /\ Absent(h.m, h.list)
      BY <1>3 DEF Flight, TypeOK
    <2>1. cache'[k].list = longer /\ cache'[k].total = Total[d]
      BY <1>3, <2>0 DEF SetList, TypeOK, Under, Of
    <2>2. /\ Fine(longer, d)
          /\ \A x \in Sent : Absent(x, h.list) /\ x.part # h.m.part => Absent(x, longer)
      BY <2>0, Extended DEF Of
    <2> HIDE DEF longer
    <2>3. ASSUME NEW x \in Sent, Of(x, d, r), x # h.m
          PROVE  x.part # h.m.part
      BY <2>0, <2>3 DEF Of, Sent
    <2>4. \A x \in message : Under(k, x) => Absent(x, longer)
      BY <1>3, <2>2, <2>3 DEF Flight, TypeOK
    <2>5. \A g \in handler \ {h} : Under(k, g.m) => Absent(g.m, longer)
      <3> SUFFICES ASSUME NEW g \in handler, g # h, Under(k, g.m)
                   PROVE  Absent(g.m, longer)
        OBVIOUS
      <3>1. g.m \in Sent /\ g.m # h.m /\ Of(g.m, d, r) /\ Absent(g.m, h.list)
        BY <1>3 DEF Flight, TypeOK
      <3> QED BY <2>2, <2>3, <3>1
    <2> QED BY <1>1, <2>1, <2>2, <2>4, <2>5 DEF Flight
  <1> QED BY <1>2, <1>3

LEMMA FlightRemove ==
  ASSUME TypeOK, NEW k \in Key, NEW d \in Day, NEW r \in Requester, Flight(k, d, r),
         NEW q \in Requester, RemoveCache(q)
  PROVE  Flight(k, d, r)'
  <1>1. message' = message /\ handler' = handler
    BY DEF RemoveCache
  <1>2. cache'[k] = cache[k] \/ cache'[k] = NoEntry
    BY SerialTyped DEF RemoveCache, TypeOK
  <1>3. CASE cache'[k] = cache[k]
    BY <1>1, <1>3 DEF Flight
  <1>4. CASE cache'[k] = NoEntry
    <2>1. ~NoEntry.ok
      BY DEF NoEntry
    <2>2. Fine(cache'[k].list, d) /\ \A m : Absent(m, cache'[k].list)
      BY <1>4, Empty
    <2> QED BY <1>1, <1>4, <2>1, <2>2 DEF Flight
  <1> QED BY <1>2, <1>3, <1>4

(* The first query of a serial number.                                     *)
LEMMA FlightStart ==
  ASSUME TypeOK, NEW k \in Key, NEW d \in Day, NEW r \in Requester,
         k = Serial(r), d = request[r].day, Nothing(k), message' = message \cup Parts(r),
         UNCHANGED <<handler, cache>>
  PROVE  Flight(k, d, r)'
  <1>1. \A m \in Parts(r) : Of(m, d, r)
    BY RecordsAssumption DEF Parts, Part, Of
  <1>2. ~NoEntry.ok /\ cache'[k] = NoEntry /\ \A h \in handler' : ~Under(k, h.m)
    BY DEF Nothing, NoEntry
  <1>3. Fine(cache'[k].list, d) /\ \A m : Absent(m, cache'[k].list)
    BY <1>2, Empty
  <1>4. \A m \in message' : Under(k, m) => Of(m, d, r)
    BY <1>1 DEF Nothing
  <1> QED BY <1>2, <1>3, <1>4 DEF Flight

(* Who touches the answers.                                                *)
Answers == <<cache, message, handler, queried>>

LEMMA AnswersFrame ==
  ASSUME Next
  PROVE  \/ UNCHANGED Answers
         \/ \E r \in Requester : RemoveCache(r) \/ Dispatch(r)
         \/ \E m \in message : Lose(m) \/ GetList(m)
         \/ \E h \in handler : SetList(h)
  BY DEF Next, DO, Timer, Begin, AddGuard, Look, SendQuery, Poll, TimeOut, RemoveGuard, Answers

LEMMA StepParted ==
  ASSUME TypeOK, Parted, Next
  PROVE  Parted'
  <1> SUFFICES ASSUME NEW k \in Key
               PROVE  /\ queried'[k] = 0 => Nothing(k)'
                      /\ queried'[k] = 1 => \E d \in Day, r \in Requester : SN[d] = k /\ Flight(k, d, r)'
    BY DEF Parted
  <1> DEFINE Goal == /\ queried'[k] = 0 => Nothing(k)'
                     /\ queried'[k] = 1 => \E d \in Day, r \in Requester : SN[d] = k /\ Flight(k, d, r)'
  <1>0. /\ queried \in [Key -> Nat]
        /\ queried[k] = 0 => Nothing(k)
        /\ queried[k] = 1 => \E d \in Day, r \in Requester : SN[d] = k /\ Flight(k, d, r)
    BY DEF TypeOK, Parted
  <1>1. CASE UNCHANGED Answers
    <2>1. /\ queried' = queried /\ (Nothing(k) => Nothing(k)')
          /\ \A d \in Day, r \in Requester : Flight(k, d, r) => Flight(k, d, r)'
      BY <1>1 DEF Answers, Nothing, Flight
    <2> QED BY <1>0, <2>1
  <1>2. ASSUME NEW q \in Requester, RemoveCache(q)
        PROVE  Goal
    <2>1. queried' = queried /\ (Nothing(k) => Nothing(k)')
      BY <1>2, SerialTyped DEF RemoveCache, Nothing, TypeOK
    <2>2. \A d \in Day, r \in Requester : Flight(k, d, r) => Flight(k, d, r)'
      BY <1>2, FlightRemove
    <2> QED BY <1>0, <2>1, <2>2
  <1>3. ASSUME NEW m \in message, Lose(m)
        PROVE  Goal
    <2>1. /\ queried' = queried /\ UNCHANGED <<handler, cache>> /\ message' \subseteq message
      BY <1>3 DEF Lose
    <2>2. \A d \in Day, r \in Requester : Flight(k, d, r) => Flight(k, d, r)'
      BY <2>1, FlightLose
    <2>3. Nothing(k) => Nothing(k)'
      BY <2>1 DEF Nothing
    <2> QED BY <1>0, <2>1, <2>2, <2>3
  <1>4. ASSUME NEW m \in message, GetList(m)
        PROVE  Goal
    <2>1. queried' = queried /\ (Nothing(k) => Nothing(k)')
      BY <1>4 DEF GetList, Nothing
    <2>2. \A d \in Day, r \in Requester : Flight(k, d, r) => Flight(k, d, r)'
      BY <1>4, FlightGet
    <2> QED BY <1>0, <2>1, <2>2
  <1>5. ASSUME NEW h \in handler, SetList(h)
        PROVE  Goal
    <2>1. queried' = queried /\ (Nothing(k) => Nothing(k)')
      BY <1>5 DEF SetList, Nothing, Under, TypeOK
    <2>2. \A d \in Day, r \in Requester : Flight(k, d, r) => Flight(k, d, r)'
      BY <1>5, FlightSet
    <2> QED BY <1>0, <2>1, <2>2
  <1>6. ASSUME NEW q \in Requester, Dispatch(q)
        PROVE  Goal
    <2>0. Serial(q) \in Key /\ request[q].day \in Day /\ SN[request[q].day] = Serial(q)
      BY SerialTyped DEF Serial
    <2>1. CASE UNCHANGED <<message, queried>>
      BY <1>1, <1>6, <2>1 DEF Dispatch, Answers
    <2>2. CASE /\ message' = message \cup Parts(q)
               /\ queried' = [queried EXCEPT ![Serial(q)] = @ + 1]
      <3>1. UNCHANGED <<handler, cache>>
        BY <1>6 DEF Dispatch
      <3>2. CASE Serial(q) # k
        <4>1. queried'[k] = queried[k]
          BY <1>0, <2>2, <3>2
        <4>2. \A m \in Parts(q) : ~Under(k, m)
          BY <2>0, <3>2 DEF Parts, Part, Under
        <4>3. Nothing(k) => Nothing(k)'
          BY <2>2, <3>1, <4>2 DEF Nothing
        <4>4. \A d \in Day, r \in Requester : Flight(k, d, r) => Flight(k, d, r)'
          BY <2>2, <3>1, <4>2 DEF Flight
        <4> QED BY <1>0, <4>1, <4>3, <4>4
      <3>3. CASE Serial(q) = k
        <4>1. queried'[k] = queried[k] + 1 /\ queried[k] \in Nat
          BY <1>0, <2>2, <3>3
        <4>2. queried'[k] # 0 /\ (queried'[k] = 1 => queried[k] = 0)
          BY <4>1
        <4>3. queried'[k] = 1 =>
                \E d \in Day : d = request[q].day /\ SN[d] = k /\ Flight(k, d, q)'
          BY <1>0, <2>0, <2>2, <3>1, <3>3, <4>2, FlightStart
        <4> QED BY <4>2, <4>3
      <3> QED BY <3>2, <3>3
    <2> QED BY <1>6, <2>1, <2>2 DEF Dispatch
  <1> QED BY <1>1, <1>2, <1>3, <1>4, <1>5, <1>6, AnswersFrame

-----------------------------------------------------------------------------
(* What the requests get.                                                  *)

(* A request that is done keeps its day and its answer, and one that is     *)
(* done by the step got nothing, or the answer that was there.             *)
LEMMA RequestFrame ==
  ASSUME TypeOK, Got, Next, NEW r \in Requester, request'[r].got.ok
  PROVE  \/ request'[r] = request[r] /\ request[r].got.ok
         \/ /\ request'[r].pc = "done" /\ request'[r].day = request[r].day
            /\ request'[r].got = cache[Serial(r)] /\ Answered(Serial(r))
            /\ UNCHANGED Answers
  <1> DEFINE Goal == \/ request'[r] = request[r] /\ request[r].got.ok
                     \/ /\ request'[r].pc = "done" /\ request'[r].day = request[r].day
                        /\ request'[r].got = cache[Serial(r)] /\ Answered(Serial(r))
                        /\ UNCHANGED Answers
  <1>0. /\ request \in [Requester -> [pc : {"none", "wait", "add", "look", "send", "poll", "done"},
                                      day : Day, got : Entry]]
        /\ ~NoEntry.ok
        /\ request[r].got.ok => request[r].pc = "done"
    BY DEF TypeOK, Got, NoEntry
  <1>1. CASE request'[r] = request[r]
    BY <1>1
  <1>2. ASSUME NEW q \in Requester, \E d \in Day : Begin(q, d)
        PROVE  Goal
    BY <1>0, <1>2 DEF Begin
  <1>3. ASSUME NEW q \in Requester, NEW x, request[q].pc # "done",
               request' = [request EXCEPT ![q].pc = x]
        PROVE  Goal
    BY <1>0, <1>3
  <1>4. ASSUME NEW q \in Requester, Return(q, NoEntry)
        PROVE  Goal
    BY <1>0, <1>4 DEF Return
  <1>5. ASSUME NEW q \in Requester, Poll(q)
        PROVE  Goal
    <2>1. request' = [request EXCEPT ![q].pc = "done", ![q].got = cache[Serial(q)]]
          /\ UNCHANGED Answers /\ Answered(Serial(q))
      BY <1>5 DEF Poll, Return, Answers
    <2>2. CASE q = r
      BY <1>0, <2>1, <2>2
    <2>3. CASE q # r
      BY <1>0, <1>1, <2>1, <2>3
    <2> QED BY <2>2, <2>3
  <1>6. ASSUME NEW q \in Requester, AddGuard(q) \/ SendQuery(q)
        PROVE  Goal
    BY <1>3, <1>6 DEF AddGuard, SendQuery
  <1>7. ASSUME NEW q \in Requester, Look(q) \/ TimeOut(q)
        PROVE  Goal
    BY <1>3, <1>4, <1>7 DEF Look, TimeOut
  <1>8. CASE request' = request
    BY <1>1, <1>8
  <1> QED BY <1>2, <1>5, <1>6, <1>7, <1>8 DEF Next, DO, Timer, RemoveGuard, RemoveCache, Dispatch,
          Lose, GetList, SetList

LEMMA QueriedStays ==
  ASSUME TypeOK, Next, NEW k \in Key
  PROVE  /\ queried[k] # 0 => queried'[k] # 0
         /\ queried'[k] = 1 => queried[k] \in {0, 1}
  <1>1. queried \in [Key -> Nat]
    BY DEF TypeOK
  <1>2. queried' = queried \/ \E r \in Requester : queried' = [queried EXCEPT ![Serial(r)] = @ + 1]
    BY AnswersFrame DEF Answers, RemoveCache, Dispatch, Lose, GetList, SetList
  <1> QED BY <1>1, <1>2

LEMMA StepGot ==
  ASSUME TypeOK, Parted, Got, FirstAnswerComplete, Next
  PROVE  Got' /\ FirstAnswerComplete'
  <1> SUFFICES ASSUME NEW r \in Requester, request'[r].got.ok
               PROVE  /\ request'[r].pc = "done" /\ queried'[SN[request'[r].day]] # 0
                      /\ queried'[SN[request'[r].day]] = 1 =>
                           \E d \in Day : /\ SN[d] = SN[request'[r].day]
                                         /\ Complete(request'[r].got.list, d)
    BY DEF Got, FirstAnswerComplete, Serial
  <1> DEFINE k == SN[request[r].day]
  <1>0. k \in Key /\ k = Serial(r) /\ queried \in [Key -> Nat] /\ cache \in [Key -> Entry]
    BY SerialTyped DEF Serial, TypeOK
  <1> HIDE DEF k
  <1>1. CASE request'[r] = request[r] /\ request[r].got.ok
    <2>1. request[r].pc = "done" /\ queried[k] # 0
      BY <1>0, <1>1 DEF Got
    <2>2. queried'[k] # 0 /\ (queried'[k] = 1 => queried[k] = 1)
      BY <1>0, <2>1, QueriedStays
    <2>3. queried[k] = 1 => \E d \in Day : SN[d] = k /\ Complete(request[r].got.list, d)
      BY <1>0, <1>1 DEF FirstAnswerComplete
    <2> QED BY <1>1, <2>1, <2>2, <2>3 DEF k
  <1>2. CASE /\ request'[r].pc = "done" /\ request'[r].day = request[r].day
             /\ request'[r].got = cache[k] /\ Answered(k) /\ UNCHANGED Answers
    <2>1. cache[k].ok /\ Len(cache[k].list) >= cache[k].total /\ cache[k].list \in Seq(Item)
      BY <1>0, <1>2 DEF Answered, Entry
    <2>2. queried[k] # 0 /\ queried' = queried
      <3>1. ~NoEntry.ok
        BY DEF NoEntry
      <3> QED BY <1>0, <1>2, <2>1, <3>1 DEF Parted, Nothing, Answers
    <2>3. ASSUME queried[k] = 1
          PROVE  \E d \in Day : SN[d] = k /\ Complete(cache[k].list, d)
      <3>1. PICK d \in Day, q \in Requester : SN[d] = k /\ Flight(k, d, q)
        BY <1>0, <2>3 DEF Parted
      <3>2. Fine(cache[k].list, d) /\ Len(cache[k].list) >= Total[d]
        BY <2>1, <3>1 DEF Flight
      <3>3. Complete(cache[k].list, d)
        BY <2>1, <3>2, FullIsComplete
      <3> QED BY <3>1, <3>3
    <2> QED BY <1>2, <2>2, <2>3 DEF k
  <1> QED BY <1>0, <1>1, <1>2, RequestFrame

-----------------------------------------------------------------------------
LEMMA InitInv == Init => Inv
  <1> SUFFICES ASSUME Init PROVE Inv
    OBVIOUS
  <1>1. (CHOOSE d \in Day : TRUE) \in Day
    BY RecordsAssumption
  <1>2. TypeOK /\ IsFiniteSet(queryCh)
    BY <1>1, NoEntryTyped, FS_EmptySet, RecordsAssumption DEF Init, TypeOK, Idle
  <1>3. Parted
    BY DEF Init, Parted, Nothing
  <1>4. \A r \in Requester : ~request[r].got.ok
    BY DEF Init, Idle, NoEntry
  <1> QED BY <1>2, <1>3, <1>4 DEF Inv, Got, FirstAnswerComplete

LEMMA StepInv == Inv /\ [Next]_vars => Inv'
  <1> SUFFICES ASSUME Inv, [Next]_vars PROVE Inv'
    OBVIOUS
  <1>1. CASE UNCHANGED vars
    BY <1>1 DEF vars, Inv, TypeOK, Parted, Nothing, Flight, Got, FirstAnswerComplete, Serial
  <1>2. CASE Next
    BY <1>2, StepTypeOK, StepParted, StepGot DEF Inv
  <1> QED BY <1>1, <1>2

LEMMA Invariant == Spec => []Inv
  BY InitInv, StepInv, PTL DEF Spec

(* The types of the requests, the guard, the answers and the parts.        *)
THEOREM RecordsTypeOK == Spec => []TypeOK
  BY Invariant, PTL DEF Inv

(* What a request gets under a serial number that was queried once is every *)
(* recording of a day, once, whatever parts were lost, reordered or written *)
(* over, for any number of requests, days and recordings.                  *)
THEOREM RecordsFirstAnswerComplete == Spec => []FirstAnswerComplete
  BY Invariant, PTL DEF Inv
=============================================================================
