---------------------------- MODULE VideoRecords ----------------------------
(* The recordings of one channel of a device: HTTP requests for a day query *)
(* the device and wait for its answer, which arrives in parts that handlers *)
(* gather in a map.  Requests for a day that is being queried wait for the  *)
(* answer of the other one.                                                *)
EXTENDS Integers, Sequences, FiniteSets

CONSTANTS
  Requester,   \* HTTP requests, each is made once
  Day,
  SN,          \* per day: the number made of its digits without zeros
  Total,       \* per day: SumNum, the recordings the device has
  ChanCap      \* capacity of SipSendQueryVideoRecords (100)

ASSUME RecordsAssumption ==
  /\ Day # {} /\ Total \in [Day -> Nat] /\ DOMAIN SN = Day
  /\ ChanCap \in Nat \ {0}

VARIABLES
  guard,     \* FetchDeviceVideoState: the days of the channel
  cache,     \* SipMessageVideoRecordMap, by serial number
  request,   \* the HTTP requests
  removal,   \* running timers: <<"guard", r>> and <<"cache", r>>
  queryCh,   \* SipSendQueryVideoRecords, the senders of the queries
  message,   \* parts of answers on their way
  handler,   \* VideoRecordsLogic between Get and Set: the part, the list read
  queried    \* history: queries sent, by serial number

vars == <<guard, cache, request, removal, queryCh, message, handler, queried>>

Key     == {SN[d] : d \in Day}
Item    == [day : Day, part : Nat]
Sent    == [from : Requester, day : Day, part : Nat]
Entry   == [ok : BOOLEAN, total : Nat, list : Seq(Item)]
NoEntry == [ok |-> FALSE, total |-> 0, list |-> <<>>]
Idle    == [pc |-> "none", day |-> CHOOSE d \in Day : TRUE, got |-> NoEntry]
Serial(r) == SN[request[r].day]

Init ==
  /\ guard = {} /\ cache = [k \in Key |-> NoEntry]
  /\ request = [r \in Requester |-> Idle]
  /\ removal = {} /\ queryCh = {} /\ message = {} /\ handler = {}
  /\ queried = [k \in Key |-> 0]

-----------------------------------------------------------------------------
(* VideosLogic.DO                                                          *)
Begin(r, d) ==
  /\ request[r].pc = "none"
  /\ request' = [request EXCEPT ![r].day = d, ![r].pc = IF d \in guard THEN "wait" ELSE "add"]
  /\ UNCHANGED <<guard, cache, removal, queryCh, message, handler, queried>>

AddGuard(r) ==
  /\ request[r].pc = "add"
  /\ guard' = guard \cup {request[r].day}
  /\ request' = [request EXCEPT ![r].pc = "look"]
  /\ UNCHANGED <<cache, removal, queryCh, message, handler, queried>>

(* The timers a return of the request starts: the guard's is deferred as    *)
(* soon as the guard is taken, the answer's when the query is sent.         *)
TimersOfGuard(r) == IF request[r].pc = "wait" THEN {} ELSE {<<"guard", r>>}                  \* mutant
Timers(r) ==
  (IF request[r].pc = "wait" THEN {} ELSE {<<"guard", r>>})
    \cup (IF request[r].pc = "poll" THEN {<<"cache", r>>} ELSE {})

Return(r, got) ==
  /\ request' = [request EXCEPT ![r].pc = "done", ![r].got = got]
  /\ removal' = removal \cup Timers(r)

(* The device has to be registered.                                        *)
Look(r) ==
  /\ request[r].pc = "look"
  /\ \/ Return(r, NoEntry)
     \/ request' = [request EXCEPT ![r].pc = "send"] /\ UNCHANGED removal
  /\ UNCHANGED <<guard, cache, queryCh, message, handler, queried>>

RoomAlways == TRUE                                          \* mutant
Room == Cardinality(queryCh) < ChanCap

SendQuery(r) ==
  /\ request[r].pc = "send" /\ Room
  /\ queryCh' = queryCh \cup {r}
  /\ request' = [request EXCEPT ![r].pc = "poll"]
  /\ UNCHANGED <<guard, cache, removal, message, handler, queried>>

(* fetchData: an answer is there when the list is as long as the total.    *)
AnyAnswer(k) == cache[k].ok /\ cache[k].list # <<>>         \* mutant
Answered(k) == cache[k].ok /\ Len(cache[k].list) >= cache[k].total

Poll(r) ==
  /\ request[r].pc \in {"poll", "wait"} /\ Answered(Serial(r))
  /\ Return(r, cache[Serial(r)])
  /\ UNCHANGED <<guard, cache, queryCh, message, handler, queried>>

TimeOut(r) ==
  /\ request[r].pc \in {"poll", "wait"}
  /\ Return(r, NoEntry)
  /\ UNCHANGED <<guard, cache, queryCh, message, handler, queried>>

(* The timers: half a second after the return.                             *)
RemoveGuard(r) ==
  /\ <<"guard", r>> \in removal
  /\ removal' = removal \ {<<"guard", r>>}
  /\ guard' = guard \ {request[r].day}
  /\ UNCHANGED <<cache, request, queryCh, message, handler, queried>>

RemoveCache(r) ==
  /\ <<"cache", r>> \in removal
  /\ removal' = removal \ {<<"cache", r>>}
  /\ cache' = [cache EXCEPT ![Serial(r)] = NoEntry]
  /\ UNCHANGED <<guard, request, queryCh, message, handler, queried>>

-----------------------------------------------------------------------------
(* SendLogic sends the query, unless the device is not registered any more  *)
(* or cannot be reached; the device answers with one recording a part, or   *)
(* with one part when there is none.                                       *)
Part(r, i) == [from |-> r, day |-> request[r].day, part |-> i]
Parts(r) ==
  LET n == Total[request[r].day]
  IN  {Part(r, i) : i \in IF n = 0 THEN {0} ELSE 1 .. n}

Dispatch(r) ==
  /\ r \in queryCh
  /\ queryCh' = queryCh \ {r}
  /\ \/ /\ message' = message \cup Parts(r)
        /\ queried' = [queried EXCEPT ![Serial(r)] = @ + 1]
     \/ UNCHANGED <<message, queried>>
  /\ UNCHANGED <<guard, cache, request, removal, handler>>

Lose(m) ==
  /\ message' = message \ {m}
  /\ UNCHANGED <<guard, cache, request, removal, queryCh, handler, queried>>

(* VideoRecordsLogic.DO: the list is read, extended and written back.      *)
Items(m) == IF m.part = 0 THEN <<>> ELSE <<[day |-> m.day, part |-> m.part]>>

GetList(m) ==
  /\ message' = message \ {m}
  /\ handler' = handler \cup {[m |-> m, list |-> cache[SN[m.day]].list]}
  /\ UNCHANGED <<guard, cache, request, removal, queryCh, queried>>

SetList(h) ==
  /\ handler' = handler \ {h}
  /\ cache' = [cache EXCEPT ![SN[h.m.day]] =
       [ok |-> TRUE, total |-> Total[h.m.day], list |-> h.list \o Items(h.m)]]
  /\ UNCHANGED <<guard, request, removal, queryCh, message, queried>>

-----------------------------------------------------------------------------
DO(r) == AddGuard(r) \/ Look(r) \/ SendQuery(r) \/ Poll(r) \/ TimeOut(r)
Timer(r) == RemoveGuard(r) \/ RemoveCache(r)

Next ==
  \/ \E r \in Requester : \/ \E d \in Day : Begin(r, d)
                          \/ DO(r) \/ Timer(r) \/ Dispatch(r)
  \/ \E m \in message : Lose(m) \/ GetList(m)
  \/ \E h \in handler : SetList(h)

Spec == Init /\ [][Next]_vars

(* Goroutines that can run do, time-outs and timers end.                    *)
Fairness ==
  /\ \A r \in Requester : /\ WF_vars(DO(r)) /\ WF_vars(Dispatch(r))
                          /\ WF_vars(RemoveGuard(r)) /\ WF_vars(RemoveCache(r))
  /\ WF_vars(\E h \in handler : SetList(h))

FairSpec == Spec /\ Fairness

-----------------------------------------------------------------------------
TypeOK ==
  /\ guard \subseteq Day
  /\ cache \in [Key -> Entry]
  /\ request \in [Requester ->
       [pc : {"none", "wait", "add", "look", "send", "poll", "done"}, day : Day, got : Entry]]
  /\ removal \subseteq {"guard", "cache"} \X Requester
  /\ queryCh \subseteq Requester /\ Cardinality(queryCh) <= ChanCap
  /\ message \subseteq Sent
  /\ \A h \in handler : h.m \in Sent /\ h.list \in Seq(Item) /\ h = [m |-> h.m, list |-> h.list]
  /\ queried \in [Key -> Nat]

(* As long as one query was sent under a serial number, what a request gets *)
(* under it is every recording of a day with this number, once: parts that  *)
(* were lost, came in any order or overwrote each other make it time out,   *)
(* never a list with gaps.  (Two days with one number do get each other's.) *)
Complete(list, d) ==
  /\ Len(list) = Total[d]
  /\ \A i \in 1 .. Total[d] : \E j \in DOMAIN list : list[j] = [day |-> d, part |-> i]

FirstAnswerComplete ==
  \A r \in Requester :
    request[r].got.ok /\ queried[Serial(r)] = 1 =>
      \E d \in Day : SN[d] = Serial(r) /\ Complete(request[r].got.list, d)

(* Nothing that a request has seen is left of its query, whatever path it   *)
(* returns on and although two of them may take the guard at a time: the    *)
(* guard ends with them, and parts of the answer that are in the map while  *)
(* the request polls, too few or all, are removed from it.  (A part that    *)
(* is written after the removal stays: nothing removes it but the next      *)
(* query of the day.)                                                      *)
NothingLeft ==
  /\ \A d \in Day : d \in guard ~> d \notin guard
  /\ \A r \in Requester :
       request[r].pc = "poll" /\ cache[Serial(r)].ok ~> ~cache[Serial(r)].ok
=============================================================================
