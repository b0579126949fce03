--------------------------- MODULE SipLogsProofs ---------------------------
(* Theorems about SipLogs for any number of connections and topics and any  *)
(* capacities: types, what an ended connection takes from the next, and that  *)
(* no dropped line goes unreported.                                        *)
EXTENDS SipLogs, FiniteSetTheorems, TLAPS

(* A connection that DO has not begun to serve has no goroutines.           *)
Fresh ==
  \A c \in Client : conn[c] \in {"none", "check", "store"} =>
    /\ msg[c] = <<>> /\ ~closeFlag[c] /\ ticker[c].pc = "none"
    /\ \A t \in Topic : receiver[c][t].pc = "none"

(* Who uses a channelInfo has one, and who looks one up has a topic.        *)
Placed ==
  /\ \A c \in Client :
       /\ ticker[c].pc \in {"none", "wait", "beat", "flag", "done"} => ticker[c].at = 1
       /\ ticker[c].pc \in {"load", "leave"} => ticker[c].at \in 1 .. Len(Topics)
       /\ ticker[c].pc = "leave" => ticker[c].k # 0
       /\ \A t \in Topic : receiver[c][t].pc \notin {"none", "load"} => receiver[c][t].k # 0
  /\ sender.pc # "idle" => sender.k # 0

(* The receivers that took a line and have seen closeFlag, or will.         *)
Stopping(c) == {t \in Topic : receiver[c][t].pc \in {"check", "end"}}

FewTaken ==
  \A c \in Client :
    /\ ~closeFlag[c] => lost[c] = 0
    /\ lost[c] <= Cardinality(Stopping(c))

Inv == TypeOK /\ Fresh /\ Placed /\ FewTaken

-----------------------------------------------------------------------------
LEMMA Bounds ==
  /\ MsgCap \in Nat /\ MsgCap >= 1 /\ LineCap \in Nat /\ LineCap >= 1 /\ MaxLines \in Nat
  /\ Topics \in Seq(Topic) /\ Len(Topics) \in Nat /\ Len(Topics) >= 1
  BY SipLogsAssumption

LEMMA TopicsFinite == IsFiniteSet(Topic) /\ Cardinality(Topic) <= Len(Topics)
  <1> DEFINE f == [i \in 1 .. Len(Topics) |-> Topics[i]]
  <1>1. DOMAIN Topics = 1 .. Len(Topics) /\ Len(Topics) \in Nat
    BY Bounds
  <1>2. f \in Surjection(1 .. Len(Topics), Topic)
    BY <1>1 DEF Topic, Surjection
  <1>3. IsFiniteSet(1 .. Len(Topics)) /\ Cardinality(1 .. Len(Topics)) = Len(Topics)
    <2>1. \A n \in Nat : IsFiniteSet(1 .. n) /\ Cardinality(1 .. n) = n
      BY FS_Interval
    <2> QED BY <1>1, <2>1
  <1>4. IsFiniteSet(Topic) /\ Cardinality(Topic) <= Cardinality(1 .. Len(Topics))
    <2>1. \A S, T : \A g \in Surjection(S, T) :
            IsFiniteSet(S) => IsFiniteSet(T) /\ Cardinality(T) <= Cardinality(S)
      BY FS_Surjection
    <2> HIDE DEF f
    <2> QED BY <1>2, <1>3, <2>1
  <1> QED BY <1>3, <1>4

(* Messages that are sent are messages.                                    *)
LEMMA PutTyped ==
  ASSUME TypeOK, NEW c \in Client, NEW m \in Message, Len(msg[c]) < MsgCap, Put(c, m)
  PROVE  msg' \in [Client -> Seq(Message)] /\ \A d \in Client : Len(msg'[d]) <= MsgCap
  <1>1. msg \in [Client -> Seq(Message)] /\ \A d \in Client : Len(msg[d]) <= MsgCap
    BY DEF TypeOK
  <1>2. Append(msg[c], m) \in Seq(Message) /\ Len(Append(msg[c], m)) = Len(msg[c]) + 1
    BY <1>1
  <1>3. msg' = [msg EXCEPT ![c] = Append(msg[c], m)]
    BY DEF Put
  <1>4. Len(msg[c]) + 1 <= MsgCap
    BY <1>1, Bounds
  <1> QED BY <1>1, <1>2, <1>3, <1>4

LEMMA Messages ==
  /\ \A n \in Nat : Data(n) \in Message /\ Data(n).n = n
  /\ Done \in Message /\ Err \in Message
  /\ \A m \in Message : m.n \in Nat
  BY DEF Message, Data, Done, Err

-----------------------------------------------------------------------------
(* Types.                                                                  *)
TickerPc == {"none", "wait", "beat", "flag", "done", "load", "leave", "end"}
Ticker(m) == [pc : TickerPc, n : Nat, at : 1 .. Len(Topics) + 1, k : 0 .. m]
ReceiverPc == {"none", "load", "count", "range", "check", "line", "put", "end"}
Receiver(m) == [pc : ReceiverPc, k : 0 .. m]
Info == [usage : Int, queue : 0 .. LineCap, closed : BOOLEAN]

(* The handler's side, the goroutines', the manager's.                      *)
HandlerTyped ==
  /\ active \in BOOLEAN /\ panicked \in BOOLEAN
  /\ conn \in [Client -> {"none", "check", "store", "range", "close", "closed"}]
  /\ left \in [Client -> BOOLEAN] /\ closed \in [Client -> BOOLEAN]
  /\ closeFlag \in [Client -> BOOLEAN]

MsgTyped ==
  msg \in [Client -> Seq(Message)] /\ \A c \in Client : Len(msg[c]) <= MsgCap

CountsTyped ==
  /\ dropped \in [Client -> Nat] /\ lost \in [Client -> Nat] /\ owed \in [Client -> Int]
  /\ lines \in 0 .. MaxLines

WorkTyped ==
  /\ ticker \in [Client -> Ticker(Len(info))]
  /\ receiver \in [Client -> [Topic -> Receiver(Len(info))]]

CastTyped ==
  /\ info \in Seq(Info)
  /\ entry \in [Topic -> 0 .. Len(info)]
  /\ sender \in [pc : {"idle", "count", "put"}, k : 0 .. Len(info)]

LEMMA Parts == TypeOK <=> HandlerTyped /\ MsgTyped /\ CountsTyped /\ WorkTyped /\ CastTyped
  BY DEF TypeOK, HandlerTyped, MsgTyped, CountsTyped, WorkTyped, CastTyped, Ticker, TickerPc,
         Receiver, ReceiverPc, Info

LEMMA PartsNext ==
  HandlerTyped' /\ MsgTyped' /\ CountsTyped' /\ WorkTyped' /\ CastTyped' => TypeOK'
  BY DEF TypeOK, HandlerTyped, MsgTyped, CountsTyped, WorkTyped, CastTyped, Ticker, TickerPc,
         Receiver, ReceiverPc, Info

LEMMA InitTyped == Init => TypeOK
  <1> SUFFICES ASSUME Init PROVE TypeOK
    OBVIOUS
  <1>1. HandlerTyped /\ MsgTyped /\ CountsTyped
    <2>1. HandlerTyped
      BY DEF Init, HandlerTyped
    <2>2. MsgTyped
      BY Bounds DEF Init, MsgTyped
    <2>3. CountsTyped
      BY Bounds DEF Init, CountsTyped
    <2> QED BY <2>1, <2>2, <2>3
  <1>2. NoTicker \in Ticker(0) /\ NoReceiver \in Receiver(0)
    BY Bounds DEF NoTicker, NoReceiver, Ticker, TickerPc, Receiver, ReceiverPc
  <1>3. info = <<>> /\ Len(info) = 0
    BY DEF Init
  <1>4. WorkTyped
    BY <1>2, <1>3 DEF Init, WorkTyped
  <1>5. CastTyped
    BY <1>3 DEF Init, CastTyped
  <1> QED BY <1>1, <1>4, <1>5, Parts

LEMMA PanicTyped ==
  ASSUME Panic, active \in BOOLEAN
  PROVE  HandlerTyped' /\ MsgTyped' /\ CountsTyped' /\ WorkTyped' /\ CastTyped'
  <1>1. HandlerTyped' /\ MsgTyped' /\ CountsTyped'
    <2>1. HandlerTyped'
      BY DEF Panic, HandlerTyped
    <2>2. MsgTyped'
      BY Bounds DEF Panic, MsgTyped
    <2>3. CountsTyped'
      BY Bounds DEF Panic, CountsTyped
    <2> QED BY <2>1, <2>2, <2>3
  <1>2. NoTicker \in Ticker(0) /\ NoReceiver \in Receiver(0)
    BY Bounds DEF NoTicker, NoReceiver, Ticker, TickerPc, Receiver, ReceiverPc
  <1>3. info' = <<>> /\ Len(info') = 0
    BY DEF Panic
  <1>4. WorkTyped'
    BY <1>2, <1>3 DEF Panic, WorkTyped
  <1>5. CastTyped'
    BY <1>3 DEF Panic, CastTyped
  <1> QED BY <1>1, <1>4, <1>5

(* A channelInfo changes in place, or one is added.                         *)
LEMMA InfoChanged ==
  ASSUME TypeOK, NEW k \in 1 .. Len(info), NEW x \in Info
  PROVE  /\ [info EXCEPT ![k] = x] \in Seq(Info)
         /\ Len([info EXCEPT ![k] = x]) = Len(info)
         /\ info[k] \in Info
  <1>1. info \in Seq(Info)
    BY Parts DEF CastTyped
  <1> QED BY <1>1

LEMMA Recounted ==
  ASSUME TypeOK, NEW k \in 1 .. Len(info), NEW u \in Int
  PROVE  /\ [info EXCEPT ![k].usage = u] \in Seq(Info)
         /\ Len([info EXCEPT ![k].usage = u]) = Len(info)
  <1>1. info \in Seq(Info) /\ info[k] \in Info
    BY Parts DEF CastTyped
  <1> DEFINE x == [info[k] EXCEPT !.usage = u]
  <1>2. x \in Info
    BY <1>1 DEF Info
  <1>3. [info EXCEPT ![k].usage = u] = [info EXCEPT ![k] = x]
    BY <1>1
  <1> HIDE DEF x
  <1> QED BY <1>2, <1>3, InfoChanged

LEMMA Refilled ==
  ASSUME TypeOK, NEW k \in 1 .. Len(info), NEW q \in 0 .. LineCap
  PROVE  /\ [info EXCEPT ![k].queue = q] \in Seq(Info)
         /\ Len([info EXCEPT ![k].queue = q]) = Len(info)
  <1>1. info \in Seq(Info) /\ info[k] \in Info
    BY Parts DEF CastTyped
  <1> DEFINE x == [info[k] EXCEPT !.queue = q]
  <1>2. x \in Info
    BY <1>1 DEF Info
  <1>3. [info EXCEPT ![k].queue = q] = [info EXCEPT ![k] = x]
    BY <1>1
  <1> HIDE DEF x
  <1> QED BY <1>2, <1>3, InfoChanged

-----------------------------------------------------------------------------
(* The types are kept, action by action.                                   *)
LEMMA HandlerActs ==
  ASSUME TypeOK, Fresh, NEW c \in Client,
         Connect(c) \/ Check(c) \/ Store(c) \/ Write(c) \/ Close(c) \/ Leave(c)
  PROVE  TypeOK'
  <1> USE Parts DEF vars, handlerVars, logicVars, castVars, history
  <1>1. HandlerTyped'
    BY DEF HandlerTyped, Connect, Check, Store, Write, Close, Leave
  <1>2. MsgTyped'
    <2>1. CASE Check(c) /\ active
      <3>1. Len(msg[c]) < MsgCap /\ Put(c, Err)
        BY <2>1, Bounds DEF Check, Fresh
      <3> QED BY <3>1, PutTyped, Messages DEF MsgTyped
    <2>2. CASE Write(c)
      <3>1. msg[c] \in Seq(Message) /\ msg[c] # <<>> /\ msg' = [msg EXCEPT ![c] = Tail(msg[c])]
        BY <2>2 DEF Write, MsgTyped
      <3>2. Tail(msg[c]) \in Seq(Message) /\ Len(Tail(msg[c])) <= Len(msg[c])
        BY <3>1
      <3>3. Len(msg[c]) <= MsgCap /\ Len(msg[c]) \in Nat /\ Len(Tail(msg[c])) \in Nat
        BY <3>1, <3>2 DEF MsgTyped
      <3>4. Len(Tail(msg[c])) <= MsgCap
        BY <3>2, <3>3, Bounds
      <3> QED BY <3>1, <3>2, <3>4 DEF MsgTyped
    <2>3. CASE msg' = msg
      BY <2>3 DEF MsgTyped
    <2> QED BY <2>1, <2>2, <2>3 DEF Connect, Check, Store, Close, Leave
  <1>3. CountsTyped'
    <2>1. CASE Write(c)
      <3>1. msg[c] \in Seq(Message) /\ msg[c] # <<>>
        BY <2>1 DEF Write, MsgTyped
      <3>2. Head(msg[c]).n \in Nat
        BY <3>1, Messages
      <3>3. owed' = [owed EXCEPT ![c] = owed[c] - Head(msg[c]).n]
        BY <2>1 DEF Write
      <3>4. owed' \in [Client -> Int]
        BY <3>2, <3>3 DEF CountsTyped
      <3> QED BY <2>1, <3>4 DEF Write, CountsTyped
    <2>2. CASE ~Write(c)
      BY <2>2 DEF CountsTyped, Connect, Check, Store, Close, Leave
    <2> QED BY <2>1, <2>2
  <1>4. WorkTyped'
    <2>1. CASE Store(c)
      <3>1. Len(info) \in Nat
        BY DEF CastTyped
      <3>2. [NoReceiver EXCEPT !.pc = "load"] \in Receiver(Len(info))
        BY <3>1 DEF NoReceiver, Receiver, ReceiverPc
      <3>3. receiver' \in [Client -> [Topic -> Receiver(Len(info))]]
        BY <2>1, <3>2 DEF Store, WorkTyped
      <3>4. ticker' \in [Client -> Ticker(Len(info))]
        BY <2>1 DEF Store, WorkTyped, Ticker, TickerPc
      <3>5. info' = info
        BY <2>1 DEF Store
      <3> QED BY <3>3, <3>4, <3>5 DEF WorkTyped
    <2>2. CASE ~Store(c)
      BY <2>2 DEF WorkTyped, Connect, Check, Write, Close, Leave
    <2> QED BY <2>1, <2>2
  <1>5. CastTyped'
    BY DEF CastTyped, Connect, Check, Store, Write, Close, Leave
  <1> QED BY <1>1, <1>2, <1>3, <1>4, <1>5, PartsNext

LEMMA TickerActs ==
  ASSUME TypeOK, Placed, NEW c \in Client, Beat(c) \/ End(c) \/ TickerEnd(c)
  PROVE  TypeOK'
  <1> DEFINE m == Len(info)
  <1> USE Parts DEF handlerVars, logicVars, castVars, history
  <1>0. /\ m \in Nat /\ ticker[c] \in Ticker(m) /\ dropped[c] \in Nat
        /\ ticker \in [Client -> Ticker(m)] /\ dropped \in [Client -> Nat]
    BY DEF WorkTyped, CastTyped, CountsTyped
  <1>1. CASE Beat(c) \/ End(c) \/ SetCloseFlag(c)
    <2>1. HandlerTyped'
      BY <1>1 DEF HandlerTyped, Beat, End, SetCloseFlag
    <2>2. CountsTyped' /\ MsgTyped' /\ CastTyped'
      <3>1. dropped' \in [Client -> Nat]
        BY <1>0, <1>1 DEF Beat, End, SetCloseFlag
      <3>2. CountsTyped'
        BY <1>1, <3>1 DEF CountsTyped, Beat, End, SetCloseFlag
      <3> QED BY <1>1, <3>2 DEF MsgTyped, CastTyped, Beat, End, SetCloseFlag
    <2>3. \E pc \in TickerPc, n \in Nat :
            ticker' = [ticker EXCEPT ![c].pc = pc, ![c].n = n]
      <3>1. CASE Beat(c)
        BY <1>0, <3>1 DEF Beat, TickerPc
      <3>2. CASE End(c)
        <4>1. ticker' = [ticker EXCEPT ![c].pc = "flag", ![c].n = ticker[c].n]
          BY <1>0, <3>2 DEF End, Ticker
        <4> QED BY <1>0, <4>1 DEF Ticker, TickerPc
      <3>3. CASE SetCloseFlag(c)
        <4>1. ticker' = [ticker EXCEPT ![c].pc = "done", ![c].n = ticker[c].n]
          BY <1>0, <3>3 DEF SetCloseFlag, Ticker
        <4> QED BY <1>0, <4>1 DEF Ticker, TickerPc
      <3> QED BY <1>1, <3>1, <3>2, <3>3
    <2>4. ticker' \in [Client -> Ticker(m)]
      <3>1. PICK pc \in TickerPc, n \in Nat :
              ticker' = [ticker EXCEPT ![c].pc = pc, ![c].n = n]
        BY <2>3
      <3>2. ticker' = [ticker EXCEPT ![c] = [ticker[c] EXCEPT !.pc = pc, !.n = n]]
        BY <1>0, <3>1
      <3>3. [ticker[c] EXCEPT !.pc = pc, !.n = n] \in Ticker(m)
        BY <1>0 DEF Ticker
      <3> QED BY <1>0, <3>2, <3>3
    <2>5. WorkTyped'
      BY <1>1, <2>4 DEF WorkTyped, Beat, End, SetCloseFlag
    <2> QED BY <2>1, <2>2, <2>5, PartsNext
  <1>2. CASE BeatSend(c)
    <2>1. HandlerTyped' /\ CastTyped'
      BY <1>2 DEF HandlerTyped, CastTyped, BeatSend
    <2>2. CountsTyped'
      <3>1. ticker[c].n \in Nat /\ dropped[c] + ticker[c].n \in Nat
        BY <1>0 DEF Ticker
      <3>2. dropped' = dropped \/ dropped' = [dropped EXCEPT ![c] = dropped[c] + ticker[c].n]
        BY <1>2 DEF BeatSend, PutBack
      <3>3. dropped' \in [Client -> Nat]
        BY <1>0, <3>1, <3>2
      <3> QED BY <1>2, <3>3 DEF CountsTyped, BeatSend
    <2>3. MsgTyped'
      <3>1. CASE msg' = msg
        BY <3>1 DEF MsgTyped
      <3>2. CASE Room(c) /\ Put(c, Data(ticker[c].n))
        <4>1. Data(ticker[c].n) \in Message
          BY <1>0, Messages DEF Ticker
        <4> QED BY <3>2, <4>1, PutTyped DEF Room, MsgTyped
      <3> QED BY <1>2, <3>1, <3>2 DEF BeatSend
    <2>4. ticker' \in [Client -> Ticker(m)]
      BY <1>0, <1>2 DEF BeatSend, Ticker, TickerPc
    <2>5. WorkTyped'
      BY <1>2, <2>4 DEF WorkTyped, BeatSend
    <2> QED BY <2>1, <2>2, <2>3, <2>5, PartsNext
  <1>3. CASE SendDone(c)
    <2>1. HandlerTyped' /\ CastTyped' /\ CountsTyped'
      BY <1>3 DEF HandlerTyped, CastTyped, CountsTyped, SendDone
    <2>2. MsgTyped'
      BY <1>3, PutTyped, Messages DEF SendDone, PutDone, Room, MsgTyped
    <2>3. ticker' \in [Client -> Ticker(m)]
      BY <1>0, <1>3 DEF SendDone, Ticker, TickerPc
    <2>4. WorkTyped'
      BY <1>3, <2>3 DEF WorkTyped, SendDone
    <2> QED BY <2>1, <2>2, <2>4, PartsNext
  <1>4. ASSUME ticker[c].pc \in {"load", "leave"}
        PROVE  NextTopic(c) \in Ticker(m) /\ ticker[c].at \in 1 .. Len(Topics)
    <2>1. ticker[c].at \in 1 .. Len(Topics) /\ ticker[c].at + 1 \in 1 .. Len(Topics) + 1
      BY <1>4, Bounds DEF Placed
    <2>2. \A pc \in TickerPc :
            [ticker[c] EXCEPT !.at = ticker[c].at + 1, !.k = 0, !.pc = pc] \in Ticker(m)
      <3>1. 0 \in 0 .. m
        BY <1>0
      <3> QED BY <1>0, <2>1, <3>1 DEF Ticker
    <2>3. (IF ticker[c].at = Len(Topics) THEN "end" ELSE "load") \in TickerPc
      BY DEF TickerPc
    <2> QED BY <2>1, <2>2, <2>3 DEF NextTopic
  <1>5. CASE UnregisterLoad(c)
    <2>1. HandlerTyped' /\ CastTyped' /\ CountsTyped' /\ MsgTyped'
      BY <1>5 DEF HandlerTyped, CastTyped, CountsTyped, MsgTyped, UnregisterLoad
    <2>2. Topics[ticker[c].at] \in Topic /\ NextTopic(c) \in Ticker(m)
      BY <1>4, <1>5, Bounds DEF UnregisterLoad
    <2> DEFINE k == entry[Topics[ticker[c].at]]
    <2>3. k \in 0 .. m
      BY <2>2 DEF CastTyped
    <2> HIDE DEF k
    <2>4. ticker' = [ticker EXCEPT ![c] = NextTopic(c)]
          \/ ticker' = [ticker EXCEPT ![c] = [ticker[c] EXCEPT !.pc = "leave", !.k = k]]
      BY <1>5 DEF UnregisterLoad, k
    <2>5. [ticker[c] EXCEPT !.pc = "leave", !.k = k] \in Ticker(m)
      BY <1>0, <2>3 DEF Ticker, TickerPc
    <2>6. ticker' \in [Client -> Ticker(m)]
      BY <1>0, <2>2, <2>4, <2>5
    <2>7. WorkTyped'
      BY <1>5, <2>6 DEF WorkTyped, UnregisterLoad
    <2> QED BY <2>1, <2>7, PartsNext
  <1>6. CASE Unregister(c) /\ Panic
    BY <1>6, PanicTyped, PartsNext DEF HandlerTyped
  <1>7. CASE Unregister(c) /\ Unregistered(c)
    <2>1. HandlerTyped' /\ CountsTyped' /\ MsgTyped'
      BY <1>7 DEF HandlerTyped, CountsTyped, MsgTyped, Unregistered
    <2>2. Topics[ticker[c].at] \in Topic /\ NextTopic(c) \in Ticker(m)
      BY <1>4, <1>7, Bounds DEF Unregister
    <2> DEFINE k == ticker[c].k
    <2>3. k \in 1 .. m
      BY <1>0, <1>7 DEF Placed, Unregister, Ticker
    <2>4. info[k] \in Info
      BY <2>3 DEF CastTyped
    <2>5. info' \in Seq(Info) /\ Len(info') = m /\ (entry' = entry \/ entry' = [entry EXCEPT ![Topics[ticker[c].at]] = 0])
      <3>1. CASE info' = [info EXCEPT ![k].usage = info[k].usage - 1] /\ entry' = entry
        <4>1. info[k].usage - 1 \in Int
          BY <2>4 DEF Info
        <4> QED BY <2>3, <3>1, <4>1, Recounted
      <3>2. CASE /\ entry' = [entry EXCEPT ![Topics[ticker[c].at]] = 0]
                 /\ \E q \in {0} \cup 0 .. info[k].queue - 1 :
                      info' = [info EXCEPT ![k] = [usage |-> info[k].usage - 1, queue |-> q,
                                                   closed |-> TRUE]]
        <4>1. PICK q \in {0} \cup 0 .. info[k].queue - 1 :
                info' = [info EXCEPT ![k] = [usage |-> info[k].usage - 1, queue |-> q,
                                             closed |-> TRUE]]
          BY <3>2
        <4>2. [usage |-> info[k].usage - 1, queue |-> q, closed |-> TRUE] \in Info
          BY <2>4, Bounds DEF Info
        <4> QED BY <2>3, <3>2, <4>1, <4>2, InfoChanged
      <3> QED BY <1>7, <3>1, <3>2 DEF Unregistered
    <2>6. CastTyped'
      <3>1. entry \in [Topic -> 0 .. m] /\ sender' = sender
            /\ sender \in [pc : {"idle", "count", "put"}, k : 0 .. m]
        BY <1>7 DEF CastTyped, Unregistered
      <3>2. entry' \in [Topic -> 0 .. m]
        BY <1>0, <2>2, <2>5, <3>1, SMTT(30)
      <3> QED BY <2>5, <3>1, <3>2 DEF CastTyped
    <2>7. ticker' \in [Client -> Ticker(m)]
      BY <1>0, <1>7, <2>2 DEF Unregistered
    <2>8. WorkTyped'
      BY <1>7, <2>5, <2>7 DEF WorkTyped, Unregistered
    <2> QED BY <2>1, <2>6, <2>8, PartsNext
  <1> QED BY <1>1, <1>2, <1>3, <1>5, <1>6, <1>7 DEF TickerEnd, Unregister

LEMMA ReceiverActs ==
  ASSUME TypeOK, Placed, NEW c \in Client, NEW t \in Topic, ReceiverStep(c, t)
  PROVE  TypeOK'
  <1> DEFINE m == Len(info)
  <1> USE Parts DEF handlerVars, logicVars, castVars, history, At
  <1>0. /\ m \in Nat /\ receiver[c][t] \in Receiver(m)
        /\ receiver \in [Client -> [Topic -> Receiver(m)]] /\ ticker \in [Client -> Ticker(m)]
        /\ dropped \in [Client -> Nat] /\ owed \in [Client -> Int] /\ lost \in [Client -> Nat]
        /\ info \in Seq(Info) /\ entry \in [Topic -> 0 .. m]
        /\ sender \in [pc : {"idle", "count", "put"}, k : 0 .. m]
    BY DEF WorkTyped, CastTyped, CountsTyped
  <1>1. ASSUME NEW pc \in ReceiverPc, Goto(c, t, pc)
        PROVE  receiver' \in [Client -> [Topic -> Receiver(m)]]
    <2>1. [receiver[c][t] EXCEPT !.pc = pc] \in Receiver(m)
      BY <1>0 DEF Receiver
    <2>2. receiver' = [receiver EXCEPT ![c][t] = [receiver[c][t] EXCEPT !.pc = pc]]
      BY <1>0, <1>1 DEF Goto
    <2> QED BY <1>0, <2>1, <2>2
  <1>2. receiver[c][t].pc \notin {"none", "load"} => receiver[c][t].k \in 1 .. m
    BY <1>0 DEF Placed, Receiver
  <1>3. CASE Register(c, t)
    <2>1. HandlerTyped' /\ MsgTyped' /\ CountsTyped'
      BY <1>3 DEF HandlerTyped, MsgTyped, CountsTyped, Register
    <2> DEFINE n == Len(info')
    <2>2. /\ info' \in Seq(Info) /\ n \in Nat /\ n >= m /\ entry' \in [Topic -> 0 .. n]
      <3>1. CASE UNCHANGED <<info, entry>>
        BY <1>0, <3>1
      <3>2. CASE info' = Append(info, NewInfo) /\ entry' = [entry EXCEPT ![t] = Len(info')]
        <4>1. NewInfo \in Info
          BY Bounds DEF NewInfo, Info
        <4> HIDE DEF NewInfo
        <4>2. info' \in Seq(Info) /\ n = m + 1
          BY <1>0, <3>2, <4>1
        <4>3. 0 .. m \subseteq 0 .. n /\ n \in 0 .. n /\ n \in Nat /\ n >= m
          BY <1>0, <4>2
        <4> QED BY <1>0, <3>2, <4>2, <4>3
      <3> QED BY <1>3, <3>1, <3>2 DEF Register
    <2> HIDE DEF n
    <2>3. 0 .. m \subseteq 0 .. n
      BY <1>0, <2>2
    <2>4. CastTyped'
      <3>1. sender' \in [pc : {"idle", "count", "put"}, k : 0 .. n]
        BY <1>0, <1>3, <2>3 DEF Register
      <3> QED BY <2>2, <3>1 DEF CastTyped, n
    <2>5. WorkTyped'
      <3>1. ticker' \in [Client -> Ticker(n)]
        BY <1>0, <1>3, <2>3 DEF Register, Ticker
      <3>2. [pc |-> "count", k |-> entry'[t]] \in Receiver(n)
        BY <2>2 DEF Receiver, ReceiverPc
      <3>3. receiver \in [Client -> [Topic -> Receiver(n)]]
        <4>1. Receiver(m) \subseteq Receiver(n)
          BY <2>3 DEF Receiver
        <4> QED BY <1>0, <4>1
      <3>4. receiver' \in [Client -> [Topic -> Receiver(n)]]
        BY <1>3, <3>2, <3>3 DEF Register
      <3> QED BY <3>1, <3>4 DEF WorkTyped, n
    <2> QED BY <2>1, <2>4, <2>5, PartsNext
  <1>4. CASE Count(c, t) \/ Take(c, t)
    <2> DEFINE k == receiver[c][t].k
    <2>1. k \in 1 .. m /\ info[k] \in Info
      BY <1>0, <1>2, <1>4 DEF Count, Take
    <2>2. HandlerTyped' /\ MsgTyped'
      BY <1>4 DEF HandlerTyped, MsgTyped, Count, Take
    <2>3. CountsTyped'
      <3>1. lost' = lost \/ lost' = [lost EXCEPT ![c] = lost[c] + 1]
        BY <1>4 DEF Count, Take, Add
      <3>2. lost' \in [Client -> Nat]
        <4>1. lost \in [Client -> Nat] /\ lost[c] + 1 \in Nat
          BY <1>0
        <4> QED BY <3>1, <4>1
      <3> QED BY <1>4, <3>2 DEF Count, Take, CountsTyped
    <2>4. info' \in Seq(Info) /\ Len(info') = m
      <3>1. CASE info' = [info EXCEPT ![k].usage = info[k].usage + 1]
        <4>1. info[k].usage + 1 \in Int
          BY <2>1 DEF Info
        <4> QED BY <2>1, <3>1, <4>1, Recounted
      <3>2. CASE info[k].queue > 0 /\ info' = [info EXCEPT ![k].queue = info[k].queue - 1]
        <4>1. info[k].queue - 1 \in 0 .. LineCap
          <5>1. info[k].queue \in 0 .. LineCap /\ LineCap \in Nat /\ info[k].queue > 0
            BY <2>1, <3>2, Bounds DEF Info
          <5> QED BY <5>1
        <4> QED BY <2>1, <3>2, <4>1, Refilled
      <3>3. CASE info' = info
        BY <1>0, <3>3
      <3> QED BY <1>4, <3>1, <3>2, <3>3 DEF Count, Take
    <2>5. receiver' \in [Client -> [Topic -> Receiver(m)]]
      BY <1>1, <1>4 DEF Count, Take, ReceiverPc
    <2>6. WorkTyped'
      BY <1>0, <1>4, <2>4, <2>5 DEF WorkTyped, Count, Take
    <2>7. CastTyped'
      BY <1>0, <1>4, <2>4 DEF CastTyped, Count, Take
    <2> QED BY <2>2, <2>3, <2>6, <2>7, PartsNext
  <1>5. CASE CheckClosed(c, t) \/ LogLine(c, t) \/ SendLine(c, t)
    <2>1. HandlerTyped' /\ CastTyped'
      BY <1>5 DEF HandlerTyped, CastTyped, CheckClosed, LogLine, SendLine
    <2>2. MsgTyped'
      <3>1. CASE msg' = msg
        BY <3>1 DEF MsgTyped
      <3>2. CASE Room(c) /\ Put(c, Data(1))
        BY <3>2, Messages, PutTyped DEF Room, MsgTyped
      <3> QED BY <1>5, <3>1, <3>2 DEF CheckClosed, LogLine, SendLine
    <2>3. CountsTyped'
      <3>1. /\ dropped' = dropped \/ dropped' = [dropped EXCEPT ![c] = dropped[c] + 1]
            /\ owed' = owed \/ owed' = [owed EXCEPT ![c] = owed[c] + 1]
        BY <1>5 DEF CheckClosed, LogLine, SendLine, Add
      <3>2. dropped' \in [Client -> Nat] /\ owed' \in [Client -> Int]
        BY <1>0, <3>1
      <3>3. lost' = lost /\ lines' = lines
        BY <1>5 DEF CheckClosed, LogLine, SendLine
      <3> QED BY <3>2, <3>3 DEF CountsTyped
    <2>4. receiver' \in [Client -> [Topic -> Receiver(m)]]
      BY <1>1, <1>5 DEF CheckClosed, LogLine, SendLine, Stops, ReceiverPc
    <2>5. WorkTyped'
      BY <1>0, <1>5, <2>4 DEF WorkTyped, CheckClosed, LogLine, SendLine
    <2> QED BY <2>1, <2>2, <2>3, <2>5, PartsNext
  <1>6. CASE SendOnClosed(c, t)
    BY <1>6, PanicTyped, PartsNext DEF HandlerTyped, SendOnClosed
  <1> QED BY <1>3, <1>4, <1>5, <1>6 DEF ReceiverStep

LEMMA SenderActs ==
  ASSUME TypeOK, Placed, SenderStep \/ \E t \in Topic : Send(t)
  PROVE  TypeOK'
  <1> DEFINE m == Len(info)
  <1> USE Parts DEF handlerVars, logicVars, castVars, history
  <1>0. /\ m \in Nat /\ info \in Seq(Info) /\ entry \in [Topic -> 0 .. m]
        /\ sender \in [pc : {"idle", "count", "put"}, k : 0 .. m]
    BY DEF CastTyped
  <1>1. HandlerTyped' /\ MsgTyped'
    BY DEF HandlerTyped, MsgTyped, SenderStep, SendCount, SendPut, Send
  <1>2. CountsTyped'
    <2>1. lines \in 0 .. MaxLines
      BY DEF CountsTyped
    <2>2. lines' = lines \/ (lines < MaxLines /\ lines' = lines + 1)
      <3>1. CASE SenderStep
        BY <3>1 DEF SenderStep, SendCount, SendPut
      <3>2. ASSUME NEW t \in Topic, Send(t) PROVE lines < MaxLines /\ lines' = lines + 1
        BY <3>2 DEF Send
      <3> QED BY <3>1, <3>2
    <2>3. lines' \in 0 .. MaxLines
      BY <2>1, <2>2, Bounds
    <2>4. UNCHANGED <<dropped, owed, lost>>
      BY DEF SenderStep, SendCount, SendPut, Send
    <2> QED BY <2>3, <2>4 DEF CountsTyped
  <1>3. sender.pc # "idle" => sender.k \in 1 .. m /\ info[sender.k] \in Info
    BY <1>0 DEF Placed
  <1>4. info' \in Seq(Info) /\ Len(info') = m
    <2>1. CASE SendCount
      <3>1. sender.k \in 1 .. m /\ info[sender.k].usage + 1 \in Int
        BY <1>3, <2>1 DEF SendCount, Info
      <3>2. info' = [info EXCEPT ![sender.k].usage = info[sender.k].usage + 1]
        BY <2>1 DEF SendCount
      <3> QED BY <3>1, <3>2, Recounted
    <2>2. CASE SendPut /\ info' # info
      <3>1. /\ info[sender.k].queue # LineCap
            /\ info' = [info EXCEPT ![sender.k].queue = info[sender.k].queue + 1]
        BY <2>2 DEF SendPut
      <3>2. sender.k \in 1 .. m /\ info[sender.k] \in Info
        BY <1>3, <2>2 DEF SendPut
      <3>3. info[sender.k].queue + 1 \in 0 .. LineCap
        BY <3>1, <3>2, Bounds DEF Info
      <3> QED BY <3>1, <3>2, <3>3, Refilled
    <2>3. CASE info' = info
      BY <1>0, <2>3
    <2> QED BY <2>1, <2>2, <2>3 DEF SenderStep, Send
  <1>5. sender' \in [pc : {"idle", "count", "put"}, k : 0 .. m]
    BY <1>0 DEF SenderStep, SendCount, SendPut, Send
  <1>6. CastTyped'
    <2>1. entry' = entry
      BY DEF SenderStep, SendCount, SendPut, Send
    <2> QED BY <1>0, <1>4, <1>5, <2>1 DEF CastTyped
  <1>7. WorkTyped'
    <2>1. UNCHANGED <<ticker, receiver>>
      BY DEF SenderStep, SendCount, SendPut, Send
    <2> QED BY <1>4, <2>1 DEF WorkTyped
  <1> QED BY <1>1, <1>2, <1>6, <1>7, PartsNext

LEMMA StepTyped == TypeOK /\ Fresh /\ Placed /\ [Next]_vars => TypeOK'
  <1>1. ASSUME UNCHANGED vars, TypeOK PROVE TypeOK'
    BY <1>1 DEF vars, handlerVars, logicVars, castVars, history, TypeOK
  <1>2. ASSUME Next, TypeOK, Fresh, Placed PROVE TypeOK'
    BY <1>2, HandlerActs, TickerActs, ReceiverActs, SenderActs DEF Next, HandlerStep
  <1> QED BY <1>1, <1>2

-----------------------------------------------------------------------------
(* What an action of one connection does to a connection.                  *)
LEMMA FreshKept ==
  ASSUME TypeOK, Fresh, Next
  PROVE  Fresh'
  <1> USE DEF handlerVars, logicVars, castVars, history
  <1>0. /\ conn \in [Client -> {"none", "check", "store", "range", "close", "closed"}]
        /\ closeFlag \in [Client -> BOOLEAN] /\ msg \in [Client -> Seq(Message)]
        /\ ticker \in [Client -> Ticker(Len(info))]
        /\ receiver \in [Client -> [Topic -> Receiver(Len(info))]]
    BY Parts DEF HandlerTyped, MsgTyped, WorkTyped
  <1> DEFINE Begins == {"none", "check", "store"}
             Bare(c) == /\ msg[c] = <<>> /\ ~closeFlag[c] /\ ticker[c].pc = "none"
                        /\ \A t \in Topic : receiver[c][t].pc = "none"
             Same(c) == /\ msg'[c] = msg[c] /\ closeFlag'[c] = closeFlag[c]
                        /\ ticker'[c] = ticker[c] /\ receiver'[c] = receiver[c]
  <1>1. SUFFICES ASSUME NEW c \in Client, conn'[c] \in Begins PROVE Bare(c)'
    BY DEF Fresh
  <1>2. ~Panic
    BY <1>1 DEF Panic
  <1>3. CASE \E d \in Client : Connect(d) \/ Check(d) \/ Store(d) \/ Write(d) \/ Close(d) \/ Leave(d)
    <2>1. PICK d \in Client : Connect(d) \/ Check(d) \/ Store(d) \/ Write(d) \/ Close(d) \/ Leave(d)
      BY <1>3
    <2>2. conn[c] \in Begins
      BY <1>0, <1>1, <2>1 DEF Connect, Check, Store, Write, Close, Leave
    <2>3. Same(c)
      BY <1>0, <1>1, <2>1, <2>2 DEF Connect, Check, Store, Write, Close, Leave, Put
    <2> QED BY <2>2, <2>3 DEF Fresh
  <1>4. CASE \E d \in Client : Beat(d) \/ End(d) \/ TickerEnd(d)
    <2>1. PICK d \in Client : Beat(d) \/ End(d) \/ TickerEnd(d)
      BY <1>4
    <2>2. conn' = conn /\ ticker[d].pc # "none"
      BY <1>2, <2>1 DEF Beat, End, TickerEnd, BeatSend, SetCloseFlag, SendDone, UnregisterLoad,
                        Unregister, Unregistered
    <2>3. Bare(c) /\ c # d
      BY <1>1, <2>2 DEF Fresh
    <2>4. Same(c)
      BY <1>0, <1>2, <2>1, <2>3
         DEF Beat, End, TickerEnd, BeatSend, SetCloseFlag, SendDone, PutDone, Put, UnregisterLoad,
             Unregister, Unregistered
    <2> QED BY <2>3, <2>4
  <1>5. CASE \E d \in Client, t \in Topic : ReceiverStep(d, t)
    <2>1. PICK d \in Client, t \in Topic : ReceiverStep(d, t)
      BY <1>5
    <2>2. conn' = conn /\ receiver[d][t].pc # "none"
      BY <1>2, <2>1 DEF ReceiverStep, Register, Count, Take, CheckClosed, LogLine, SendLine,
                        SendOnClosed, At
    <2>3. Bare(c) /\ c # d
      BY <1>1, <2>2 DEF Fresh
    <2>4. Same(c)
      BY <1>0, <1>2, <2>1, <2>3
         DEF ReceiverStep, Register, Count, Take, CheckClosed, LogLine, SendLine, SendOnClosed,
             Goto, Put, Stops
    <2> QED BY <2>3, <2>4
  <1>6. CASE SenderStep \/ \E t \in Topic : Send(t)
    <2>1. UNCHANGED <<conn, msg, closeFlag, ticker, receiver>>
      BY <1>6 DEF SenderStep, SendCount, SendPut, Send
    <2> QED BY <1>1, <2>1 DEF Fresh
  <1> QED BY <1>3, <1>4, <1>5, <1>6 DEF Next, HandlerStep

LEMMA PlacedKept ==
  ASSUME TypeOK, Fresh, Placed, Next
  PROVE  Placed'
  <1> USE DEF handlerVars, logicVars, castVars, history
  <1>0. /\ info \in Seq(Info) /\ Len(info) \in Nat /\ entry \in [Topic -> 0 .. Len(info)]
        /\ ticker \in [Client -> Ticker(Len(info))]
        /\ receiver \in [Client -> [Topic -> Receiver(Len(info))]]
        /\ sender \in [pc : {"idle", "count", "put"}, k : 0 .. Len(info)]
    BY Parts DEF WorkTyped, CastTyped
  <1> DEFINE Ticks(x) ==
        /\ x.pc \in {"none", "wait", "beat", "flag", "done"} => x.at = 1
        /\ x.pc \in {"load", "leave"} => x.at \in 1 .. Len(Topics)
        /\ x.pc = "leave" => x.k # 0
             Receives(x) == x.pc \notin {"none", "load"} => x.k # 0
             Sends(x) == x.pc # "idle" => x.k # 0
  <1>1. /\ \A c \in Client : Ticks(ticker[c]) /\ \A t \in Topic : Receives(receiver[c][t])
        /\ Sends(sender)
    BY DEF Placed
  <1>2. SUFFICES /\ \A c \in Client : Ticks(ticker'[c]) /\ \A t \in Topic : Receives(receiver'[c][t])
                 /\ Sends(sender')
    BY DEF Placed
  <1>3. CASE Panic
    BY <1>3 DEF Panic, NoTicker, NoReceiver
  <1>4. CASE \E d \in Client : Connect(d) \/ Check(d) \/ Store(d) \/ Write(d) \/ Close(d) \/ Leave(d)
    <2>1. PICK d \in Client : Connect(d) \/ Check(d) \/ Store(d) \/ Write(d) \/ Close(d) \/ Leave(d)
      BY <1>4
    <2>2. CASE Store(d)
      <3>1. ticker[d].pc = "none" /\ ticker[d].at = 1
        BY <1>1, <2>2 DEF Store, Fresh
      <3>2. \A c \in Client : Ticks(ticker'[c])
        BY <1>0, <1>1, <2>2, <3>1 DEF Store, Ticker
      <3>3. \A c \in Client : \A t \in Topic : Receives(receiver'[c][t])
        BY <1>0, <1>1, <2>2 DEF Store, NoReceiver
      <3> QED BY <1>1, <2>2, <3>2, <3>3 DEF Store
    <2>3. CASE UNCHANGED <<ticker, receiver, sender>>
      BY <1>1, <2>3
    <2> QED BY <2>1, <2>2, <2>3 DEF Connect, Check, Write, Close, Leave
  <1>5. CASE ~Panic /\ \E d \in Client : Beat(d) \/ End(d) \/ TickerEnd(d)
    <2>1. PICK d \in Client : Beat(d) \/ End(d) \/ TickerEnd(d)
      BY <1>5
    <2>2. UNCHANGED <<receiver, sender>>
      BY <1>5, <2>1 DEF Beat, End, TickerEnd, BeatSend, SetCloseFlag, SendDone, UnregisterLoad,
                        Unregister, Unregistered
    <2>3. \E x : Ticks(x) /\ ticker' = [ticker EXCEPT ![d] = x]
      <3>1. ticker[d] \in Ticker(Len(info)) /\ Ticks(ticker[d])
        BY <1>0, <1>1
      <3>2. CASE Beat(d) \/ End(d) \/ SetCloseFlag(d) \/ BeatSend(d)
        <4>1. ticker[d].at = 1
          BY <1>1, <3>2 DEF Beat, End, SetCloseFlag, BeatSend
        <4>2. \E pc \in {"wait", "beat", "flag", "done"}, n \in Nat :
                ticker' = [ticker EXCEPT ![d] = [ticker[d] EXCEPT !.pc = pc, !.n = n]]
          <5>1. dropped[d] \in Nat
            BY Parts DEF CountsTyped
          <5>2. CASE Beat(d)
            BY <1>0, <5>1, <5>2 DEF Beat
          <5>3. CASE BeatSend(d)
            BY <1>0, <5>3 DEF BeatSend
          <5>4. CASE End(d)
            <6>1. ticker' = [ticker EXCEPT ![d] = [ticker[d] EXCEPT !.pc = "flag", !.n = ticker[d].n]]
              BY <1>0, <3>1, <5>4 DEF End, Ticker
            <6> QED BY <3>1, <6>1 DEF Ticker
          <5>5. CASE SetCloseFlag(d)
            <6>1. ticker' = [ticker EXCEPT ![d] = [ticker[d] EXCEPT !.pc = "done", !.n = ticker[d].n]]
              BY <1>0, <3>1, <5>5 DEF SetCloseFlag, Ticker
            <6> QED BY <3>1, <6>1 DEF Ticker
          <5> QED BY <3>2, <5>2, <5>3, <5>4, <5>5
        <4>3. PICK pc \in {"wait", "beat", "flag", "done"}, n \in Nat :
                ticker' = [ticker EXCEPT ![d] = [ticker[d] EXCEPT !.pc = pc, !.n = n]]
          BY <4>2
        <4>4. Ticks([ticker[d] EXCEPT !.pc = pc, !.n = n])
          BY <3>1, <4>1 DEF Ticker
        <4> QED BY <4>3, <4>4
      <3>3. CASE SendDone(d)
        <4>1. ticker' = [ticker EXCEPT ![d] = [ticker[d] EXCEPT !.pc = "load"]]
          BY <3>3 DEF SendDone
        <4>2. Ticks([ticker[d] EXCEPT !.pc = "load"])
          <5>1. ticker[d].at = 1 /\ 1 \in 1 .. Len(Topics)
            BY <3>1, <3>3, Bounds DEF SendDone
          <5> QED BY <3>1, <5>1 DEF Ticker
        <4> QED BY <4>1, <4>2
      <3>4. CASE UnregisterLoad(d) \/ (Unregistered(d) /\ ticker[d].pc = "leave")
        <4>1. ticker[d].at \in 1 .. Len(Topics)
          BY <3>1, <3>4 DEF UnregisterLoad
        <4>2. Ticks(NextTopic(d))
          <5>1. ticker[d].at # Len(Topics) => ticker[d].at + 1 \in 1 .. Len(Topics)
            BY <4>1, Bounds
          <5>2. /\ NextTopic(d).pc = IF ticker[d].at = Len(Topics) THEN "end" ELSE "load"
                /\ NextTopic(d).at = ticker[d].at + 1
            BY <3>1 DEF NextTopic, Ticker
          <5> QED BY <5>1, <5>2
        <4>3. \/ ticker' = [ticker EXCEPT ![d] = NextTopic(d)]
              \/ LET k == entry[Topics[ticker[d].at]] IN
                 k # 0 /\ ticker' = [ticker EXCEPT ![d] = [ticker[d] EXCEPT !.pc = "leave", !.k = k]]
          BY <3>4 DEF UnregisterLoad, Unregistered
        <4>4. \A k : k # 0 => Ticks([ticker[d] EXCEPT !.pc = "leave", !.k = k])
          BY <3>1, <4>1 DEF Ticker
        <4> QED BY <4>2, <4>3, <4>4
      <3>5. Unregister(d) => Unregistered(d) /\ ticker[d].pc = "leave"
        BY <1>5 DEF Unregister
      <3> QED BY <2>1, <3>2, <3>3, <3>4, <3>5 DEF TickerEnd
    <2>4. \A c \in Client : Ticks(ticker'[c])
      BY <1>0, <1>1, <2>3
    <2> QED BY <1>1, <2>2, <2>4
  <1>6. CASE ~Panic /\ \E d \in Client, t \in Topic : ReceiverStep(d, t)
    <2>1. PICK d \in Client, t \in Topic : ReceiverStep(d, t)
      BY <1>6
    <2>2. UNCHANGED <<ticker, sender>>
      <3>1. ~SendOnClosed(d, t)
        BY <1>6 DEF SendOnClosed
      <3> QED BY <2>1, <3>1
              DEF ReceiverStep, Register, Count, Take, CheckClosed, LogLine, SendLine
    <2>3. \E x : Receives(x) /\ receiver' = [receiver EXCEPT ![d][t] = x]
      <3>1. receiver[d][t] \in Receiver(Len(info)) /\ Receives(receiver[d][t])
        BY <1>0, <1>1
      <3>2. CASE Register(d, t)
        <4>1. entry'[t] # 0
          <5>1. Len(Append(info, NewInfo)) # 0
            BY <1>0
          <5> QED BY <1>0, <3>2, <5>1 DEF Register
        <4> QED BY <3>2, <4>1 DEF Register
      <3>3. ASSUME NEW pc \in ReceiverPc, Goto(d, t, pc), receiver[d][t].pc \notin {"none", "load"}
            PROVE  Receives([receiver[d][t] EXCEPT !.pc = pc])
                   /\ receiver' = [receiver EXCEPT ![d][t] = [receiver[d][t] EXCEPT !.pc = pc]]
        BY <1>0, <3>1, <3>3 DEF Receiver, Goto
      <3>4. CASE ~Register(d, t)
        <4>1. \E pc \in ReceiverPc : Goto(d, t, pc) /\ receiver[d][t].pc \notin {"none", "load"}
          BY <1>6, <2>1, <3>4 DEF ReceiverStep, Count, Take, CheckClosed, LogLine, SendLine,
             SendOnClosed, At, Stops, ReceiverPc
        <4> QED BY <3>3, <4>1
      <3> QED BY <3>2, <3>4
    <2>4. \A c \in Client, u \in Topic : Receives(receiver'[c][u])
      BY <1>0, <1>1, <2>3
    <2> QED BY <1>1, <2>2, <2>4
  <1>7. CASE SenderStep \/ \E t \in Topic : Send(t)
    <2>1. UNCHANGED <<ticker, receiver>>
      BY <1>7 DEF SenderStep, SendCount, SendPut, Send
    <2>2. Sends(sender')
      BY <1>0, <1>1, <1>7 DEF SenderStep, SendCount, SendPut, Send
    <2> QED BY <1>1, <2>1, <2>2
  <1> QED BY <1>3, <1>4, <1>5, <1>6, <1>7 DEF Next, HandlerStep

-----------------------------------------------------------------------------
(* Lines taken after the flag.  A receiver that took one and has seen the   *)
(* flag does not come back.                                                *)
LEMMA StoppingFinite ==
  ASSUME NEW c
  PROVE  /\ IsFiniteSet(Stopping(c)) /\ Cardinality(Stopping(c)) \in Nat
         /\ Cardinality(Stopping(c)) <= Cardinality(Topic) /\ Cardinality(Topic) \in Nat
  <1>1. Stopping(c) \in SUBSET Topic
    BY DEF Stopping
  <1> QED BY <1>1, TopicsFinite, FS_Subset, FS_CardinalityType

(* A step leaves a connection's count as it is and stops no fewer of its    *)
(* receivers, or takes one line and stops one more, or ends the process.    *)
LEMMA StopsOrTakes ==
  ASSUME TypeOK, Fresh, Next, ~Panic, NEW c \in Client, closeFlag[c]
  PROVE  \/ lost'[c] = lost[c] /\ \A t \in Topic : t \in Stopping(c) => t \in Stopping(c)'
         \/ /\ lost'[c] = lost[c] + 1
            /\ \E t \in Topic : t \notin Stopping(c) /\ Stopping(c)' = Stopping(c) \cup {t}
  <1> USE DEF handlerVars, logicVars, castVars, history, Stopping
  <1>0. receiver \in [Client -> [Topic -> Receiver(Len(info))]] /\ lost \in [Client -> Nat]
    BY Parts DEF WorkTyped, CountsTyped
  <1>1. CASE \E d \in Client : Store(d)
    <2>1. PICK d \in Client : Store(d)
      BY <1>1
    <2>2. c # d
      BY <2>1 DEF Store, Fresh
    <2> QED BY <1>0, <2>1, <2>2 DEF Store
  <1>2. CASE \E d \in Client, t \in Topic : ReceiverStep(d, t)
    <2>1. PICK d \in Client, t \in Topic : ReceiverStep(d, t)
      BY <1>2
    <2>2. CASE Register(d, t) \/ Count(d, t) \/ LogLine(d, t) \/ SendLine(d, t)
      <3>1. t \notin Stopping(d)
        BY <2>2 DEF Register, Count, LogLine, SendLine, At
      <3>2. lost' = lost /\ \E x : receiver' = [receiver EXCEPT ![d][t] = x]
        BY <1>0, <2>2 DEF Register, Count, LogLine, SendLine, Goto
      <3> QED BY <1>0, <3>1, <3>2
    <2>3. CASE CheckClosed(d, t)
      <3>1. lost' = lost
        BY <2>3 DEF CheckClosed
      <3>2. CASE c = d
        <4>1. receiver' = [receiver EXCEPT ![c][t].pc = "end"]
          BY <2>3, <3>2 DEF CheckClosed, Stops, Goto
        <4>2. \A u \in Topic : receiver'[c][u].pc = IF u = t THEN "end" ELSE receiver[c][u].pc
          BY <1>0, <4>1 DEF Receiver
        <4> QED BY <3>1, <4>2
      <3>3. CASE c # d
        <4>1. receiver'[c] = receiver[c]
          BY <1>0, <2>3, <3>3 DEF CheckClosed, Stops, Goto
        <4> QED BY <3>1, <4>1
      <3> QED BY <3>2, <3>3
    <2>4. CASE Take(d, t) /\ c # d
      <3>1. lost'[c] = lost[c] /\ receiver'[c] = receiver[c]
        BY <1>0, <2>4 DEF Take, Goto, Add
      <3> QED BY <3>1
    <2>5. CASE Take(d, t) /\ c = d
      <3>1. \/ lost' = [lost EXCEPT ![c] = @ + 1] /\ Goto(c, t, "check")
            \/ lost' = lost /\ Goto(c, t, "end")
        BY <2>5 DEF Take, Add
      <3>2. receiver[c][t].pc = "range"
        BY <2>5 DEF Take, At
      <3>3. CASE lost' = [lost EXCEPT ![c] = @ + 1] /\ Goto(c, t, "check")
        <4>1. \A u \in Topic : receiver'[c][u].pc = IF u = t THEN "check" ELSE receiver[c][u].pc
          BY <1>0, <3>3 DEF Goto, Receiver
        <4>2. t \notin Stopping(c) /\ Stopping(c)' = Stopping(c) \cup {t}
          BY <3>2, <4>1
        <4>3. lost'[c] = lost[c] + 1
          BY <1>0, <3>3
        <4> QED BY <4>2, <4>3
      <3>4. CASE lost' = lost /\ Goto(c, t, "end")
        <4>1. \A u \in Topic : receiver'[c][u].pc = IF u = t THEN "end" ELSE receiver[c][u].pc
          BY <1>0, <3>4 DEF Goto, Receiver
        <4> QED BY <3>4, <4>1
      <3> QED BY <3>1, <3>3, <3>4
    <2> QED BY <2>1, <2>2, <2>3, <2>4, <2>5 DEF ReceiverStep, SendOnClosed
  <1>3. CASE UNCHANGED <<lost, receiver>>
    BY <1>3
  <1>4. \/ \E d \in Client : Store(d)
        \/ \E d \in Client, t \in Topic : ReceiverStep(d, t)
        \/ UNCHANGED <<lost, receiver>>
    BY ZenonT(60)
    DEF Next, HandlerStep, Connect, Check, Write, Close, Leave, Beat, End, TickerEnd, BeatSend,
           SetCloseFlag, SendDone, UnregisterLoad, Unregister, Unregistered, Send, SenderStep,
           SendCount, SendPut
  <1> QED BY <1>1, <1>2, <1>3, <1>4

(* Before the flag is set nothing is counted.                              *)
LEMMA CountsWhenFlagged ==
  ASSUME TypeOK, Next, ~Panic, NEW c \in Client, ~closeFlag[c]
  PROVE  lost'[c] = lost[c]
  <1> USE DEF handlerVars, logicVars, castVars, history
  <1>0. lost \in [Client -> Nat]
    BY Parts DEF CountsTyped
  <1>1. CASE \E d \in Client, t \in Topic : Take(d, t)
    <2>1. PICK d \in Client, t \in Topic : Take(d, t)
      BY <1>1
    <2> QED BY <1>0, <2>1 DEF Take, Add
  <1>2. (\E d \in Client, t \in Topic : Take(d, t)) \/ lost' = lost
    <2>1. CASE \E d \in Client, t \in Topic : ReceiverStep(d, t)
      BY <2>1 DEF ReceiverStep, Register, Count, CheckClosed, LogLine, SendLine, SendOnClosed
    <2>2. CASE ~\E d \in Client, t \in Topic : ReceiverStep(d, t)
      BY <2>2 DEF Next, HandlerStep, Connect, Check, Store, Write, Close, Leave, Beat, End,
         TickerEnd, BeatSend, SetCloseFlag, SendDone, UnregisterLoad, Unregister, Unregistered,
         Send, SenderStep, SendCount, SendPut
    <2> QED BY <2>1, <2>2
  <1> QED BY <1>1, <1>2

LEMMA FlagStays ==
  ASSUME TypeOK, Next, ~Panic, NEW c \in Client, closeFlag[c]
  PROVE  closeFlag'[c]
  <1> USE DEF handlerVars, logicVars, castVars, history
  <1>0. closeFlag \in [Client -> BOOLEAN]
    BY Parts DEF HandlerTyped
  <1>1. CASE \E d \in Client : SetCloseFlag(d)
    BY <1>0, <1>1 DEF SetCloseFlag
  <1>2. (\E d \in Client : SetCloseFlag(d)) \/ closeFlag' = closeFlag
    <2>1. CASE \E d \in Client, t \in Topic : ReceiverStep(d, t)
      BY <2>1, ZenonT(60) DEF ReceiverStep, Register, Count, Take, CheckClosed, LogLine,
                              SendLine, SendOnClosed
    <2>2. CASE ~\E d \in Client, t \in Topic : ReceiverStep(d, t)
      BY <2>2 DEF Next, HandlerStep, Connect, Check, Store, Write, Close, Leave, Beat, End,
         TickerEnd, BeatSend, SendDone, UnregisterLoad, Unregister, Unregistered, Send,
         SenderStep, SendCount, SendPut
    <2> QED BY <2>1, <2>2
  <1> QED BY <1>1, <1>2

LEMMA FewTakenKept ==
  ASSUME TypeOK, TypeOK', Fresh, FewTaken, Next
  PROVE  FewTaken'
  <1>1. SUFFICES ASSUME NEW c \in Client
                 PROVE  /\ ~closeFlag'[c] => lost'[c] = 0
                        /\ lost'[c] <= Cardinality(Stopping(c)')
    <2>1. \A c \in Client : Cardinality(Stopping(c)') = Cardinality(Stopping(c))'
      OBVIOUS
    <2> QED BY <2>1 DEF FewTaken
  <1> DEFINE S == Stopping(c)
             T == Stopping(c)'
  <1>2. /\ IsFiniteSet(S) /\ Cardinality(S) \in Nat
        /\ IsFiniteSet(T) /\ Cardinality(T) \in Nat
    <2>1. T \in SUBSET Topic
      BY DEF Stopping
    <2> QED BY <2>1, StoppingFinite, TopicsFinite, FS_Subset, FS_CardinalityType
  <1>3. lost[c] \in Nat /\ lost[c] <= Cardinality(S)
    BY Parts DEF CountsTyped, FewTaken
  <1>4. CASE Panic
    <2>1. lost'[c] = 0
      BY <1>4 DEF Panic
    <2> QED BY <1>2, <2>1
  <1>5. CASE ~Panic /\ ~closeFlag[c]
    <2>1. lost'[c] = 0
      BY <1>5, CountsWhenFlagged DEF FewTaken
    <2> QED BY <1>2, <2>1
  <1>6. CASE ~Panic /\ closeFlag[c]
    <2>1. closeFlag'[c]
      BY <1>6, FlagStays
    <2>2. lost'[c] <= Cardinality(T)
      <3>1. CASE lost'[c] = lost[c] /\ \A t \in Topic : t \in S => t \in T
        <4>1. S \in SUBSET T
          BY <3>1 DEF Stopping
        <4>2. Cardinality(S) <= Cardinality(T)
          <5> HIDE DEF S, T
          <5> QED BY <1>2, <4>1, FS_Subset
        <4> HIDE DEF S, T
        <4> QED BY <1>2, <1>3, <3>1, <4>2
      <3>2. CASE lost'[c] = lost[c] + 1 /\ \E t \in Topic : t \notin S /\ T = S \cup {t}
        <4>1. PICK t \in Topic : t \notin S /\ T = S \cup {t}
          BY <3>2
        <4>2. Cardinality(T) = Cardinality(S) + 1
          <5> HIDE DEF S, T
          <5>1. Cardinality(S \cup {t}) = Cardinality(S) + 1
            BY <1>2, <4>1, FS_AddElement
          <5> QED BY <4>1, <5>1
        <4> HIDE DEF S, T
        <4> QED BY <1>2, <1>3, <3>2, <4>2
      <3> QED BY <1>6, <3>1, <3>2, StopsOrTakes
    <2> QED BY <2>1, <2>2
  <1> QED BY <1>4, <1>5, <1>6

-----------------------------------------------------------------------------
(* The invariant.                                                          *)
LEMMA InitInv == Init => Inv
  <1> SUFFICES ASSUME Init PROVE Inv
    OBVIOUS
  <1>1. Fresh /\ Placed
    BY DEF Init, Fresh, Placed, NoTicker, NoReceiver
  <1>2. FewTaken
    BY StoppingFinite DEF Init, FewTaken
  <1> QED BY <1>1, <1>2, InitTyped DEF Inv

LEMMA StepInv == Inv /\ [Next]_vars => Inv'
  <1>1. ASSUME Inv, Next PROVE Inv'
    <2>1. TypeOK'
      BY <1>1, StepTyped DEF Inv
    <2> QED BY <1>1, <2>1, FreshKept, PlacedKept, FewTakenKept DEF Inv
  <1>2. ASSUME Inv, UNCHANGED vars PROVE Inv'
    <2>1. TypeOK'
      BY <1>2, StepTyped DEF Inv
    <2>2. (Fresh /\ Placed /\ FewTaken)'
      BY <1>2 DEF Inv, Fresh, Placed, FewTaken, Stopping, vars, handlerVars, logicVars, castVars,
                  history
    <2> QED BY <2>1, <2>2 DEF Inv
  <1> QED BY <1>1, <1>2

LEMMA Invariant == Spec => []Inv
  BY InitInv, StepInv, PTL DEF Spec

(* The types of the handler's, the logic's and the manager's state.        *)
THEOREM LogsTypeOK == Spec => []TypeOK
  BY Invariant, PTL DEF Inv

(* A connection that has ended takes one line per topic at the most from    *)
(* those that view after it, whatever is logged.                           *)
THEOREM LogsStaleTakesFew == Spec => []StaleTakesFew
  <1>1. Inv => StaleTakesFew
    <2> SUFFICES ASSUME Inv, NEW c \in Client PROVE lost[c] <= Len(Topics)
      BY DEF StaleTakesFew
    <2>1. lost[c] \in Nat /\ lost[c] <= Cardinality(Stopping(c))
      BY Parts DEF Inv, CountsTyped, FewTaken
    <2> QED BY <2>1, StoppingFinite, TopicsFinite, Bounds
  <1> QED BY <1>1, Invariant, PTL

-----------------------------------------------------------------------------
(* How many lines the messages of a channel stand for.                      *)
LEMMA ToldNothing == IsFiniteSet(Told(<<>>)) /\ Cardinality(Told(<<>>)) = 0
  <1>1. Told(<<>>) = {}
    BY DEF Told
  <1> QED BY <1>1, FS_EmptySet

(* The part of a message: as many pairs as it counts.                      *)
LEMMA PartCounted ==
  ASSUME NEW k \in Nat, NEW n \in Nat
  PROVE  IsFiniteSet({k} \X (1 .. n)) /\ Cardinality({k} \X (1 .. n)) = n
  <1>1. IsFiniteSet({k}) /\ Cardinality({k}) = 1
    BY FS_Singleton
  <1>2. IsFiniteSet(1 .. n) /\ Cardinality(1 .. n) = n
    <2>1. \A m \in Nat : IsFiniteSet(1 .. m) /\ Cardinality(1 .. m) = m
      BY FS_Interval
    <2> QED BY <2>1
  <1> DEFINE S == {k}
             T == 1 .. n
  <1>3. IsFiniteSet(S) /\ Cardinality(S) = 1 /\ IsFiniteSet(T) /\ Cardinality(T) = n
    BY <1>1, <1>2
  <1>4. IsFiniteSet(S \X T) /\ Cardinality(S \X T) = 1 * n
    <2> HIDE DEF S, T
    <2> QED BY <1>3, FS_Product
  <1> QED BY <1>4

LEMMA DisjointCounted ==
  ASSUME NEW S, NEW T, IsFiniteSet(S), IsFiniteSet(T), S \cap T = {}
  PROVE  IsFiniteSet(S \cup T) /\ Cardinality(S \cup T) = Cardinality(S) + Cardinality(T)
  <1>1. Cardinality(S) \in Nat /\ Cardinality(T) \in Nat /\ Cardinality({}) = 0
    BY FS_CardinalityType, FS_EmptySet
  <1>2. /\ IsFiniteSet(S \cup T)
        /\ Cardinality(S \cup T) = Cardinality(S) + Cardinality(T) - Cardinality(S \cap T)
    BY FS_Union
  <1>3. Cardinality(S \cap T) = 0
    BY <1>1
  <1> QED BY <1>1, <1>2, <1>3

LEMMA ToldMore ==
  ASSUME NEW q \in Seq(Message), NEW m \in Message, IsFiniteSet(Told(q))
  PROVE  /\ IsFiniteSet(Told(Append(q, m)))
         /\ Cardinality(Told(Append(q, m))) = Cardinality(Told(q)) + m.n
  <1> DEFINE k == Len(q) + 1
             S == Told(q)
             T == {k} \X (1 .. m.n)
  <1>1. m.n \in Nat /\ k \in Nat
    BY Messages
  <1>2. Told(Append(q, m)) = S \cup T
    <2>1. DOMAIN q = 1 .. Len(q) /\ DOMAIN Append(q, m) = 1 .. k
      OBVIOUS
    <2>2. \A i \in 1 .. k : Append(q, m)[i] = IF i = k THEN m ELSE q[i]
      OBVIOUS
    <2>3. 1 .. k = (1 .. Len(q)) \cup {k} /\ k \notin 1 .. Len(q)
      BY <1>1
    <2> HIDE DEF k
    <2> QED BY <2>1, <2>2, <2>3 DEF Told
  <1>3. S \cap T = {}
    <2>1. \A x \in S : x[1] \in 1 .. Len(q)
      BY DEF Told
    <2>2. \A x \in T : x[1] = k
      OBVIOUS
    <2> QED BY <2>1, <2>2
  <1>4. IsFiniteSet(S) /\ IsFiniteSet(T) /\ Cardinality(T) = m.n
    BY <1>1, PartCounted
  <1>5. IsFiniteSet(S \cup T) /\ Cardinality(S \cup T) = Cardinality(S) + Cardinality(T)
    <2> HIDE DEF S, T
    <2> QED BY <1>3, <1>4, DisjointCounted
  <1> QED BY <1>2, <1>4, <1>5

(* Without its first message a channel has that message's part less; the    *)
(* rest moves up by one.                                                   *)
LEMMA ToldLess ==
  ASSUME NEW q \in Seq(Message), q # <<>>, IsFiniteSet(Told(q))
  PROVE  /\ IsFiniteSet(Told(Tail(q)))
         /\ Cardinality(Told(q)) = Cardinality(Told(Tail(q))) + Head(q).n
  <1> DEFINE S == {x \in Told(q) : x[1] > 1}
             T == {1} \X (1 .. Head(q).n)
             R == Told(Tail(q))
             f == [x \in S |-> <<x[1] - 1, x[2]>>]
  <1>1. Head(q) \in Message /\ Head(q).n \in Nat /\ Head(q) = q[1] /\ Len(q) \in Nat /\ Len(q) >= 1
    BY Messages
  <1>2. \A x : x \in Told(q) <=> \E i, j \in Nat : i \in 1 .. Len(q) /\ j \in 1 .. q[i].n /\ x = <<i, j>>
    BY DEF Told
  <1>3. /\ DOMAIN Tail(q) = 1 .. Len(q) - 1
        /\ \A i \in 1 .. Len(q) - 1 : Tail(q)[i] = q[i + 1]
    BY <1>1
  <1>4. \A x : x \in R <=> \E i, j \in Nat : i \in 1 .. Len(q) - 1 /\ j \in 1 .. q[i + 1].n /\ x = <<i, j>>
    BY <1>3 DEF Told
  <1>5. Told(q) = S \cup T /\ S \cap T = {}
    <2>1. \A x \in T : x[1] = 1 /\ x \in Told(q)
      BY <1>1, <1>2
    <2>2. \A x \in Told(q) : x \in S \/ x \in T
      BY <1>1, <1>2
    <2> QED BY <2>1, <2>2
  <1>6. f \in Bijection(S, R)
    <2>1. \A x \in S : f[x] \in R
      <3> TAKE x \in S
      <3>1. PICK i, j \in Nat : i \in 1 .. Len(q) /\ j \in 1 .. q[i].n /\ x = <<i, j>>
        BY <1>2
      <3>2. i > 1 /\ f[x] = <<i - 1, j>> /\ i - 1 \in 1 .. Len(q) - 1 /\ (i - 1) + 1 = i
        BY <1>1, <3>1
      <3> QED BY <1>4, <3>1, <3>2
    <2>2. \A x, y \in S : f[x] = f[y] => x = y
      <3> SUFFICES ASSUME NEW x \in S, NEW y \in S, f[x] = f[y] PROVE x = y
        OBVIOUS
      <3>1. PICK i, j \in Nat : i \in 1 .. Len(q) /\ j \in 1 .. q[i].n /\ x = <<i, j>>
        BY <1>2
      <3>2. PICK k, l \in Nat : k \in 1 .. Len(q) /\ l \in 1 .. q[k].n /\ y = <<k, l>>
        BY <1>2
      <3>3. <<i - 1, j>> = <<k - 1, l>>
        BY <3>1, <3>2
      <3> QED BY <1>1, <3>1, <3>2, <3>3
    <2>3. \A y \in R : \E x \in S : f[x] = y
      <3> TAKE y \in R
      <3>1. PICK i, j \in Nat : i \in 1 .. Len(q) - 1 /\ j \in 1 .. q[i + 1].n /\ y = <<i, j>>
        BY <1>4
      <3> DEFINE x == <<i + 1, j>>
      <3>2. i + 1 \in 1 .. Len(q) /\ i + 1 > 1 /\ (i + 1) - 1 = i
        BY <1>1, <3>1
      <3>3. x \in S /\ f[x] = y
        BY <1>2, <3>1, <3>2
      <3> QED BY <3>3
    <2>4. f \in [S -> R]
      BY <2>1
    <2> HIDE DEF f, S, R
    <2> QED BY <2>2, <2>3, <2>4 DEF Bijection, Injection, Surjection, IsInjective
  <1>7. IsFiniteSet(S) /\ IsFiniteSet(R) /\ Cardinality(R) = Cardinality(S)
    <2>1. S \in SUBSET Told(q)
      OBVIOUS
    <2> HIDE DEF f, S, R
    <2>2. IsFiniteSet(S)
      BY <2>1, FS_Subset
    <2>3. ExistsBijection(S, R)
      BY <1>6 DEF ExistsBijection
    <2> QED BY <2>2, <2>3, FS_Bijection
  <1>8. IsFiniteSet(T) /\ Cardinality(T) = Head(q).n
    BY <1>1, PartCounted
  <1>9. Cardinality(S \cup T) = Cardinality(S) + Cardinality(T)
    <2> HIDE DEF S, T
    <2> QED BY <1>5, <1>7, <1>8, DisjointCounted
  <1> QED BY <1>5, <1>7, <1>8, <1>9

-----------------------------------------------------------------------------
(* What Accounted needs to be inductive: counts that a heartbeat has taken  *)
(* are with the heartbeat, and only finitely many lines are under way.     *)
Hand(c) == {t \in Topic : At(c, t, "put")}
Balanced(c) ==
  /\ IsFiniteSet(Told(msg[c]))
  /\ ticker[c].pc # "beat" => ticker[c].n = 0
  /\ owed[c] = Underway(c) + InHand(c) + ticker[c].n + dropped[c]

LEMMA Amounts ==
  ASSUME TypeOK, NEW c \in Client, IsFiniteSet(Told(msg[c]))
  PROVE  /\ Underway(c) \in Nat /\ ticker[c].n \in Nat /\ dropped[c] \in Nat /\ owed[c] \in Int
         /\ InHand(c) \in Nat /\ IsFiniteSet(Hand(c)) /\ InHand(c) = Cardinality(Hand(c))
  <1>1. ticker[c].n \in Nat /\ dropped[c] \in Nat /\ owed[c] \in Int
    BY Parts DEF WorkTyped, CountsTyped, Ticker
  <1>2. Underway(c) \in Nat
    <2>1. \A S : IsFiniteSet(S) => Cardinality(S) \in Nat
      BY FS_CardinalityType
    <2> QED BY <2>1 DEF Underway
  <1>3. IsFiniteSet(Hand(c))
    <2>1. Hand(c) \in SUBSET Topic
      BY DEF Hand
    <2> QED BY <2>1, TopicsFinite, FS_Subset
  <1>4. InHand(c) = Cardinality(Hand(c)) /\ InHand(c) \in Nat
    BY <1>3, FS_CardinalityType DEF Hand, InHand
  <1> QED BY <1>1, <1>2, <1>3, <1>4

(* A step that leaves the connection's messages, lines in hand and counts. *)
LEMMA BalanceFrame ==
  ASSUME NEW c \in Client, Balanced(c),
         msg'[c] = msg[c], owed'[c] = owed[c], dropped'[c] = dropped[c], Hand(c)' = Hand(c),
         ticker'[c].n = ticker[c].n, ticker'[c].pc # "beat" => ticker[c].pc # "beat"
  PROVE  Balanced(c)'
  <1>1. InHand(c) = Cardinality(Hand(c)) /\ InHand(c)' = Cardinality(Hand(c)')
    BY DEF Hand, InHand
  <1>2. Underway(c)' = Underway(c) /\ InHand(c)' = InHand(c)
    BY <1>1 DEF Underway
  <1> QED BY <1>2 DEF Balanced

(* A message is sent on the channel.                                       *)
LEMMA BalancePut ==
  ASSUME TypeOK, NEW c \in Client, NEW m \in Message, Balanced(c), Put(c, m)
  PROVE  IsFiniteSet(Told(msg'[c])) /\ Underway(c)' = Underway(c) + m.n
  <1>1. msg \in [Client -> Seq(Message)]
    BY DEF TypeOK
  <1>2. msg'[c] = Append(msg[c], m) /\ msg[c] \in Seq(Message)
    BY <1>1 DEF Put
  <1>3. IsFiniteSet(Told(msg[c]))
    BY DEF Balanced
  <1> QED BY <1>2, <1>3, ToldMore DEF Underway

(* A receiver takes a line in hand, or gives it away.                      *)
LEMMA BalanceHand ==
  ASSUME TypeOK, NEW c \in Client, NEW t \in Topic, IsFiniteSet(Told(msg[c]))
  PROVE  /\ t \notin Hand(c) /\ Hand(c)' = Hand(c) \cup {t} => InHand(c)' = InHand(c) + 1
         /\ t \in Hand(c) /\ Hand(c)' = Hand(c) \ {t} => InHand(c)' = InHand(c) - 1
  <1>1. InHand(c) = Cardinality(Hand(c)) /\ InHand(c)' = Cardinality(Hand(c)')
    BY DEF Hand, InHand
  <1>2. IsFiniteSet(Hand(c))
    BY Amounts
  <1>3. t \notin Hand(c) => Cardinality(Hand(c) \cup {t}) = Cardinality(Hand(c)) + 1
    BY <1>2, FS_AddElement
  <1>4. t \in Hand(c) => Cardinality(Hand(c) \ {t}) = Cardinality(Hand(c)) - 1
    BY <1>2, FS_RemoveElement
  <1> QED BY <1>1, <1>3, <1>4

-----------------------------------------------------------------------------
(* The handler.                                                            *)
LEMMA HandlerBalance ==
  ASSUME TypeOK, Fresh, NEW c \in Client, Balanced(c), NEW d \in Client,
         Connect(d) \/ HandlerStep(d) \/ Leave(d)
  PROVE  Balanced(c)'
  <1> USE DEF handlerVars, logicVars, castVars, history
  <1>0. /\ msg \in [Client -> Seq(Message)] /\ owed \in [Client -> Int]
        /\ ticker \in [Client -> Ticker(Len(info))]
        /\ receiver \in [Client -> [Topic -> Receiver(Len(info))]]
    BY Parts DEF MsgTyped, CountsTyped, WorkTyped
  <1>1. CASE UNCHANGED <<msg, ticker, receiver, dropped, owed>>
    BY <1>1, BalanceFrame DEF Hand, At
  <1>2. CASE Check(d) /\ Put(d, Err)
    <2>1. UNCHANGED <<ticker, receiver, dropped, owed>>
      BY <1>2 DEF Check
    <2>2. Hand(c)' = Hand(c)
      BY <2>1 DEF Hand, At
    <2>3. CASE c # d
      <3>1. msg'[c] = msg[c]
        BY <1>0, <1>2, <2>3 DEF Put
      <3> QED BY <2>1, <2>2, <3>1, BalanceFrame
    <2>4. CASE c = d
      <3>1. Err \in Message /\ Err.n = 0
        BY Messages DEF Err
      <3>2. IsFiniteSet(Told(msg'[c])) /\ Underway(c)' = Underway(c) + 0
        BY <1>2, <2>4, <3>1, BalancePut
      <3>3. Underway(c)' = Underway(c) /\ InHand(c)' = InHand(c)
        <4>1. InHand(c)' = InHand(c)
          BY <2>2 DEF InHand, Hand
        <4>2. Underway(c) \in Nat
          BY Amounts DEF Balanced
        <4> QED BY <3>2, <4>1, <4>2
      <3> QED BY <2>1, <3>2, <3>3 DEF Balanced
    <2> QED BY <2>3, <2>4
  <1>3. CASE Store(d)
    <2>1. UNCHANGED <<msg, dropped, owed>>
      BY <1>3 DEF Store
    <2>2. ticker'[c].n = ticker[c].n /\ (ticker'[c].pc # "beat" => ticker[c].pc # "beat")
      BY <1>0, <1>3 DEF Store, Fresh, Ticker
    <2>3. \A t \in Topic : receiver'[c][t].pc = "put" <=> receiver[c][t].pc = "put"
      <3>1. CASE c # d
        BY <1>0, <1>3, <3>1 DEF Store
      <3>2. CASE c = d
        BY <1>0, <1>3, <3>2 DEF Store, Fresh, NoReceiver
      <3> QED BY <3>1, <3>2
    <2>4. Hand(c)' = Hand(c)
      BY <2>3 DEF Hand, At
    <2> QED BY <2>1, <2>2, <2>4, BalanceFrame
  <1>4. CASE Write(d)
    <2>1. UNCHANGED <<ticker, receiver, dropped>>
      BY <1>4 DEF Write
    <2>2. Hand(c)' = Hand(c)
      BY <2>1 DEF Hand, At
    <2>3. CASE c # d
      <3>1. msg'[c] = msg[c] /\ owed'[c] = owed[c]
        BY <1>0, <1>4, <2>3 DEF Write
      <3> QED BY <2>1, <2>2, <3>1, BalanceFrame
    <2>4. CASE c = d
      <3>1. /\ msg[c] \in Seq(Message) /\ msg[c] # <<>>
            /\ msg'[c] = Tail(msg[c]) /\ owed'[c] = owed[c] - Head(msg[c]).n
        BY <1>0, <1>4, <2>4 DEF Write
      <3>2. Head(msg[c]).n \in Nat
        BY <3>1, Messages
      <3>3. IsFiniteSet(Told(msg'[c])) /\ Underway(c) = Underway(c)' + Head(msg[c]).n
        BY <3>1, ToldLess DEF Balanced, Underway
      <3>4. Underway(c)' \in Nat
        BY <3>3, FS_CardinalityType DEF Underway
      <3>5. InHand(c)' = InHand(c)
        BY <2>2 DEF InHand, Hand
      <3>6. owed'[c] = Underway(c)' + InHand(c)' + ticker'[c].n + dropped'[c]
        <4>1. /\ Underway(c) \in Nat /\ InHand(c) \in Nat /\ ticker[c].n \in Nat
              /\ dropped[c] \in Nat /\ owed[c] \in Int
              /\ owed[c] = Underway(c) + InHand(c) + ticker[c].n + dropped[c]
          BY Amounts DEF Balanced
        <4>2. ticker'[c].n = ticker[c].n /\ dropped'[c] = dropped[c]
          BY <2>1
        <4>3. owed'[c] = owed[c] - Head(msg[c]).n
          BY <3>1
        <4> QED BY <3>2, <3>3, <3>4, <3>5, <4>1, <4>2, <4>3
      <3> QED BY <2>1, <3>3, <3>6 DEF Balanced
    <2> QED BY <2>3, <2>4
  <1> QED BY <1>1, <1>2, <1>3, <1>4 DEF HandlerStep, Connect, Check, Close, Leave

(* The goroutine of the heartbeats and of the end.                         *)
LEMMA TickerBalance ==
  ASSUME TypeOK, NEW c \in Client, Balanced(c), NEW d \in Client,
         Beat(d) \/ End(d) \/ TickerEnd(d), ~Panic
  PROVE  Balanced(c)'
  <1> USE DEF handlerVars, logicVars, castVars, history
  <1>0. /\ msg \in [Client -> Seq(Message)] /\ owed \in [Client -> Int]
        /\ ticker \in [Client -> Ticker(Len(info))] /\ dropped \in [Client -> Nat]
    BY Parts DEF MsgTyped, CountsTyped, WorkTyped
  <1>1. UNCHANGED <<receiver, owed>>
    BY DEF Beat, End, TickerEnd, BeatSend, SetCloseFlag, SendDone, UnregisterLoad, Unregister,
           Unregistered
  <1>2. Hand(c)' = Hand(c) /\ InHand(c)' = InHand(c)
    BY <1>1 DEF Hand, InHand, At
  <1>3. CASE c # d
    <2>1. ticker'[c] = ticker[c]
      BY <1>0, <1>3 DEF Beat, End, TickerEnd, BeatSend, SetCloseFlag, SendDone, UnregisterLoad,
         Unregister, Unregistered
    <2>2. dropped'[c] = dropped[c]
      BY <1>0, <1>3 DEF Beat, End, TickerEnd, BeatSend, SetCloseFlag, SendDone, UnregisterLoad,
         Unregister, Unregistered, PutBack
    <2>3. msg'[c] = msg[c]
      BY <1>0, <1>3 DEF Beat, End, TickerEnd, BeatSend, SetCloseFlag, SendDone, UnregisterLoad,
         Unregister, Unregistered, PutDone, Put
    <2> QED BY <1>1, <1>2, <2>1, <2>2, <2>3, BalanceFrame
  <1>4. CASE c = d /\ Beat(c)
    <2>1. ticker[c].pc = "wait" /\ msg' = msg
      BY <1>4 DEF Beat
    <2>2. ticker'[c].pc = "beat" /\ ticker'[c].n = dropped[c] /\ dropped'[c] = 0
      BY <1>0, <1>4 DEF Beat, Ticker
    <2>3. ticker[c].n = 0 /\ Underway(c)' = Underway(c)
      BY <2>1 DEF Balanced, Underway
    <2>4. owed'[c] = Underway(c)' + InHand(c)' + ticker'[c].n + dropped'[c]
      BY <1>1, <1>2, <2>2, <2>3, Amounts DEF Balanced
    <2> QED BY <2>1, <2>2, <2>4 DEF Balanced
  <1>5. CASE c = d /\ BeatSend(c)
    <2>1. ticker'[c].n = 0
      BY <1>0, <1>5 DEF BeatSend, Ticker
    <2>2. CASE Put(c, Data(ticker[c].n)) /\ UNCHANGED dropped
      <3>1. Data(ticker[c].n) \in Message /\ Data(ticker[c].n).n = ticker[c].n
        BY Messages, Amounts DEF Balanced
      <3>2. IsFiniteSet(Told(msg'[c])) /\ Underway(c)' = Underway(c) + ticker[c].n
        BY <2>2, <3>1, BalancePut
      <3>3. owed'[c] = Underway(c)' + InHand(c)' + ticker'[c].n + dropped'[c]
        BY <1>1, <1>2, <2>1, <2>2, <3>2, Amounts DEF Balanced
      <3> QED BY <2>1, <3>2, <3>3 DEF Balanced
    <2>3. CASE PutBack(c) /\ UNCHANGED msg
      <3>1. dropped'[c] = dropped[c] + ticker[c].n /\ Underway(c)' = Underway(c)
        BY <1>0, <2>3 DEF PutBack, Underway
      <3>2. owed'[c] = Underway(c)' + InHand(c)' + ticker'[c].n + dropped'[c]
        BY <1>1, <1>2, <2>1, <3>1, Amounts DEF Balanced
      <3> QED BY <2>1, <2>3, <3>2 DEF Balanced
    <2> QED BY <1>5, <2>2, <2>3 DEF BeatSend
  <1>6. CASE c = d /\ SendDone(c)
    <2>1. Put(c, Done) /\ UNCHANGED dropped /\ ticker[c].pc = "done"
      BY <1>6 DEF SendDone, PutDone
    <2>2. ticker'[c].n = ticker[c].n /\ ticker[c].n = 0
      BY <1>0, <1>6, <2>1 DEF SendDone, Ticker, Balanced
    <2>3. Done \in Message /\ Done.n = 0
      BY Messages DEF Done
    <2>4. IsFiniteSet(Told(msg'[c])) /\ Underway(c)' = Underway(c) + 0
      BY <2>1, <2>3, BalancePut
    <2>5. owed'[c] = Underway(c)' + InHand(c)' + ticker'[c].n + dropped'[c]
      BY <1>1, <1>2, <2>1, <2>2, <2>4, Amounts DEF Balanced
    <2> QED BY <2>2, <2>4, <2>5 DEF Balanced
  <1>7. CASE c = d /\ (End(c) \/ SetCloseFlag(c) \/ UnregisterLoad(c) \/ Unregister(c))
    <2>1. UNCHANGED <<msg, dropped>>
      BY <1>7 DEF End, SetCloseFlag, UnregisterLoad, Unregister, Unregistered
    <2>2. ticker'[c].n = ticker[c].n /\ ticker[c].pc # "beat"
      <3>1. CASE End(c) \/ SetCloseFlag(c)
        BY <1>0, <3>1 DEF End, SetCloseFlag, Ticker
      <3>2. CASE UnregisterLoad(c)
        BY <1>0, <3>2 DEF UnregisterLoad, NextTopic, Ticker
      <3>3. CASE Unregister(c)
        <4>1. ticker[c].pc = "leave" /\ ticker' = [ticker EXCEPT ![c] = NextTopic(c)]
          BY <3>3 DEF Unregister, Unregistered
        <4>2. NextTopic(c).n = ticker[c].n
          BY <1>0 DEF NextTopic, Ticker
        <4> QED BY <1>0, <4>1, <4>2
      <3> QED BY <1>7, <3>1, <3>2, <3>3
    <2> QED BY <1>1, <1>2, <2>1, <2>2, BalanceFrame
  <1> QED BY <1>3, <1>4, <1>5, <1>6, <1>7 DEF TickerEnd

(* The receivers.                                                          *)
LEMMA ReceiverBalance ==
  ASSUME TypeOK, NEW c \in Client, Balanced(c), NEW d \in Client, NEW t \in Topic,
         ReceiverStep(d, t), ~Panic
  PROVE  Balanced(c)'
  <1> USE DEF handlerVars, logicVars, castVars, history
  <1>0. /\ msg \in [Client -> Seq(Message)] /\ owed \in [Client -> Int]
        /\ receiver \in [Client -> [Topic -> Receiver(Len(info))]] /\ dropped \in [Client -> Nat]
    BY Parts DEF MsgTyped, CountsTyped, WorkTyped
  <1>1. ticker' = ticker
    BY DEF ReceiverStep, Register, Count, Take, CheckClosed, LogLine, SendLine, SendOnClosed
  <1>2. \E x : receiver' = [receiver EXCEPT ![d][t] = x]
    BY <1>0 DEF ReceiverStep, Register, Count, Take, CheckClosed, LogLine, SendLine, SendOnClosed,
        Goto, Stops
  <1>3. CASE c # d
    <2>1. receiver'[c] = receiver[c]
      BY <1>0, <1>2, <1>3
    <2>2. Hand(c)' = Hand(c)
      BY <2>1 DEF Hand, At
    <2>3. msg'[c] = msg[c]
      BY <1>0, <1>3 DEF ReceiverStep, Register, Count, Take, CheckClosed, LogLine, SendLine,
         SendOnClosed, Put
    <2>4. dropped'[c] = dropped[c] /\ owed'[c] = owed[c]
      BY <1>0, <1>3 DEF ReceiverStep, Register, Count, Take, CheckClosed, LogLine, SendLine,
         SendOnClosed, Add
    <2> QED BY <1>1, <2>2, <2>3, <2>4, BalanceFrame
  <1>4. CASE c = d /\ (Register(c, t) \/ Count(c, t) \/ Take(c, t) \/ CheckClosed(c, t))
    <2>1. UNCHANGED <<msg, dropped, owed>>
      BY <1>4 DEF Register, Count, Take, CheckClosed
    <2>2. receiver[c][t].pc # "put" /\ receiver'[c][t].pc # "put"
      BY <1>0, <1>4 DEF Register, Count, Take, CheckClosed, Goto, Stops, At, Receiver
    <2>3. \A u \in Topic : u # t => receiver'[c][u] = receiver[c][u]
      BY <1>0, <1>2, <1>4
    <2>4. Hand(c)' = Hand(c)
      BY <2>2, <2>3 DEF Hand, At
    <2> QED BY <1>1, <2>1, <2>4, BalanceFrame
  <1>5. CASE c = d /\ LogLine(c, t)
    <2>1. msg' = msg /\ Underway(c)' = Underway(c) /\ receiver[c][t].pc # "put"
      BY <1>5 DEF LogLine, Underway, At
    <2>2. \A u \in Topic : u # t => receiver'[c][u] = receiver[c][u]
      BY <1>0, <1>2, <1>5
    <2>3. CASE Goto(c, t, "range")
      <3>1. receiver'[c][t].pc # "put"
        BY <1>0, <2>3 DEF Goto, Receiver
      <3>2. Hand(c)' = Hand(c) /\ InHand(c)' = InHand(c)
        BY <2>1, <2>2, <3>1 DEF Hand, InHand, At
      <3>3. \/ dropped'[c] = dropped[c] /\ owed'[c] = owed[c]
            \/ dropped'[c] = dropped[c] + 1 /\ owed'[c] = owed[c] + 1
        <4>1. ~Goto(c, t, "put")
          <5>1. Goto(c, t, "put") => receiver'[c][t].pc = "put"
            BY <1>0 DEF Goto, Receiver
          <5> QED BY <3>1, <5>1
        <4> QED BY <1>0, <1>5, <4>1 DEF LogLine, Add
      <3>4. owed'[c] = Underway(c)' + InHand(c)' + ticker'[c].n + dropped'[c]
        BY <1>1, <2>1, <3>2, <3>3, Amounts DEF Balanced
      <3> QED BY <1>1, <2>1, <3>4 DEF Balanced
    <2>4. CASE Goto(c, t, "put") /\ Add(owed, c) /\ UNCHANGED dropped
      <3>1. receiver'[c][t].pc = "put"
        BY <1>0, <2>4 DEF Goto, Receiver
      <3>2. t \notin Hand(c) /\ Hand(c)' = Hand(c) \cup {t}
        BY <2>1, <2>2, <3>1 DEF Hand, At
      <3>3. InHand(c)' = InHand(c) + 1
        BY <3>2, BalanceHand DEF Balanced
      <3>4. owed'[c] = owed[c] + 1
        BY <1>0, <2>4 DEF Add
      <3>5. owed'[c] = Underway(c)' + InHand(c)' + ticker'[c].n + dropped'[c]
        BY <1>1, <2>1, <2>4, <3>3, <3>4, Amounts DEF Balanced
      <3> QED BY <1>1, <2>1, <3>5 DEF Balanced
    <2> QED BY <1>5, <2>3, <2>4 DEF LogLine
  <1>6. CASE c = d /\ SendLine(c, t)
    <2>1. owed' = owed /\ receiver[c][t].pc = "put" /\ Goto(c, t, "range")
      BY <1>6 DEF SendLine, At
    <2>2. \A u \in Topic : u # t => receiver'[c][u] = receiver[c][u]
      BY <1>0, <1>2, <1>6
    <2>3. receiver'[c][t].pc # "put"
      BY <1>0, <2>1 DEF Goto, Receiver
    <2>4. t \in Hand(c) /\ Hand(c)' = Hand(c) \ {t}
      BY <2>1, <2>2, <2>3 DEF Hand, At
    <2>5. InHand(c)' = InHand(c) - 1
      BY <2>4, BalanceHand DEF Balanced
    <2>6. CASE Put(c, Data(1)) /\ UNCHANGED dropped
      <3>1. Data(1) \in Message /\ Data(1).n = 1
        BY Messages
      <3>2. IsFiniteSet(Told(msg'[c])) /\ Underway(c)' = Underway(c) + 1
        BY <2>6, <3>1, BalancePut
      <3>3. owed'[c] = Underway(c)' + InHand(c)' + ticker'[c].n + dropped'[c]
        BY <1>1, <2>1, <2>5, <2>6, <3>2, Amounts DEF Balanced
      <3> QED BY <1>1, <3>2, <3>3 DEF Balanced
    <2>7. CASE Add(dropped, c) /\ UNCHANGED msg
      <3>1. dropped'[c] = dropped[c] + 1 /\ Underway(c)' = Underway(c)
        BY <1>0, <2>7 DEF Add, Underway
      <3>2. owed'[c] = Underway(c)' + InHand(c)' + ticker'[c].n + dropped'[c]
        BY <1>1, <2>1, <2>5, <3>1, Amounts DEF Balanced
      <3> QED BY <1>1, <2>7, <3>2 DEF Balanced
    <2> QED BY <1>6, <2>6, <2>7 DEF SendLine
  <1> QED BY <1>3, <1>4, <1>5, <1>6 DEF ReceiverStep, SendOnClosed

LEMMA PanicBalance ==
  ASSUME Panic, NEW c \in Client
  PROVE  Balanced(c)'
  <1>1. msg'[c] = <<>> /\ dropped'[c] = 0 /\ owed'[c] = 0
    BY DEF Panic
  <1>2. ticker'[c].pc = "none" /\ ticker'[c].n = 0
    BY DEF Panic, NoTicker
  <1>3. Hand(c)' = {}
    BY DEF Panic, Hand, At, NoReceiver
  <1>4. InHand(c)' = 0
    <2>1. InHand(c)' = Cardinality(Hand(c)')
      BY DEF InHand, Hand
    <2> QED BY <1>3, <2>1, FS_EmptySet
  <1>5. IsFiniteSet(Told(msg'[c])) /\ Underway(c)' = 0
    BY <1>1, ToldNothing DEF Underway
  <1> QED BY <1>1, <1>2, <1>4, <1>5 DEF Balanced

LEMMA InitBalance ==
  ASSUME Init, NEW c \in Client
  PROVE  Balanced(c)
  <1>1. msg[c] = <<>> /\ dropped[c] = 0 /\ owed[c] = 0
    BY DEF Init
  <1>2. ticker[c].pc = "none" /\ ticker[c].n = 0
    BY DEF Init, NoTicker
  <1>3. Hand(c) = {}
    BY DEF Init, Hand, At, NoReceiver
  <1>4. InHand(c) = 0
    BY <1>3, FS_EmptySet DEF InHand, Hand
  <1>5. IsFiniteSet(Told(msg[c])) /\ Underway(c) = 0
    BY <1>1, ToldNothing DEF Underway
  <1> QED BY <1>1, <1>2, <1>4, <1>5 DEF Balanced

LEMMA BalanceKept ==
  ASSUME TypeOK, Fresh, NEW c \in Client, Balanced(c), [Next]_vars
  PROVE  Balanced(c)'
  <1>1. CASE Panic
    BY <1>1, PanicBalance
  <1>2. CASE UNCHANGED <<msg, ticker, receiver, dropped, owed>>
    BY <1>2, BalanceFrame DEF Hand, At
  <1>3. CASE Next /\ ~Panic
    <2>1. CASE \E d \in Client : Connect(d) \/ HandlerStep(d) \/ Leave(d)
      BY <2>1, HandlerBalance
    <2>2. CASE \E d \in Client : Beat(d) \/ End(d) \/ TickerEnd(d)
      BY <1>3, <2>2, TickerBalance
    <2>3. CASE \E d \in Client, t \in Topic : ReceiverStep(d, t)
      BY <1>3, <2>3, ReceiverBalance
    <2>4. CASE (\E t \in Topic : Send(t)) \/ SenderStep
      BY <1>2, <2>4 DEF Send, SenderStep, SendCount, SendPut, handlerVars, logicVars, history
    <2> QED BY <1>3, <2>1, <2>2, <2>3, <2>4 DEF Next
  <1>4. CASE UNCHANGED vars
    BY <1>2, <1>4 DEF vars, logicVars, history
  <1> QED BY <1>1, <1>3, <1>4

(* Every line the receivers of a connection have handled is shown, under way, *)
(* in hand, or in a count that a heartbeat tells or will tell: the heartbeat  *)
(* that empties the counters, and puts them back when the channel is full,  *)
(* loses no drop that a receiver adds meanwhile.                            *)
THEOREM LogsAccounted == Spec => []Accounted
  <1> DEFINE BalancedAll == \A c \in Client : Balanced(c)
  <1>1. Init => BalancedAll
    BY InitBalance
  <1>2. Inv /\ BalancedAll /\ [Next]_vars => BalancedAll'
    BY BalanceKept DEF Inv
  <1>3. BalancedAll => Accounted
    BY DEF Balanced, Accounted
  <1> HIDE DEF BalancedAll
  <1> QED BY <1>1, <1>2, <1>3, Invariant, PTL DEF Spec
=============================================================================
