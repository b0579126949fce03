------------------------------ MODULE SipLogs ------------------------------
(* The SIP log viewer: a connection to /events?type=sip_logs, the goroutines *)
(* SipLogLogic starts for it, the loop that hands the log lines on, and the  *)
(* BroadcastManager between them, of which the viewer is the only user.     *)
EXTENDS Integers, Sequences, FiniteSets

CONSTANTS
  Client,      \* connections, each is opened once
  Topics,      \* sequence of the broadcast channel names
  MsgCap,      \* capacity of messageChan
  LineCap,     \* capacity of a broadcast channel
  MaxLines     \* bound: lines logged

Topic == {Topics[i] : i \in DOMAIN Topics}

ASSUME SipLogsAssumption ==
  /\ Topics \in Seq(Topic) /\ Topics # <<>>
  /\ {MsgCap, LineCap} \subseteq Nat \ {0} /\ MaxLines \in Nat

VARIABLES
  active,   \* sipLogIsActive
  conn,     \* per connection: where the HTTP handler is
  left,     \* per connection: ctx is cancelled
  msg,      \* per connection: messageChan
  closed,   \* per connection: messageChan is closed
  closeFlag,\* per connection
  ticker,   \* per connection: the goroutine of heartbeats and of the end
  receiver, \* per connection and topic: the goroutine of do()
  dropped,  \* per connection: droppedFull + droppedRate
  info,     \* every channelInfo that was made
  entry,    \* BroadcastManager.channels: index of the channelInfo, 0 for none
  sender,   \* the SipLog loop inside Broadcast.Send
  lines,    \* bound
  owed,     \* history: lines the receivers of an open connection have handled,
            \* less those the client got or was told to have been dropped
  lost,     \* history: lines taken out of the channel after closeFlag was set
  panicked  \* history: the process has ended with a panic

handlerVars == <<conn, left, closed>>
logicVars   == <<closeFlag, ticker, receiver, dropped>>
castVars    == <<info, entry, sender, lines>>
history     == <<owed, lost, panicked>>
vars == <<active, handlerVars, msg, logicVars, castVars, history>>

-----------------------------------------------------------------------------
Data(n) == [kind |-> "data", n |-> n]     \* a line (1) or a heartbeat's counts
Done    == [kind |-> "done", n |-> 0]
Err     == [kind |-> "err", n |-> 0]
Message == [kind : {"data"}, n : Nat] \cup {Done, Err}

NoTicker   == [pc |-> "none", n |-> 0, at |-> 1, k |-> 0]
NoReceiver == [pc |-> "none", k |-> 0]

Put(c, m) == msg' = [msg EXCEPT ![c] = Append(@, m)]
Room(c)   == Len(msg[c]) < MsgCap

TypeOK ==
  /\ active \in BOOLEAN /\ panicked \in BOOLEAN
  /\ conn \in [Client -> {"none", "check", "store", "range", "close", "closed"}]
  /\ left \in [Client -> BOOLEAN] /\ closed \in [Client -> BOOLEAN]
  /\ closeFlag \in [Client -> BOOLEAN]
  /\ msg \in [Client -> Seq(Message)]
  /\ \A c \in Client : Len(msg[c]) <= MsgCap
  /\ ticker \in [Client -> [pc : {"none", "wait", "beat", "flag", "done", "load", "leave", "end"},
                            n : Nat, at : 1 .. Len(Topics) + 1, k : 0 .. Len(info)]]
  /\ receiver \in [Client -> [Topic ->
       [pc : {"none", "load", "count", "range", "check", "line", "put", "end"}, k : 0 .. Len(info)]]]
  /\ info \in Seq([usage : Int, queue : 0 .. LineCap, closed : BOOLEAN])
  /\ entry \in [Topic -> 0 .. Len(info)]
  /\ sender \in [pc : {"idle", "count", "put"}, k : 0 .. Len(info)]
  /\ lines \in 0 .. MaxLines
  /\ dropped \in [Client -> Nat] /\ lost \in [Client -> Nat] /\ owed \in [Client -> Int]

Init ==
  /\ active = FALSE
  /\ conn = [c \in Client |-> "none"]
  /\ left = [c \in Client |-> FALSE] /\ closed = left /\ closeFlag = left
  /\ msg = [c \in Client |-> <<>>]
  /\ ticker = [c \in Client |-> NoTicker]
  /\ receiver = [c \in Client |-> [t \in Topic |-> NoReceiver]]
  /\ dropped = [c \in Client |-> 0]
  /\ info = <<>> /\ entry = [t \in Topic |-> 0]
  /\ sender = [pc |-> "idle", k |-> 0] /\ lines = 0
  /\ owed = dropped /\ lost = dropped
  /\ panicked = FALSE

(* A goroutine nobody recovers panics: the process ends.  What it does when *)
(* it is started again it also does from Init.                             *)
Panic ==
  /\ panicked' = TRUE
  /\ active' = FALSE
  /\ conn' = [c \in Client |-> "closed"]
  /\ left' = [c \in Client |-> TRUE] /\ closed' = left'
  /\ closeFlag' = left' /\ msg' = [c \in Client |-> <<>>]
  /\ ticker' = [c \in Client |-> NoTicker]
  /\ receiver' = [c \in Client |-> [t \in Topic |-> NoReceiver]]
  /\ info' = <<>> /\ entry' = [t \in Topic |-> 0]
  /\ sender' = [pc |-> "idle", k |-> 0]
  /\ dropped' = [c \in Client |-> 0] /\ owed' = dropped'
  /\ lines' = 0 /\ lost' = dropped'

-----------------------------------------------------------------------------
(* The HTTP handler of the connection and SipLogLogic.DO, which it calls.  *)
Connect(c) ==
  /\ conn[c] = "none"
  /\ conn' = [conn EXCEPT ![c] = "check"]
  /\ UNCHANGED <<active, left, closed, msg, logicVars, castVars, history>>

Check(c) ==
  /\ conn[c] = "check"
  /\ \/ active /\ Put(c, Err) /\ conn' = [conn EXCEPT ![c] = "range"]
     \/ ~active /\ conn' = [conn EXCEPT ![c] = "store"] /\ UNCHANGED msg
  /\ UNCHANGED <<active, left, closed, logicVars, castVars, history>>

Store(c) ==
  /\ conn[c] = "store"
  /\ active' = TRUE
  /\ conn' = [conn EXCEPT ![c] = "range"]
  /\ ticker' = [ticker EXCEPT ![c].pc = "wait"]
  /\ receiver' = [receiver EXCEPT ![c] = [t \in Topic |-> [NoReceiver EXCEPT !.pc = "load"]]]
  /\ UNCHANGED <<left, closed, msg, closeFlag, dropped, castVars, history>>

(* range messageChan: data are written, an end or an error leaves the loop. *)
Write(c) ==
  /\ conn[c] = "range" /\ msg[c] # <<>>
  /\ msg' = [msg EXCEPT ![c] = Tail(@)]
  /\ owed' = [owed EXCEPT ![c] = @ - Head(msg[c]).n]
  /\ conn' = IF Head(msg[c]).kind = "data" THEN conn ELSE [conn EXCEPT ![c] = "close"]
  /\ UNCHANGED <<active, left, closed, logicVars, castVars, lost, panicked>>

Close(c) ==
  /\ conn[c] = "close"
  /\ conn' = [conn EXCEPT ![c] = "closed"]
  /\ left' = [left EXCEPT ![c] = TRUE] /\ closed' = [closed EXCEPT ![c] = TRUE]
  /\ UNCHANGED <<active, msg, logicVars, castVars, history>>

(* The client goes away: its request's context is cancelled.               *)
Leave(c) ==
  /\ conn[c] # "none" /\ ~left[c]
  /\ left' = [left EXCEPT ![c] = TRUE]
  /\ UNCHANGED <<active, conn, closed, msg, logicVars, castVars, history>>

-----------------------------------------------------------------------------
(* The ticker's goroutine: a heartbeat takes the counts of dropped lines,   *)
(* and puts them back when the channel is full.                            *)
Beat(c) ==
  /\ ticker[c].pc = "wait"
  /\ ticker' = [ticker EXCEPT ![c].pc = "beat", ![c].n = dropped[c]]
  /\ dropped' = [dropped EXCEPT ![c] = 0]
  /\ UNCHANGED <<active, handlerVars, msg, closeFlag, receiver, castVars, history>>

PutBackAlone(c) == dropped' = [dropped EXCEPT ![c] = ticker[c].n]   \* mutant
PutBack(c) == dropped' = [dropped EXCEPT ![c] = @ + ticker[c].n]

BeatSend(c) ==
  /\ ticker[c].pc = "beat"
  /\ ticker' = [ticker EXCEPT ![c].pc = "wait", ![c].n = 0]
  /\ \/ Room(c) /\ Put(c, Data(ticker[c].n)) /\ UNCHANGED dropped
     \/ ~Room(c) /\ PutBack(c) /\ UNCHANGED msg
  /\ UNCHANGED <<active, handlerVars, closeFlag, receiver, castVars, history>>

End(c) ==
  /\ ticker[c].pc = "wait" /\ left[c]
  /\ active' = FALSE
  /\ ticker' = [ticker EXCEPT ![c].pc = "flag"]
  /\ UNCHANGED <<handlerVars, msg, closeFlag, receiver, dropped, castVars, history>>

SetCloseFlag(c) ==
  /\ ticker[c].pc = "flag"
  /\ closeFlag' = [closeFlag EXCEPT ![c] = TRUE]
  /\ ticker' = [ticker EXCEPT ![c].pc = "done"]
  /\ UNCHANGED <<active, handlerVars, msg, receiver, dropped, castVars, history>>

DoneIfRoom(c) == IF Room(c) THEN Put(c, Done) ELSE UNCHANGED msg     \* mutant
DoneAtOnce(c) == Put(c, Done)                                 \* mutant
PutDone(c) == Room(c) /\ Put(c, Done)

SendDone(c) ==
  /\ ticker[c].pc = "done"
  /\ PutDone(c)
  /\ ticker' = [ticker EXCEPT ![c].pc = "load"]
  /\ UNCHANGED <<active, handlerVars, closeFlag, receiver, dropped, castVars, history>>

(* UnregisterReceiver, once per topic: only when no usage is left the       *)
(* channel leaves the map and is closed.  A waiting line is taken out then, *)
(* and the goroutine that clears the rest takes any number of them.        *)
NextTopic(c) == [ticker[c] EXCEPT !.at = @ + 1, !.k = 0,
                                  !.pc = IF ticker[c].at = Len(Topics) THEN "end" ELSE "load"]

UnregisterLoad(c) ==
  /\ ticker[c].pc = "load"
  /\ LET k == entry[Topics[ticker[c].at]] IN
       ticker' = [ticker EXCEPT ![c] =
         IF k = 0 THEN NextTopic(c) ELSE [@ EXCEPT !.pc = "leave", !.k = k]]
  /\ UNCHANGED <<active, handlerVars, msg, closeFlag, receiver, dropped, castVars, history>>

Unregistered(c) ==
  LET k == ticker[c].k
      ch == info[k]
  IN
  /\ \/ ch.usage > 1 /\ info' = [info EXCEPT ![k].usage = @ - 1] /\ UNCHANGED entry
     \/ /\ ch.usage <= 1
        /\ entry' = [entry EXCEPT ![Topics[ticker[c].at]] = 0]
        /\ \E q \in {0} \cup 0 .. ch.queue - 1 :
             info' = [info EXCEPT ![k] = [usage |-> ch.usage - 1, queue |-> q, closed |-> TRUE]]
  /\ ticker' = [ticker EXCEPT ![c] = NextTopic(c)]
  /\ UNCHANGED <<active, handlerVars, msg, closeFlag, receiver, dropped, sender, lines, history>>

(* A closed channel that still has lines is closed a second time.          *)
ClosesAgain(ch) == ch.usage <= 1 /\ ch.closed /\ ch.queue > 0

Unregister(c) ==
  /\ ticker[c].pc = "leave"
  /\ IF ClosesAgain(info[ticker[c].k]) THEN Panic ELSE Unregistered(c)

-----------------------------------------------------------------------------
(* The receiving goroutines: RegisterReceiver, then range over the channel. *)
At(c, t, pc) == receiver[c][t].pc = pc
Goto(c, t, pc) == receiver' = [receiver EXCEPT ![c][t].pc = pc]
Add(f, c) == f' = [f EXCEPT ![c] = @ + 1]
NewInfo == [usage |-> 0, queue |-> 0, closed |-> FALSE]

Register(c, t) ==
  /\ At(c, t, "load")
  /\ \/ entry[t] # 0 /\ UNCHANGED <<info, entry>>
     \/ /\ entry[t] = 0
        /\ info' = Append(info, NewInfo)
        /\ entry' = [entry EXCEPT ![t] = Len(info')]
  /\ receiver' = [receiver EXCEPT ![c][t] = [pc |-> "count", k |-> entry'[t]]]
  /\ UNCHANGED <<active, handlerVars, msg, closeFlag, ticker, dropped, sender, lines, history>>

Count(c, t) ==
  /\ At(c, t, "count")
  /\ info' = [info EXCEPT ![receiver[c][t].k].usage = @ + 1]
  /\ Goto(c, t, "range")
  /\ UNCHANGED <<active, handlerVars, msg, closeFlag, ticker, dropped, entry, sender, lines, history>>

Take(c, t) ==
  LET ch == info[receiver[c][t].k] IN
  /\ At(c, t, "range")
  /\ \/ /\ ch.queue > 0
        /\ info' = [info EXCEPT ![receiver[c][t].k].queue = @ - 1]
        /\ Goto(c, t, "check")
        /\ IF closeFlag[c] THEN Add(lost, c) ELSE UNCHANGED lost
     \/ ch.queue = 0 /\ ch.closed /\ Goto(c, t, "end") /\ UNCHANGED <<info, lost>>
  /\ UNCHANGED <<active, handlerVars, msg, closeFlag, ticker, dropped, entry, sender, lines,
                 owed, panicked>>

StaysOn(c, t) == Goto(c, t, "range")                        \* mutant
Stops(c, t) == Goto(c, t, "end")

CheckClosed(c, t) ==
  /\ At(c, t, "check")
  /\ IF closeFlag[c] THEN Stops(c, t) ELSE Goto(c, t, "line")
  /\ UNCHANGED <<active, handlerVars, msg, closeFlag, ticker, dropped, castVars, history>>

(* sendLogLine: the flag once more, the limiter, the send that never waits. *)
LogLine(c, t) ==
  /\ At(c, t, "line")
  /\ \/ closeFlag[c] /\ Goto(c, t, "range") /\ UNCHANGED <<dropped, owed>>
     \/ ~closeFlag[c] /\ Goto(c, t, "range") /\ Add(dropped, c) /\ Add(owed, c)
     \/ ~closeFlag[c] /\ Goto(c, t, "put") /\ Add(owed, c) /\ UNCHANGED dropped
  /\ UNCHANGED <<active, handlerVars, msg, closeFlag, ticker, castVars, lost, panicked>>

SendLine(c, t) ==
  /\ At(c, t, "put") /\ ~closed[c]
  /\ \/ Room(c) /\ Put(c, Data(1)) /\ UNCHANGED dropped
     \/ ~Room(c) /\ Add(dropped, c) /\ UNCHANGED msg
  /\ Goto(c, t, "range")
  /\ UNCHANGED <<active, handlerVars, closeFlag, ticker, castVars, history>>

SendOnClosed(c, t) == At(c, t, "put") /\ closed[c] /\ Panic

-----------------------------------------------------------------------------
(* The SipLog loop: BroadcastManager.Send.  A panic in it is recovered and  *)
(* the loop is started again.                                              *)
Send(t) ==
  /\ sender.pc = "idle" /\ lines < MaxLines /\ entry[t] # 0
  /\ lines' = lines + 1
  /\ sender' = [pc |-> "count", k |-> entry[t]]
  /\ UNCHANGED <<active, handlerVars, msg, logicVars, info, entry, history>>

SendCount ==
  /\ sender.pc = "count"
  /\ info' = [info EXCEPT ![sender.k].usage = @ + 1]
  /\ sender' = [sender EXCEPT !.pc = "put"]
  /\ UNCHANGED <<active, handlerVars, msg, logicVars, entry, lines, history>>

SendPut ==
  /\ sender.pc = "put"
  /\ info' = IF info[sender.k].closed \/ info[sender.k].queue = LineCap THEN info
             ELSE [info EXCEPT ![sender.k].queue = @ + 1]
  /\ sender' = [pc |-> "idle", k |-> 0]
  /\ UNCHANGED <<active, handlerVars, msg, logicVars, entry, lines, history>>

-----------------------------------------------------------------------------
HandlerStep(c) == Check(c) \/ Store(c) \/ Write(c) \/ Close(c)
TickerEnd(c) ==
  \/ BeatSend(c) \/ SetCloseFlag(c) \/ SendDone(c)
  \/ UnregisterLoad(c) \/ Unregister(c)
ReceiverStep(c, t) ==
  \/ Register(c, t) \/ Count(c, t) \/ Take(c, t) \/ CheckClosed(c, t)
  \/ LogLine(c, t) \/ SendLine(c, t) \/ SendOnClosed(c, t)
SenderStep == SendCount \/ SendPut

Next ==
  \/ \E c \in Client : \/ Connect(c) \/ HandlerStep(c) \/ Leave(c)
                       \/ Beat(c) \/ End(c) \/ TickerEnd(c)
                       \/ \E t \in Topic : ReceiverStep(c, t)
  \/ \E t \in Topic : Send(t)
  \/ SenderStep

Spec == Init /\ [][Next]_vars

(* Goroutines that can run do.  The select of the ticker's goroutine picks  *)
(* among what is ready: an end that is always ready is taken some time.     *)
Fairness ==
  /\ \A c \in Client : /\ WF_vars(HandlerStep(c)) /\ WF_vars(TickerEnd(c)) /\ SF_vars(End(c))
                       /\ \A t \in Topic : WF_vars(ReceiverStep(c, t))
  /\ WF_vars(SenderStep)

FairSpec == Spec /\ Fairness

-----------------------------------------------------------------------------
(* What the viewer relies on.                                               *)

(* The lines and the counted drops the messages of a channel stand for, one *)
(* pair for each.                                                          *)
Told(q) == UNION {{i} \X (1 .. q[i].n) : i \in DOMAIN q}

(* No drop goes unreported: every line the receivers of a connection have   *)
(* handled is shown, under way to the client, about to be sent, or in a     *)
(* count that a heartbeat tells or will tell, although the heartbeat empties the   *)
(* counters while the receivers add to them.                               *)
Underway(c) == Cardinality(Told(msg[c]))
InHand(c) == Cardinality({t \in Topic : At(c, t, "put")})
Accounted ==
  \A c \in Client :
    owed[c] = Underway(c) + InHand(c) + ticker[c].n + dropped[c]

(* The receivers of a connection that has ended stay registered, but each   *)
(* takes one line at the most from whoever views after it.                 *)
StaleTakesFew == \A c \in Client : lost[c] <= Len(Topics)

(* A connection whose client is gone ends, although the handler does not    *)
(* look at the context and the channel may be full of lines.  Who has left, *)
(* has left for good, and closed stays closed: this is left ~> closed.     *)
ConnectionEnds ==
  []<>(\A c \in Client : conn[c] # "none" /\ left[c] => conn[c] = "closed")

-----------------------------------------------------------------------------
(* What the documents say and the code does not do.                         *)

(* "A logic must not send to the channel after it was closed, or there is a *)
(* panic": no goroutine of the viewer ends the process.                     *)
NoSendAfterClose == ~panicked
=============================================================================
