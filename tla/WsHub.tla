------------------------------- MODULE WsHub -------------------------------
(* The WebSocket hub of VSS: one reader goroutine per connection, one       *)
(* receiver goroutine over four bounded channels, the index of connections  *)
(* and the two loops that supervise it.  The only requests that the router  *)
(* knows are the heartbeat and the talk audio; no talk session can exist in *)
(* this edition, so talk audio always ends with "sip not ready".            *)
EXTENDS Integers, Sequences

CONSTANTS
  Clients,      \* connections, WSClient objects: numbered in the order of their logins
  Id,           \* ClientId: connection type and user
  ChanCap,      \* capacity of the channels for messages, responses and closings
  BroadcastCap, \* capacity of the channel for broadcasts
  MaxLifetime,  \* WS.MaxLifetime
  MaxTime,      \* bound: the last instant
  MaxMessages   \* bound: messages read and tokens found expired

Client == 1 .. Clients
NoClient == 0

ASSUME HubAssumption ==
  /\ {ChanCap, BroadcastCap, MaxLifetime} \subseteq Nat \ {0}
  /\ {Clients, MaxTime, MaxMessages} \subseteq Nat

VARIABLES
  clock,        \* seconds
  client,       \* per connection: id, conn, closed (IsClosed), released (CloseChanSignal), active (ActiveTime)
  cache,        \* WSClientCache: id -> connection
  receiveCh,    \* ReceiveMessageChan
  responseCh,   \* ResponseMessageChan
  closeCh,      \* CloseChan
  broadcastCh,  \* BroadcastChan, items are interchangeable: nobody handles them
  reader,       \* per connection: the reader goroutine
  receiver,     \* the Receiver goroutine
  beat,         \* the heartbeat goroutine
  verifier,     \* the tokenVerify goroutine
  notice,       \* per connection: goroutines that will tell it to ask again
  talker,       \* WSTalkUsageStatus of one device
  messages      \* bound

connections == <<client, cache>>
channels    == <<receiveCh, responseCh, closeCh, broadcastCh>>
goroutines  == <<reader, receiver, beat, verifier>>
rest        == <<notice, talker, messages>>
vars == <<clock, client, cache, receiveCh, responseCh, closeCh, broadcastCh,
          reader, receiver, beat, verifier, notice, talker, messages>>

-----------------------------------------------------------------------------
(* A text message is talk audio, or one that is answered at once ("plain":   *)
(* an unknown type or no JSON) or not at all (a heartbeat).                 *)
Kinds == {"plain", "audio"}

Receipt  == [client : Client, kind : Kinds]
Response == [client : Client, alter : BOOLEAN]

TypeOK ==
  /\ clock \in 0 .. MaxTime
  /\ client \in [Client ->
       [id : Id, conn : {"none", "upgrading", "open", "closed", "failed"},
        closed : BOOLEAN, released : BOOLEAN, active : 0 .. MaxTime]]
  /\ cache \in [Id -> Client \cup {NoClient}]
  /\ receiveCh \in Seq(Receipt) /\ Len(receiveCh) <= ChanCap
  /\ responseCh \in Seq(Response) /\ Len(responseCh) <= ChanCap
  /\ closeCh \in Seq(Client) /\ Len(closeCh) <= ChanCap
  /\ broadcastCh \in 0 .. BroadcastCap
  /\ reader \in [Client -> {"none", "read", "plain", "audio", "close", "done"}]
  /\ receiver \in [pc : {"select", "refuse", "occupy", "busy", "free",
                         "respond", "close", "drop"},
                   client : Client \cup {NoClient}]
  /\ beat \in [pc : {"wait", "mark", "drop"}, client : Client \cup {NoClient}]
  /\ verifier \in [pc : {"wait", "expired", "mark", "drop"}, client : Client \cup {NoClient}]
  /\ notice \in [Client -> Nat]
  /\ talker \in Client \cup {NoClient}
  /\ messages \in 0 .. MaxMessages

Idle == [pc |-> "select", client |-> NoClient]
Wait == [pc |-> "wait", client |-> NoClient]

Init ==
  /\ clock = 0
  /\ client \in [Client -> [id : Id, conn : {"none"}, closed : {FALSE},
                            released : {FALSE}, active : {0}]]
  /\ cache = [i \in Id |-> NoClient]
  /\ receiveCh = <<>> /\ responseCh = <<>> /\ closeCh = <<>> /\ broadcastCh = 0
  /\ reader = [c \in Client |-> "none"]
  /\ receiver = Idle /\ beat = Wait /\ verifier = Wait
  /\ notice = [c \in Client |-> 0]
  /\ talker = NoClient
  /\ messages = 0

RoomOneMore(ch) == Len(ch) <= ChanCap                       \* mutant
HasRoom(ch) == Len(ch) < ChanCap
Listed(c) == cache[client[c].id] = c
Silent(c) == clock - client[c].active >= MaxLifetime

-----------------------------------------------------------------------------
(* Handler.Do: the client is indexed while the request is being upgraded.  *)

Login(c) ==
  /\ client[c].conn = "none" /\ \A d \in 1 .. c - 1 : client[d].conn # "none"
  /\ client' = [client EXCEPT ![c].conn = "upgrading", ![c].active = clock]
  /\ cache' = [cache EXCEPT ![client[c].id] = c]
  /\ UNCHANGED <<clock, channels, goroutines, rest>>

Upgrade(c) ==
  /\ client[c].conn = "upgrading"
  /\ \/ /\ client' = [client EXCEPT ![c].conn = "open"]
        /\ reader' = [reader EXCEPT ![c] = "read"]
     \/ /\ client' = [client EXCEPT ![c].conn = "failed"]
        /\ UNCHANGED reader
  /\ UNCHANGED <<clock, cache, channels, receiver, beat, verifier, rest>>

(* Proc.reader: a text message is delivered, everything else - a close      *)
(* frame, a broken connection, a binary message - asks for the closing.     *)
ReadText(c, kind) ==
  /\ reader[c] = "read" /\ client[c].conn = "open"
  /\ messages < MaxMessages
  /\ messages' = messages + 1
  /\ IF client[c].closed
     THEN /\ reader' = [reader EXCEPT ![c] = "done"]
          /\ UNCHANGED client
     ELSE /\ reader' = [reader EXCEPT ![c] = kind]
          /\ client' = [client EXCEPT ![c].active = clock]
  /\ UNCHANGED <<clock, cache, channels, receiver, beat, verifier, notice, talker>>

ReadError(c) ==
  /\ reader[c] = "read"
  /\ reader' = [reader EXCEPT ![c] = IF client[c].closed THEN "done" ELSE "close"]
  /\ UNCHANGED <<clock, connections, channels, receiver, beat, verifier, rest>>

Deliver(c) ==
  /\ reader[c] \in Kinds
  /\ HasRoom(receiveCh)
  /\ receiveCh' = Append(receiveCh, [client |-> c, kind |-> reader[c]])
  /\ reader' = [reader EXCEPT ![c] = "read"]
  /\ UNCHANGED <<clock, connections, responseCh, closeCh, broadcastCh,
                 receiver, beat, verifier, rest>>

AskClose(c) ==
  /\ reader[c] = "close"
  /\ HasRoom(closeCh)
  /\ closeCh' = Append(closeCh, c)
  /\ reader' = [reader EXCEPT ![c] = "done"]
  /\ UNCHANGED <<clock, connections, receiveCh, responseCh, broadcastCh,
                 receiver, beat, verifier, rest>>

-----------------------------------------------------------------------------
KeepEntry(c) ==                                             \* mutant
  /\ client' = [client EXCEPT ![c].released = TRUE,
                              ![c].conn = IF @ = "open" THEN "closed" ELSE @]
  /\ UNCHANGED cache
DropListed(c) ==                                            \* mutant
  IF client[c].released \/ ~Listed(c) THEN UNCHANGED connections
  ELSE /\ cache' = [cache EXCEPT ![client[c].id] = NoClient]
       /\ client' = [client EXCEPT ![c].released = TRUE,
                                   ![c].conn = IF @ = "open" THEN "closed" ELSE @]

(* Proc.closer, second half: the Once removes the entry of the client's id,  *)
(* whoever holds it, and closes the connection.  A client that is still      *)
(* upgrading has no connection: the Close panics and the goroutine restarts. *)
Drop(c) ==
  IF client[c].released THEN UNCHANGED connections
  ELSE /\ cache' = [cache EXCEPT ![client[c].id] = NoClient]
       /\ client' = [client EXCEPT ![c].released = TRUE,
                                   ![c].conn = IF @ = "open" THEN "closed" ELSE @]

(* clearUsageStatus gives the device back, to whomever it belonged.        *)
StillTaken == talker                                        \* mutant
GivenBack == NoClient

(* RGBSTalkAudioSendLogic.Do looks up who occupies the device ...          *)
Asked(c) == IF talker = NoClient THEN "occupy" ELSE IF talker = c THEN "busy" ELSE "refuse"

(* Proc.Receiver, one case of the select per action.  A message that is no  *)
(* JSON is answered at once, every other one is a sign of life.             *)
TakeMessage ==
  /\ receiver.pc = "select" /\ receiveCh # <<>>
  /\ receiveCh' = Tail(receiveCh)
  /\ LET c == Head(receiveCh).client
         kind == Head(receiveCh).kind
         respond == [pc |-> "respond", client |-> c]
     IN  \/ client[c].closed /\ UNCHANGED <<client, receiver>>
         \/ ~client[c].closed /\ kind = "plain" /\ receiver' = respond /\ UNCHANGED client
         \/ /\ ~client[c].closed
            /\ client' = [client EXCEPT ![c].active = clock]
            /\ receiver' \in IF kind = "plain" THEN {Idle, respond}
                                              ELSE {[pc |-> Asked(c), client |-> c]}
  /\ UNCHANGED <<clock, cache, responseCh, closeCh, broadcastCh,
                 reader, beat, verifier, notice, talker, messages>>

(* ... takes it when nobody does ...                                       *)
Occupy ==
  /\ receiver.pc = "occupy"
  /\ talker' = receiver.client
  /\ receiver' = [receiver EXCEPT !.pc = "busy"]
  /\ UNCHANGED <<clock, connections, channels, reader, beat, verifier, notice, messages>>

(* ... and occupancy 1 is broadcast; the talk session is missing, a          *)
(* goroutine is to tell the client; the deferred clear-up gives the device   *)
(* back ...                                                                  *)
SendBusy ==
  /\ receiver.pc = "busy"
  /\ broadcastCh < BroadcastCap
  /\ broadcastCh' = broadcastCh + 1
  /\ notice' = [notice EXCEPT ![receiver.client] = @ + 1]
  /\ talker' = GivenBack
  /\ receiver' = [receiver EXCEPT !.pc = "free"]
  /\ UNCHANGED <<clock, connections, receiveCh, responseCh, closeCh,
                 reader, beat, verifier, messages>>

(* ... and broadcasts occupancy 0, before the error is returned.           *)
SendFree ==
  /\ receiver.pc \in {"free", "refuse"}
  /\ broadcastCh < BroadcastCap
  /\ broadcastCh' = broadcastCh + 1
  /\ talker' = GivenBack
  /\ receiver' = [receiver EXCEPT !.pc = "respond"]
  /\ UNCHANGED <<clock, connections, receiveCh, responseCh, closeCh,
                 reader, beat, verifier, notice, messages>>

Respond ==
  /\ receiver.pc = "respond"
  /\ HasRoom(responseCh)
  /\ responseCh' = Append(responseCh, [client |-> receiver.client, alter |-> FALSE])
  /\ receiver' = Idle
  /\ UNCHANGED <<clock, connections, receiveCh, closeCh, broadcastCh,
                 reader, beat, verifier, rest>>

(* A response is written unless its client is closed; a failed write and    *)
(* AlterCall ask for the closing; without a connection the write panics.    *)
WriteResponse ==
  /\ receiver.pc = "select" /\ responseCh # <<>>
  /\ responseCh' = Tail(responseCh)
  /\ LET c == Head(responseCh).client
         toClose == [pc |-> "close", client |-> c]
     IN  IF client[c].closed \/ client[c].conn # "open" THEN UNCHANGED receiver
         ELSE \/ receiver' = IF Head(responseCh).alter THEN toClose ELSE Idle
              \/ receiver' = toClose
  /\ UNCHANGED <<clock, connections, receiveCh, closeCh, broadcastCh,
                 reader, beat, verifier, rest>>

SendClose ==
  /\ receiver.pc = "close"
  /\ HasRoom(closeCh)
  /\ closeCh' = Append(closeCh, receiver.client)
  /\ receiver' = Idle
  /\ UNCHANGED <<clock, connections, receiveCh, responseCh, broadcastCh,
                 reader, beat, verifier, rest>>

TakeBroadcast ==
  /\ receiver.pc = "select" /\ broadcastCh > 0
  /\ broadcastCh' = broadcastCh - 1
  /\ UNCHANGED <<clock, connections, receiveCh, responseCh, closeCh, goroutines, rest>>

TakeClose ==
  /\ receiver.pc = "select" /\ closeCh # <<>>
  /\ closeCh' = Tail(closeCh)
  /\ client' = [client EXCEPT ![Head(closeCh)].closed = TRUE]
  /\ receiver' = [pc |-> "drop", client |-> Head(closeCh)]
  /\ UNCHANGED <<clock, cache, receiveCh, responseCh, broadcastCh,
                 reader, beat, verifier, rest>>

ReceiverDrop ==
  /\ receiver.pc = "drop"
  /\ Drop(receiver.client)
  /\ receiver' = Idle
  /\ UNCHANGED <<clock, channels, reader, beat, verifier, rest>>

-----------------------------------------------------------------------------
(* Interval.heartbeat: every second, every client of the index.            *)
DueClosed(c) == client[c].closed                            \* mutant
Due(c) == client[c].closed \/ Silent(c)

BeatExamine(c) ==
  /\ beat.pc = "wait"
  /\ Listed(c)
  /\ Due(c)
  /\ beat' = [pc |-> "mark", client |-> c]
  /\ UNCHANGED <<clock, connections, channels, reader, receiver, verifier, rest>>

BeatNoMark ==                                               \* mutant
  /\ beat.pc = "mark"
  /\ beat' = [beat EXCEPT !.pc = "drop"]
  /\ UNCHANGED <<clock, connections, channels, reader, receiver, verifier, rest>>
BeatMark ==
  /\ beat.pc = "mark"
  /\ client' = [client EXCEPT ![beat.client].closed = TRUE]
  /\ beat' = [beat EXCEPT !.pc = "drop"]
  /\ UNCHANGED <<clock, cache, channels, reader, receiver, verifier, rest>>

BeatDrop ==
  /\ beat.pc = "drop"
  /\ Drop(beat.client)
  /\ beat' = Wait
  /\ UNCHANGED <<clock, channels, reader, receiver, verifier, rest>>

(* Interval.tokenVerify: a client with an expired token is to be told and   *)
(* then closed, through the receiver.                                       *)
VerifyExamine(c) ==
  /\ verifier.pc = "wait"
  /\ Listed(c)
  /\ \/ /\ client[c].closed
        /\ verifier' = [pc |-> "drop", client |-> c]
        /\ UNCHANGED messages
     \/ /\ ~client[c].closed
        /\ messages < MaxMessages /\ messages' = messages + 1
        /\ verifier' = [pc |-> "expired", client |-> c]
  /\ UNCHANGED <<clock, connections, channels, reader, receiver, beat, notice, talker>>

VerifySend ==
  /\ verifier.pc = "expired"
  /\ HasRoom(responseCh)
  /\ responseCh' = Append(responseCh, [client |-> verifier.client, alter |-> TRUE])
  /\ verifier' = Wait
  /\ UNCHANGED <<clock, connections, receiveCh, closeCh, broadcastCh,
                 reader, receiver, beat, rest>>

VerifyDrop ==
  /\ verifier.pc = "drop"
  /\ Drop(verifier.client)
  /\ verifier' = Wait
  /\ UNCHANGED <<clock, channels, reader, receiver, beat, rest>>

(* The goroutine that a talk audio message left behind.                    *)
Notify(c) ==
  /\ notice[c] > 0
  /\ HasRoom(responseCh)
  /\ responseCh' = Append(responseCh, [client |-> c, alter |-> FALSE])
  /\ notice' = [notice EXCEPT ![c] = @ - 1]
  /\ UNCHANGED <<clock, connections, receiveCh, closeCh, broadcastCh,
                 goroutines, talker, messages>>

Tick ==
  /\ clock < MaxTime
  /\ clock' = clock + 1
  /\ UNCHANGED <<connections, channels, goroutines, rest>>

-----------------------------------------------------------------------------
Receive ==
  \/ TakeMessage \/ Occupy \/ SendBusy \/ SendFree \/ Respond \/ WriteResponse
  \/ SendClose \/ TakeBroadcast \/ TakeClose \/ ReceiverDrop
Beat == BeatMark \/ BeatDrop \/ \E c \in Client : BeatExamine(c)
Verify == VerifySend \/ VerifyDrop

Next ==
  \/ \E c \in Client :
       \/ Login(c) \/ Upgrade(c) \/ ReadError(c) \/ Deliver(c) \/ AskClose(c)
       \/ VerifyExamine(c) \/ Notify(c)
       \/ \E kind \in Kinds : ReadText(c, kind)
  \/ Receive \/ Beat \/ Verify \/ Tick

Spec == Init /\ [][Next]_vars

(* The receiver and the loops run whenever they can take a step, and the    *)
(* tickers fire.  The properties need nothing of the other goroutines.      *)
Fairness == WF_vars(Receive) /\ WF_vars(Beat) /\ WF_vars(Tick)

FairSpec == Spec /\ Fairness
-----------------------------------------------------------------------------
(* What the hub keeps.                                                      *)

(* A connection whose close work was done is never supervised or addressed  *)
(* again: whoever of the three closers came first took it out of the index. *)
ReleasedNotListed == \A c \in Client : client[c].released => ~Listed(c)

(* An open connection escapes supervision only through a namesake: another  *)
(* connection of the same user took its entry over, or took the entry along *)
(* when it was closed.                                                      *)
UnlistedHadNamesake ==
  \A c \in Client :
    client[c].conn = "open" /\ ~client[c].closed /\ ~Listed(c)
      => \E o \in Client \ {c} : client[o].id = client[c].id /\ client[o].conn # "none"

(* A device is given back on every way out of the talk handler, however     *)
(* long its broadcasts wait and whatever becomes of the connections          *)
(* meanwhile: it is occupied only while the audio message of the client that *)
(* occupies it is handled, so that nobody finds it taken.                    *)
TalkFree ==
  /\ talker # NoClient => receiver = [pc |-> "busy", client |-> talker]
  /\ receiver.pc # "refuse"

(* A supervised client that is silent for MaxLifetime leaves the index or   *)
(* speaks again, even when the receiver is stuck for good.                  *)
SilentUnlisted == \A c \in Client : []<>(Listed(c) => ~Silent(c))

(* A client that is marked closed gets its close work done, by whichever of *)
(* receiver and heartbeat marked it, or by the token check.  Both marks are *)
(* for good, so this is closed ~> released for every client.                *)
ClosedIsReleased == []<>(\A c \in Client : client[c].closed => client[c].released)

-----------------------------------------------------------------------------
(* What the documents say and the code does not do.                        *)

(* "ReceiveMessageChan: ... if there is a WSResponse it is queued in          *)
(* ResponseMessageChan": a talk request that is being handled is answered.   *)
TalkAnswered == receiver.pc = "busy" ~> receiver.pc = "select"
=============================================================================
