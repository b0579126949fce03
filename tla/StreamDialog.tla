---------------------------- MODULE StreamDialog ----------------------------
(***************************************************************************)
(* Live streams of one GB28181 device: the HTTP invite handler with its    *)
(* per-stream guard, the INVITE pipeline of SendLogic, the stop handlers   *)
(* and the goroutines that send BYE.                                       *)
(*                                                                         *)
(* They share the guard InviteRequestState, the set PubStreamExistsState,  *)
(* AckRequestMap (the SIP context a BYE needs, by stream name and also by  *)
(* device ID) and the bounded channels SipSendVideoLiveInvite and          *)
(* SipSendBye.  The device and the media server (SMS) are the environment: *)
(* an INVITE the device accepts opens a dialog, numbered in order.         *)
(***************************************************************************)
EXTENDS Integers, Sequences, FiniteSets

CONSTANTS
  Stream,      \* stream names of the device
  DeviceKey,   \* its device ID, the other kind of key of AckRequestMap
  Handler,     \* goroutines that may run the HTTP invite handler at a time
  Inviter,     \* goroutines that may run VideoLiveInvite at a time, for a
               \* request or for a diagnosis
  Stopper,     \* goroutines that may run StopStream at a time
  Byer,        \* goroutines that may run bye at a time
  ChanCap,     \* capacity of the channels (100 in service_context.go)
  MaxInvites,  \* bound: HTTP invite requests that pass the guard, diagnoses
  MaxStops     \* bound: HTTP stop requests and media status notifications

ASSUME StreamAssumption ==
  /\ DeviceKey \notin Stream
  /\ ChanCap \in Nat \ {0}
  /\ MaxInvites \in Nat
  /\ MaxStops \in Nat

VARIABLES
  guard,      \* InviteRequestState
  exists,     \* PubStreamExistsState
  ackMap,     \* AckRequestMap: the number of the dialog, 0 for no entry
  inviteCh,   \* SipSendVideoLiveInvite
  byeCh,      \* SipSendBye
  handler,    \* the HTTP invite handlers
  inviter,    \* the goroutines of VideoLiveInvite
  stopper,    \* the goroutines of StopStream
  byer,       \* the goroutines of bye
  dialog,     \* the device's dialogs, in the order of their INVITEs
  sms,        \* the media server's receiving side of each stream
  ended,      \* on_pub_stop callbacks on their way
  invites,    \* HTTP invite requests and diagnoses so far
  stops,      \* stop requests and notifications so far
  stopAsked   \* history: streams a BYE was asked for

chanVars == <<inviteCh, byeCh>>
procVars == <<handler, inviter, stopper, byer>>
mediaVars == <<sms, ended>>
countVars == <<invites, stops>>
vars == <<guard, exists, ackMap, inviteCh, byeCh, handler, inviter, stopper, byer,
          dialog, sms, ended, invites, stops, stopAsked>>

-----------------------------------------------------------------------------
Key    == Stream \cup {DeviceKey}
Dialog == [stream : Stream, state : {"early", "live", "ended"}]

\* meant is history: the dialog the sender of the message has in mind, 0 for
\* none.  The code's message carries the key only.
ByeMsg == [key : Key, meant : Nat]

Idle    == [pc |-> "idle"]
Busy    == [pc : {"probe", "correct", "enqueue", "release"}, stream : Stream]
Inviting == [pc : {"rtp", "invite", "setDevice", "setStream", "ack", "ackRtp", "mark"},
             stream : Stream, dialog : Nat, diag : BOOLEAN]
Stopping == [pc : {"bye", "ms", "forget"}, stream : Stream,
             kind : {"http", "video", "notify"}]
Byeing  == [pc : {"get", "send", "remove"}, key : Key, meant : Nat, dialog : Nat]

\* Init: nothing streams and nobody is at work.
Init ==
  /\ guard = {} /\ exists = {}
  /\ ackMap = [k \in Key |-> 0]
  /\ inviteCh = <<>> /\ byeCh = <<>>
  /\ handler = [h \in Handler |-> Idle]
  /\ inviter = [i \in Inviter |-> Idle]
  /\ stopper = [p \in Stopper |-> Idle]
  /\ byer = [b \in Byer |-> Idle]
  /\ dialog = <<>>
  /\ sms = [s \in Stream |-> "none"] /\ ended = {}
  /\ invites = 0 /\ stops = 0
  /\ stopAsked = {}

RoomForOneMore(ch) == Len(ch) <= ChanCap                    \* mutant
Room(ch) == Len(ch) < ChanCap

-----------------------------------------------------------------------------
(* inviteLogic.Invite: under InviteRequestLock the stream is looked up in  *)
(* the guard and added to it; a stream under way is not invited again.     *)
Unguarded(s) == TRUE                                        \* mutant
Free(s) == s \notin guard

InviteBegin(h, s) ==
  /\ handler[h] = Idle
  /\ invites < MaxInvites
  /\ Free(s)
  /\ guard' = guard \cup {s}
  /\ invites' = invites + 1
  /\ handler' = [handler EXCEPT ![h] = [pc |-> "probe", stream |-> s]]
  /\ UNCHANGED <<exists, ackMap, chanVars, inviter, stopper, byer, dialog,
                 mediaVars, stops, stopAsked>>

HandlerGoto(h, pc) == handler' = [handler EXCEPT ![h].pc = pc]

(* The parameters, the device's registration, the rows and the media node  *)
(* are looked up, any of which may end the request; then the media server  *)
(* is asked for a publisher (an answer that does not come counts as none). *)
Probe(h) ==
  LET s == handler[h].stream
  IN /\ handler[h].pc = "probe"
     /\ \/ HandlerGoto(h, "release")
        \/ /\ s \in exists
           /\ HandlerGoto(h, "correct")
        \/ /\ s \notin exists
           /\ HandlerGoto(h, "enqueue")
     /\ UNCHANGED <<guard, exists, ackMap, chanVars, inviter, stopper, byer, dialog,
                    mediaVars, countVars, stopAsked>>

(* A stream that exists without publisher: the service's own stop request  *)
(* is posted without its required id and with a string for the list of     *)
(* names, so it is refused; the refusal is not an error of the call.       *)
Correct(h) ==
  /\ handler[h].pc = "correct"
  /\ HandlerGoto(h, "enqueue") \/ HandlerGoto(h, "release")
  /\ UNCHANGED <<guard, exists, ackMap, chanVars, inviter, stopper, byer, dialog,
                 mediaVars, countVars, stopAsked>>

Enqueue(h) ==
  /\ handler[h].pc = "enqueue"
  /\ Room(inviteCh)
  /\ inviteCh' = Append(inviteCh, handler[h].stream)
  /\ HandlerGoto(h, "release")
  /\ UNCHANGED <<guard, exists, ackMap, byeCh, inviter, stopper, byer, dialog,
                 mediaVars, countVars, stopAsked>>

(* defer InviteRequestState.Remove, on every return.                       *)
KeptOnReturn(s) == guard                                    \* mutant
GuardAfter(s) == guard \ {s}

Release(h) ==
  /\ handler[h].pc = "release"
  /\ guard' = GuardAfter(handler[h].stream)
  /\ handler' = [handler EXCEPT ![h] = Idle]
  /\ UNCHANGED <<exists, ackMap, chanVars, inviter, stopper, byer, dialog,
                 mediaVars, countVars, stopAsked>>

-----------------------------------------------------------------------------
(* SendLogic.DO: every invite message gets a goroutine.                    *)
DispatchInvite(i) ==
  /\ inviteCh # <<>>
  /\ inviter[i] = Idle
  /\ inviter' = [inviter EXCEPT ![i] =
       [pc |-> "rtp", stream |-> Head(inviteCh), dialog |-> 0, diag |-> FALSE]]
  /\ inviteCh' = Tail(inviteCh)
  /\ UNCHANGED <<guard, exists, ackMap, byeCh, handler, stopper, byer, dialog,
                 mediaVars, countVars, stopAsked>>

(* ChannelDiagnose.gb28181 runs the pipeline itself and asks no guard.      *)
Diagnose(i, s) ==
  /\ inviter[i] = Idle
  /\ invites < MaxInvites
  /\ invites' = invites + 1
  /\ inviter' = [inviter EXCEPT ![i] =
       [pc |-> "rtp", stream |-> s, dialog |-> 0, diag |-> TRUE]]
  /\ UNCHANGED <<guard, exists, ackMap, chanVars, handler, stopper, byer, dialog,
                 mediaVars, stops, stopAsked>>

InviterGoto(i, pc) == inviter' = [inviter EXCEPT ![i].pc = pc]
InviterEnds(i)     == inviter' = [inviter EXCEPT ![i] = Idle]

(* RTPPub: the media server opens the receiving side.                      *)
RtpPub(i) ==
  LET s == inviter[i].stream
  IN /\ inviter[i].pc = "rtp"
     /\ \/ /\ sms' = [sms EXCEPT ![s] = IF @ = "none" THEN "waiting" ELSE @]
           /\ InviterGoto(i, "invite")
        \/ InviterEnds(i) /\ UNCHANGED sms
     /\ UNCHANGED <<guard, exists, ackMap, chanVars, handler, stopper, byer, dialog,
                    ended, countVars, stopAsked>>

AskAgain(i)     == InviterGoto(i, "rtp")                    \* mutant
AfterRefusal(i) == InviterEnds(i)

(* The INVITE: accepted, refused (or lost), or accepted with the answer    *)
(* lost, which ends the pipeline but leaves the device with a dialog.      *)
SendInvite(i) ==
  LET s == inviter[i].stream
  IN /\ inviter[i].pc = "invite"
     /\ \/ /\ dialog' = Append(dialog, [stream |-> s, state |-> "early"])
           /\ \/ inviter' = [inviter EXCEPT
                   ![i].pc = "setDevice", ![i].dialog = Len(dialog) + 1]
              \/ InviterEnds(i)
        \/ AfterRefusal(i) /\ UNCHANGED dialog
     /\ UNCHANGED <<guard, exists, ackMap, chanVars, handler, stopper, byer,
                    mediaVars, countVars, stopAsked>>

(* The context is stored under the device ID ...                           *)
SetDeviceContext(i) ==
  /\ inviter[i].pc = "setDevice"
  /\ ackMap' = [ackMap EXCEPT ![DeviceKey] = inviter[i].dialog]
  /\ InviterGoto(i, "setStream")
  /\ UNCHANGED <<guard, exists, chanVars, handler, stopper, byer, dialog,
                 mediaVars, countVars, stopAsked>>

(* ... and under the stream name.                                          *)
DeviceContextOnly(s, n) == [ackMap EXCEPT ![DeviceKey] = n]  \* mutant
SharedContext(s, n) == [k \in Key |-> n]                    \* mutant
WithContext(s, n) == [ackMap EXCEPT ![s] = n]

SetStreamContext(i) ==
  /\ inviter[i].pc = "setStream"
  /\ ackMap' = WithContext(inviter[i].stream, inviter[i].dialog)
  /\ InviterGoto(i, "ack")
  /\ UNCHANGED <<guard, exists, chanVars, handler, stopper, byer, dialog,
                 mediaVars, countVars, stopAsked>>

(* stop(): the service's own stop handler is called, its answer ignored.   *)
StartStop(p, s, kind) ==
  /\ stopper[p] = Idle
  /\ stopper' = [stopper EXCEPT ![p] = [pc |-> "bye", stream |-> s, kind |-> kind]]

(* An answer whose SDP cannot be used stops the stream; otherwise the ACK  *)
(* is sent.  When it cannot be sent the pipeline ends without stop().      *)
Ack(i) ==
  LET n == inviter[i].dialog
  IN /\ inviter[i].pc = "ack"
     /\ \/ /\ \E p \in Stopper : StartStop(p, inviter[i].stream, "http")
           /\ InviterEnds(i)
           /\ UNCHANGED dialog
        \/ InviterEnds(i) /\ UNCHANGED <<dialog, stopper>>
        \/ /\ dialog' = [dialog EXCEPT ![n].state = IF @ = "early" THEN "live" ELSE @]
           /\ InviterGoto(i, "ackRtp")
           /\ UNCHANGED stopper
     /\ UNCHANGED <<guard, exists, ackMap, chanVars, handler, byer, mediaVars,
                    countVars, stopAsked>>

(* ACKRtpPub: the media server learns the device's address.                *)
AckRtp(i) ==
  /\ inviter[i].pc = "ackRtp"
  /\ \/ InviterGoto(i, "mark") /\ UNCHANGED stopper
     \/ /\ \E p \in Stopper : StartStop(p, inviter[i].stream, "http")
        /\ InviterEnds(i)
  /\ UNCHANGED <<guard, exists, ackMap, chanVars, handler, byer, dialog, mediaVars,
                 countVars, stopAsked>>

(* A diagnosis that got to the end stops the stream, whoever watches it.    *)
DiagnoseStops(i) ==
  IF inviter[i].diag
  THEN \E p \in Stopper : StartStop(p, inviter[i].stream, "http")
  ELSE UNCHANGED stopper

Mark(i) ==
  /\ inviter[i].pc = "mark"
  /\ exists' = exists \cup {inviter[i].stream}
  /\ DiagnoseStops(i)
  /\ InviterEnds(i)
  /\ UNCHANGED <<guard, ackMap, chanVars, handler, byer, dialog, mediaVars,
                 countVars, stopAsked>>

-----------------------------------------------------------------------------
(* A stop request within the bound.                                        *)
StopRequest(p, s, kind) ==
  /\ stops < MaxStops
  /\ stops' = stops + 1
  /\ StartStop(p, s, kind)
  /\ UNCHANGED <<guard, exists, ackMap, chanVars, handler, inviter, byer, dialog,
                 mediaVars, invites, stopAsked>>

(* stopStreamLogic.DO, /gbs/stop-stream-keepalive, with retry 0.           *)
StopKeepalive(p, s) == StopRequest(p, s, "http")

(* StreamStopLogic.DO, /video/stream/stop, for one stream of its list.     *)
StopVideo(p, s) == StopRequest(p, s, "video")

(* OnPubStopLogic.DO: the stream exists no more ...                        *)
Unmark(s) == exists' = exists \ {s}

(* ... and setStreamState starts a goroutine that stops it.                *)
PubStopped(p, s) ==
  /\ s \in ended
  /\ ended' = ended \ {s}
  /\ Unmark(s)
  /\ StartStop(p, s, "notify")
  /\ UNCHANGED <<guard, ackMap, chanVars, handler, inviter, byer, dialog, sms,
                 countVars, stopAsked>>

StopperEnds(p) == stopper' = [stopper EXCEPT ![p] = Idle]

(* StopStream: a device that is not registered, or whose row cannot be     *)
(* read, ends it; then the BYE is asked for.                               *)
StopQueue(p) ==
  LET s == stopper[p].stream
  IN /\ stopper[p].pc = "bye"
     /\ \/ /\ Room(byeCh)
           /\ byeCh' = Append(byeCh, [key |-> s, meant |-> ackMap[s]])
           /\ stopAsked' = stopAsked \cup {s}
           /\ stopper' = [stopper EXCEPT ![p].pc = "ms"]
        \/ StopperEnds(p) /\ UNCHANGED <<byeCh, stopAsked>>
     /\ UNCHANGED <<guard, exists, ackMap, inviteCh, handler, inviter, byer, dialog,
                    mediaVars, countVars>>

(* The media server is told to stop, which may fail.                       *)
StopMedia(p) ==
  LET s == stopper[p].stream
  IN /\ stopper[p].pc = "ms"
     /\ \/ /\ sms' = [sms EXCEPT ![s] = "none"]
           /\ ended' = IF sms[s] = "pub" THEN ended \cup {s} ELSE ended
           /\ IF stopper[p].kind = "video"
              THEN stopper' = [stopper EXCEPT ![p].pc = "forget"]
              ELSE StopperEnds(p)
        \/ StopperEnds(p) /\ UNCHANGED mediaVars
     /\ UNCHANGED <<guard, exists, ackMap, chanVars, handler, inviter, byer, dialog,
                    countVars, stopAsked>>

(* StreamStopLogic.DO removes the context itself once StopStream is done.  *)
StopForget(p) ==
  /\ stopper[p].pc = "forget"
  /\ ackMap' = [ackMap EXCEPT ![stopper[p].stream] = 0]
  /\ StopperEnds(p)
  /\ UNCHANGED <<guard, exists, chanVars, handler, inviter, byer, dialog, mediaVars,
                 countVars, stopAsked>>

(* MediaStatusLogic.DO: the device says in dialog n that the file is at    *)
(* its end; a BYE is asked for under the device's ID.                      *)
MediaStatus(n) ==
  /\ stops < MaxStops
  /\ dialog[n].state = "live"
  /\ ackMap[DeviceKey] # 0
  /\ Room(byeCh)
  /\ stops' = stops + 1
  /\ byeCh' = Append(byeCh, [key |-> DeviceKey, meant |-> n])
  /\ UNCHANGED <<guard, exists, ackMap, inviteCh, procVars, dialog, mediaVars,
                 invites, stopAsked>>

-----------------------------------------------------------------------------
(* SendLogic.bye in a goroutine of its own: the context is looked up ...   *)
DispatchBye(b) ==
  /\ byeCh # <<>>
  /\ byer[b] = Idle
  /\ byer' = [byer EXCEPT ![b] =
       [pc |-> "get", key |-> Head(byeCh).key, meant |-> Head(byeCh).meant, dialog |-> 0]]
  /\ byeCh' = Tail(byeCh)
  /\ UNCHANGED <<guard, exists, ackMap, inviteCh, handler, inviter, stopper, dialog,
                 mediaVars, countVars, stopAsked>>

ByeGet(b) ==
  LET n == ackMap[byer[b].key]
  IN /\ byer[b].pc = "get"
     /\ byer' = [byer EXCEPT ![b].pc = IF n = 0 THEN "remove" ELSE "send",
                             ![b].dialog = n]
     /\ UNCHANGED <<guard, exists, ackMap, chanVars, handler, inviter, stopper, dialog,
                    mediaVars, countVars, stopAsked>>

(* ... the BYE sent, which the device may not get ...                      *)
Ended(n) == [dialog EXCEPT ![n].state = "ended"]

ByeSend(b) ==
  /\ byer[b].pc = "send"
  /\ dialog' = Ended(byer[b].dialog) \/ dialog' = dialog
  /\ byer' = [byer EXCEPT ![b].pc = "remove"]
  /\ UNCHANGED <<guard, exists, ackMap, chanVars, handler, inviter, stopper,
                 mediaVars, countVars, stopAsked>>

(* ... and, deferred, the entry of the key removed, whatever it is by now. *)
RemovedIfEnded(b) ==                                        \* mutant
  IF \E n \in DOMAIN dialog : n = byer[b].dialog /\ dialog[n].state = "ended"
  THEN [ackMap EXCEPT ![byer[b].key] = 0] ELSE ackMap
Removed(b) == [ackMap EXCEPT ![byer[b].key] = 0]

ByeRemove(b) ==
  /\ byer[b].pc = "remove"
  /\ ackMap' = Removed(b)
  /\ byer' = [byer EXCEPT ![b] = Idle]
  /\ UNCHANGED <<guard, exists, chanVars, handler, inviter, stopper, dialog,
                 mediaVars, countVars, stopAsked>>

-----------------------------------------------------------------------------
(* The environment.  A device that gets no ACK gives its dialog up.        *)
GiveUp(n) ==
  /\ dialog[n].state = "early"
  /\ dialog' = Ended(n)
  /\ UNCHANGED <<guard, exists, ackMap, chanVars, procVars, mediaVars, countVars,
                 stopAsked>>

(* The media server receives the stream of a live dialog ...               *)
PubStarts(s) ==
  /\ sms[s] = "waiting"
  /\ \E n \in DOMAIN dialog : dialog[n] = [stream |-> s, state |-> "live"]
  /\ sms' = [sms EXCEPT ![s] = "pub"]
  /\ UNCHANGED <<guard, exists, ackMap, chanVars, procVars, dialog, ended, countVars,
                 stopAsked>>

(* ... until it stops by itself (nobody watches, the device is gone) ...   *)
PubEnds(s) ==
  /\ sms[s] = "pub"
  /\ sms' = [sms EXCEPT ![s] = "none"]
  /\ ended' = ended \cup {s}
  /\ UNCHANGED <<guard, exists, ackMap, chanVars, procVars, dialog, countVars,
                 stopAsked>>

(* ... or gives up waiting (timeout_ms), which it reports the same way.    *)
WaitTimeout(s) ==
  /\ sms[s] = "waiting"
  /\ sms' = [sms EXCEPT ![s] = "none"]
  /\ ended' = ended \cup {s}
  /\ UNCHANGED <<guard, exists, ackMap, chanVars, procVars, dialog, countVars,
                 stopAsked>>

-----------------------------------------------------------------------------
HandlerStep(h) == Probe(h) \/ Correct(h) \/ Enqueue(h) \/ Release(h)
InviterStep(i) ==
  \/ RtpPub(i) \/ SendInvite(i) \/ SetDeviceContext(i) \/ SetStreamContext(i)
  \/ Ack(i) \/ AckRtp(i) \/ Mark(i)
StopperStep(p) == StopQueue(p) \/ StopMedia(p) \/ StopForget(p)
ByerStep(b)    == ByeGet(b) \/ ByeSend(b) \/ ByeRemove(b)

Next ==
  \/ \E h \in Handler : HandlerStep(h) \/ \E s \in Stream : InviteBegin(h, s)
  \/ \E i \in Inviter : \/ DispatchInvite(i) \/ InviterStep(i)
                        \/ \E s \in Stream : Diagnose(i, s)
  \/ \E p \in Stopper : \/ StopperStep(p)
                        \/ \E s \in Stream : \/ PubStopped(p, s)
                                             \/ StopKeepalive(p, s)
                                             \/ StopVideo(p, s)
  \/ \E b \in Byer : DispatchBye(b) \/ ByerStep(b)
  \/ \E n \in DOMAIN dialog : MediaStatus(n) \/ GiveUp(n)
  \/ \E s \in Stream : PubStarts(s) \/ PubEnds(s) \/ WaitTimeout(s)

Spec == Init /\ [][Next]_vars

(* Goroutines that can run do, and SendLogic.DO keeps receiving.  Requests, *)
(* the device and the media server owe nothing.                            *)
Fairness ==
  /\ \A h \in Handler : WF_vars(HandlerStep(h))
  /\ \A i \in Inviter : WF_vars(InviterStep(i))
  /\ \A p \in Stopper : WF_vars(StopperStep(p))
  /\ \A b \in Byer : WF_vars(ByerStep(b))
  /\ WF_vars(\E i \in Inviter : DispatchInvite(i))
  /\ WF_vars(\E b \in Byer : DispatchBye(b))

FairSpec == Spec /\ Fairness

-----------------------------------------------------------------------------
(* Types of the variables; a dialog number in a context is that of a       *)
(* dialog the device has opened.                                           *)
Opened == 0..Len(dialog)
TypeOK ==
  /\ guard \subseteq Stream /\ exists \subseteq Stream
  /\ ackMap \in [Key -> Opened]
  /\ inviteCh \in Seq(Stream) /\ Len(inviteCh) <= ChanCap
  /\ byeCh \in Seq(ByeMsg) /\ Len(byeCh) <= ChanCap
  /\ handler \in [Handler -> {Idle} \cup Busy]
  /\ inviter \in [Inviter -> {Idle} \cup Inviting]
  /\ stopper \in [Stopper -> {Idle} \cup Stopping]
  /\ byer \in [Byer -> {Idle} \cup Byeing]
  /\ dialog \in Seq(Dialog)
  /\ sms \in [Stream -> {"none", "waiting", "pub"}]
  /\ ended \subseteq Stream
  /\ invites \in 0..MaxInvites /\ stops \in 0..MaxStops
  /\ stopAsked \subseteq Stream

(* The guard of a stream is taken exactly while one handler is at work on  *)
(* it: two clicks on the same channel never probe and enqueue side by      *)
(* side, and no return path leaves the guard behind.                       *)
At(s) == {h \in Handler : handler[h] # Idle /\ handler[h].stream = s}
GuardHeld ==
  \A s \in Stream :
    IF s \in guard THEN \E h \in Handler : At(s) = {h} ELSE At(s) = {}

(* A BYE asked for by stream name, and the playback control that uses the  *)
(* same entry, only ever concern a dialog of that stream, although several *)
(* pipelines of the device store contexts at the same time.                *)
ContextOfStream ==
  /\ \A s \in Stream : ackMap[s] # 0 => dialog[ackMap[s]].stream = s
  /\ \A b \in Byer : byer[b].pc \in {"send", "remove"} =>
       byer[b].dialog = 0 \/ byer[b].key = DeviceKey
         \/ dialog[byer[b].dialog].stream = byer[b].key

(* A dialog in which the device streams can still be ended: its context is *)
(* in the map unless somebody asked to stop the stream or another pipeline *)
(* of the stream got a dialog too (which store their contexts in any order)*)
LiveDialogKept ==
  \A n \in DOMAIN dialog : dialog[n].state = "live" =>
    LET s == dialog[n].stream IN
    \/ ackMap[s] = n
    \/ s \in stopAsked
    \/ \E m \in DOMAIN dialog : m # n /\ dialog[m].stream = s

(* No handler keeps a stream to itself: the guard is released although the *)
(* handler sends to a bounded channel while it holds it.                   *)
GuardReleased == \A s \in Stream : s \in guard ~> s \notin guard

(* A BYE that was asked for leaves no context behind, whether the device   *)
(* answers it or not.                                                      *)
StopClearsContext ==
  \A k \in Key : (\E j \in 1..Len(byeCh) : byeCh[j].key = k) ~> ackMap[k] = 0

(* A pipeline ends on every path, although its stop() goes through the     *)
(* service's own stop handler, which waits for room for the BYE.           *)
PipelineEnds == \A i \in Inviter : inviter[i] # Idle ~> inviter[i] = Idle

-----------------------------------------------------------------------------
(* What the documents say and the code does not do.                        *)

(* "Send a BYE to the device (if there is an ACK context)": a stop of a    *)
(* stream that has a context when the BYE is asked for does not lose it    *)
(* before the BYE goroutine looks it up while the device still streams.    *)
StopSendsBye ==
  [][\A b \in Byer :
       ByeGet(b) /\ byer[b].meant # 0 /\ dialog[byer[b].meant].state = "live"
         => byer'[b].dialog # 0]_vars
=============================================================================
