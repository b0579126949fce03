------------------------- MODULE StreamDialogProofs -------------------------
(* Theorems about StreamDialog for any number of streams and goroutines:    *)
(* types, the invite guard, the contexts.  All of them follow from one      *)
(* inductive invariant, Inv: types; Numbers, that every dialog number in    *)
(* use is that of a dialog of the right stream; and Asked, that what moves  *)
(* towards the removal of a context was asked for.                         *)
EXTENDS StreamDialog, TLAPS

(* The dialog numbers goroutines hold, and whose dialogs they are.          *)
WithDialog == {"setDevice", "setStream", "ack", "ackRtp", "mark"}
Numbers ==
  /\ \A i \in Inviter : inviter[i].pc \in WithDialog =>
       /\ inviter[i].dialog \in 1..Len(dialog)
       /\ dialog[inviter[i].dialog].stream = inviter[i].stream
  /\ \A b \in Byer : /\ byer[b].pc = "send" => byer[b].dialog \in 1..Len(dialog)
                     /\ byer[b].pc = "remove" => byer[b].dialog \in Opened

(* Whatever may remove the context of a stream was asked for.               *)
Asked ==
  /\ \A j \in 1..Len(byeCh) : byeCh[j].key \in Stream => byeCh[j].key \in stopAsked
  /\ \A b \in Byer : byer[b].pc \in {"get", "send", "remove"} =>
       byer[b].key = DeviceKey \/ byer[b].key \in stopAsked
  /\ \A p \in Stopper : stopper[p].pc \in {"ms", "forget"} => stopper[p].stream \in stopAsked

(* A dialog whose context was stored under its stream keeps it, unless the  *)
(* stream was asked to stop or has another dialog.                         *)
Kept(n) ==
  LET s == dialog[n].stream IN
  \/ ackMap[s] = n
  \/ s \in stopAsked
  \/ \E m \in DOMAIN dialog : m # n /\ dialog[m].stream = s

Stored ==
  /\ \A n \in 1..Len(dialog) : dialog[n].state = "live" => Kept(n)
  /\ \A i \in Inviter : inviter[i].pc \in {"ack", "ackRtp", "mark"} => Kept(inviter[i].dialog)

-----------------------------------------------------------------------------
(* Goroutines that are not idle, and what they may become.                  *)
LEMMA HandlerBusy ==
  ASSUME TypeOK, NEW h \in Handler, handler[h].pc # "idle"
  PROVE  handler[h] \in Busy
  BY DEF TypeOK, Idle
LEMMA InviterBusy ==
  ASSUME TypeOK, NEW i \in Inviter, inviter[i].pc # "idle"
  PROVE  inviter[i] \in Inviting
  BY DEF TypeOK, Idle
LEMMA StopperBusy ==
  ASSUME TypeOK, NEW p \in Stopper, stopper[p].pc # "idle"
  PROVE  stopper[p] \in Stopping
  BY DEF TypeOK, Idle
LEMMA ByerBusy ==
  ASSUME TypeOK, NEW b \in Byer, byer[b].pc # "idle"
  PROVE  byer[b] \in Byeing
  BY DEF TypeOK, Idle

LEMMA HandlerGoes ==
  ASSUME TypeOK, NEW h \in Handler, handler[h].pc # "idle",
         NEW pc \in {"probe", "correct", "enqueue", "release"}, HandlerGoto(h, pc)
  PROVE  handler' \in [Handler -> {Idle} \cup Busy]
<1>1. handler[h] \in Busy BY HandlerBusy
<1>2. [handler[h] EXCEPT !.pc = pc] \in Busy BY <1>1 DEF Busy
<1> QED BY <1>2 DEF TypeOK, HandlerGoto

LEMMA InviterGoes ==
  ASSUME TypeOK, NEW i \in Inviter, inviter[i].pc # "idle",
         NEW pc \in WithDialog \cup {"rtp", "invite"}, InviterGoto(i, pc)
  PROVE  inviter' \in [Inviter -> {Idle} \cup Inviting]
<1>1. inviter[i] \in Inviting BY InviterBusy
<1>2. [inviter[i] EXCEPT !.pc = pc] \in Inviting BY <1>1 DEF Inviting, WithDialog
<1> QED BY <1>2 DEF TypeOK, InviterGoto

LEMMA InviterStops ==
  ASSUME TypeOK, NEW i \in Inviter, InviterEnds(i)
  PROVE  inviter' \in [Inviter -> {Idle} \cup Inviting]
  BY DEF TypeOK, InviterEnds

LEMMA StopperStarts ==
  ASSUME TypeOK, NEW p \in Stopper, NEW s \in Stream,
         NEW kind \in {"http", "video", "notify"}, StartStop(p, s, kind)
  PROVE  stopper' \in [Stopper -> {Idle} \cup Stopping]
  BY DEF TypeOK, StartStop, Stopping

LEMMA StopperGoes ==
  ASSUME TypeOK, NEW p \in Stopper, stopper[p].pc # "idle", NEW pc \in {"bye", "ms", "forget"},
         stopper' = [stopper EXCEPT ![p].pc = pc]
  PROVE  stopper' \in [Stopper -> {Idle} \cup Stopping]
<1>1. stopper[p] \in Stopping BY StopperBusy
<1>2. [stopper[p] EXCEPT !.pc = pc] \in Stopping BY <1>1 DEF Stopping
<1> QED BY <1>2 DEF TypeOK

LEMMA StopperStops ==
  ASSUME TypeOK, NEW p \in Stopper, StopperEnds(p)
  PROVE  stopper' \in [Stopper -> {Idle} \cup Stopping]
  BY DEF TypeOK, StopperEnds

(* The numbers of dialogs.                                                 *)
LEMMA DialogNumbers ==
  ASSUME TypeOK
  PROVE  /\ Len(dialog) \in Nat /\ DOMAIN dialog = 1..Len(dialog)
         /\ 0 \in Opened /\ Opened \subseteq Nat
         /\ 1..Len(dialog) \subseteq Opened
  BY DEF TypeOK, Opened

LEMMA DeviceIsNoStream == DeviceKey \in Key /\ DeviceKey \notin Stream /\ Stream \subseteq Key
  BY StreamAssumption DEF Key

(* The sequence of dialogs when one is added or changes its state.          *)
LEMMA DialogAdded ==
  ASSUME TypeOK, NEW s \in Stream,
         NEW d, d = Append(dialog, [stream |-> s, state |-> "early"])
  PROVE  /\ d \in Seq(Dialog) /\ Len(d) = Len(dialog) + 1
         /\ d[Len(d)].stream = s /\ d[Len(d)].state = "early"
         /\ \A n \in 1..Len(dialog) : d[n] = dialog[n]
<1> DEFINE e == [stream |-> s, state |-> "early"]
<1>1. e \in Dialog BY DEF Dialog
<1>2. dialog \in Seq(Dialog) BY DEF TypeOK
<1>3. e.stream = s /\ e.state = "early" OBVIOUS
<1> HIDE DEF e
<1>4. /\ Append(dialog, e) \in Seq(Dialog) /\ Len(Append(dialog, e)) = Len(dialog) + 1
      /\ Append(dialog, e)[Len(dialog) + 1] = e
      /\ \A n \in 1..Len(dialog) : Append(dialog, e)[n] = dialog[n]
  BY <1>1, <1>2
<1> QED BY <1>3, <1>4 DEF e

Turned(n, x) == [dialog EXCEPT ![n].state = x]

LEMMA DialogTurned ==
  ASSUME TypeOK, NEW n \in 1..Len(dialog), NEW x \in {"early", "live", "ended"}
  PROVE  /\ Turned(n, x) \in Seq(Dialog) /\ Len(Turned(n, x)) = Len(dialog)
         /\ Turned(n, x)[n].state = x
         /\ \A m \in 1..Len(dialog) : /\ Turned(n, x)[m].stream = dialog[m].stream
                                      /\ m # n => Turned(n, x)[m] = dialog[m]
<1>1. dialog \in Seq(Dialog) BY DEF TypeOK
<1>2. dialog[n] \in Dialog BY <1>1
<1> DEFINE e == [dialog[n] EXCEPT !.state = x]
<1>3. e \in Dialog /\ e.state = x /\ e.stream = dialog[n].stream BY <1>2 DEF Dialog
<1>4. Turned(n, x) = [dialog EXCEPT ![n] = e] BY DEF Turned
<1> HIDE DEF e
<1>5. /\ Turned(n, x) \in Seq(Dialog) /\ Len(Turned(n, x)) = Len(dialog)
      /\ \A m \in 1..Len(dialog) : Turned(n, x)[m] = IF m = n THEN e ELSE dialog[m]
  BY <1>1, <1>3, <1>4
<1> QED BY <1>3, <1>4, <1>5

-----------------------------------------------------------------------------
(* Types.                                                                  *)
LEMMA InitTypes == Init => TypeOK
  BY StreamAssumption DEF Init, TypeOK, Opened, Key

LEMMA HandlerTypes ==
  ASSUME TypeOK, NEW h \in Handler, HandlerStep(h) \/ \E s \in Stream : InviteBegin(h, s)
  PROVE  TypeOK'
<1> USE DEF chanVars, procVars, mediaVars, countVars
<1>1. ASSUME NEW s \in Stream, InviteBegin(h, s) PROVE TypeOK'
  BY <1>1, StreamAssumption DEF InviteBegin, TypeOK, Busy, Opened
<1>2. CASE Probe(h)
  <2>1. handler' \in [Handler -> {Idle} \cup Busy] BY <1>2, HandlerGoes DEF Probe
  <2> QED BY <1>2, <2>1 DEF Probe, TypeOK, Opened
<1>3. CASE Correct(h)
  <2>1. handler' \in [Handler -> {Idle} \cup Busy] BY <1>3, HandlerGoes DEF Correct
  <2> QED BY <1>3, <2>1 DEF Correct, TypeOK, Opened
<1>4. CASE Enqueue(h)
  <2>1. handler' \in [Handler -> {Idle} \cup Busy] BY <1>4, HandlerGoes DEF Enqueue
  <2>2. handler[h].stream \in Stream BY <1>4, HandlerBusy DEF Enqueue, Busy
  <2>3. inviteCh' \in Seq(Stream) /\ Len(inviteCh') <= ChanCap
    BY <1>4, <2>2, StreamAssumption DEF Enqueue, Room, TypeOK
  <2> QED BY <1>4, <2>1, <2>3 DEF Enqueue, TypeOK, Opened
<1>5. CASE Release(h)
  BY <1>5 DEF Release, GuardAfter, TypeOK, Opened
<1> QED BY <1>1, <1>2, <1>3, <1>4, <1>5 DEF HandlerStep

LEMMA InviterTypes ==
  ASSUME TypeOK, Numbers, NEW i \in Inviter,
         DispatchInvite(i) \/ InviterStep(i) \/ \E s \in Stream : Diagnose(i, s)
  PROVE  TypeOK'
<1> USE DEF chanVars, procVars, mediaVars, countVars
<1>1. CASE DispatchInvite(i)
  <2>1. Head(inviteCh) \in Stream /\ Tail(inviteCh) \in Seq(Stream) /\ Len(Tail(inviteCh)) <= ChanCap
    BY <1>1, StreamAssumption DEF DispatchInvite, TypeOK
  <2>2. inviter' \in [Inviter -> {Idle} \cup Inviting]
    BY <1>1, <2>1 DEF DispatchInvite, TypeOK, Inviting
  <2> QED BY <1>1, <2>1, <2>2 DEF DispatchInvite, TypeOK, Opened
<1>2. ASSUME NEW s \in Stream, Diagnose(i, s) PROVE TypeOK'
  <2>1. inviter' \in [Inviter -> {Idle} \cup Inviting]
    BY <1>2 DEF Diagnose, TypeOK, Inviting
  <2>2. invites' \in 0..MaxInvites BY <1>2, StreamAssumption DEF Diagnose, TypeOK
  <2>3. UNCHANGED <<guard, exists, ackMap, inviteCh, byeCh, handler, stopper, byer, dialog,
                    sms, ended, stops, stopAsked>>
    BY <1>2 DEF Diagnose
  <2> QED BY <2>1, <2>2, <2>3 DEF TypeOK, Opened
<1>3. CASE RtpPub(i)
  <2>1. inviter' \in [Inviter -> {Idle} \cup Inviting]
    BY <1>3, InviterGoes, InviterStops DEF RtpPub
  <2>2. inviter[i].stream \in Stream BY <1>3, InviterBusy DEF RtpPub, Inviting
  <2>3. sms' \in [Stream -> {"none", "waiting", "pub"}] BY <1>3, <2>2 DEF RtpPub, TypeOK
  <2> QED BY <1>3, <2>1, <2>3 DEF RtpPub, TypeOK, Opened
<1>4. CASE SendInvite(i)
  <2>1. inviter[i] \in Inviting BY <1>4, InviterBusy DEF SendInvite
  <2>2. CASE InviterEnds(i) /\ UNCHANGED dialog
    BY <1>4, <2>2, InviterStops DEF SendInvite, TypeOK, Opened
  <2>3. CASE dialog' = Append(dialog, [stream |-> inviter[i].stream, state |-> "early"])
    <3>1. dialog' \in Seq(Dialog) /\ Len(dialog') = Len(dialog) + 1
      BY <2>1, <2>3, DialogAdded DEF Inviting
    <3>2. ackMap' \in [Key -> 0..Len(dialog')] BY <1>4, <3>1 DEF SendInvite, TypeOK, Opened
    <3>3. inviter' \in [Inviter -> {Idle} \cup Inviting]
      <4>1. CASE InviterEnds(i) BY <4>1, InviterStops
      <4>2. CASE inviter' = [inviter EXCEPT ![i].pc = "setDevice", ![i].dialog = Len(dialog) + 1]
        <5>1. [inviter[i] EXCEPT !.pc = "setDevice", !.dialog = Len(dialog) + 1] \in Inviting
          <6> DEFINE m == Len(dialog) + 1
          <6>1. m \in Nat BY DEF TypeOK
          <6> HIDE DEF m
          <6>2. [inviter[i] EXCEPT !.pc = "setDevice", !.dialog = m] \in Inviting
            BY <2>1, <6>1 DEF Inviting
          <6> QED BY <6>2 DEF m
        <5> QED BY <4>2, <5>1 DEF TypeOK
      <4> QED BY <1>4, <4>1, <4>2 DEF SendInvite, AfterRefusal
    <3> QED BY <1>4, <3>1, <3>2, <3>3 DEF SendInvite, TypeOK, Opened
  <2> QED BY <1>4, <2>2, <2>3 DEF SendInvite, AfterRefusal
<1>5. CASE SetDeviceContext(i)
  <2>1. inviter' \in [Inviter -> {Idle} \cup Inviting]
    BY <1>5, InviterGoes DEF SetDeviceContext, WithDialog
  <2>2. inviter[i].dialog \in Opened BY <1>5 DEF SetDeviceContext, Numbers, WithDialog, Opened
  <2> QED BY <1>5, <2>1, <2>2 DEF SetDeviceContext, TypeOK, Opened, Key
<1>6. CASE SetStreamContext(i)
  <2>1. inviter' \in [Inviter -> {Idle} \cup Inviting]
    BY <1>6, InviterGoes DEF SetStreamContext, WithDialog
  <2>2. inviter[i].dialog \in Opened BY <1>6 DEF SetStreamContext, Numbers, WithDialog, Opened
  <2> QED BY <1>6, <2>1, <2>2 DEF SetStreamContext, WithContext, TypeOK, Opened, Key
<1>7. CASE Ack(i)
  <2>1. inviter[i] \in Inviting BY <1>7, InviterBusy DEF Ack
  <2>2. inviter' \in [Inviter -> {Idle} \cup Inviting]
    BY <1>7, InviterGoes, InviterStops DEF Ack, WithDialog
  <2>3. stopper' \in [Stopper -> {Idle} \cup Stopping]
    BY <1>7, <2>1, StopperStarts DEF Ack, Inviting, TypeOK
  <2>4. dialog' \in Seq(Dialog) /\ Len(dialog') = Len(dialog)
    <3>1. CASE UNCHANGED dialog BY <3>1 DEF TypeOK
    <3>2. CASE dialog' = [dialog EXCEPT ![inviter[i].dialog].state = IF @ = "early" THEN "live" ELSE @]
      <4>1. inviter[i].dialog \in 1..Len(dialog) BY <1>7 DEF Ack, Numbers, WithDialog
      <4>2. dialog[inviter[i].dialog] \in Dialog BY <4>1 DEF TypeOK
      <4>3. dialog[inviter[i].dialog].state \in {"early", "live", "ended"} BY <4>2 DEF Dialog
      <4> DEFINE x == IF dialog[inviter[i].dialog].state = "early" THEN "live"
                      ELSE dialog[inviter[i].dialog].state
      <4>4. x \in {"early", "live", "ended"} BY <4>3
      <4>5. dialog' = Turned(inviter[i].dialog, x) BY <3>2 DEF Turned
      <4> HIDE DEF x
      <4> QED BY <4>1, <4>4, <4>5, DialogTurned
    <3> QED BY <1>7, <3>1, <3>2 DEF Ack
  <2> QED BY <1>7, <2>2, <2>3, <2>4 DEF Ack, TypeOK, Opened
<1>8. CASE AckRtp(i)
  <2>1. inviter[i] \in Inviting BY <1>8, InviterBusy DEF AckRtp
  <2>2. inviter' \in [Inviter -> {Idle} \cup Inviting]
    BY <1>8, InviterGoes, InviterStops DEF AckRtp, WithDialog
  <2>3. stopper' \in [Stopper -> {Idle} \cup Stopping]
    BY <1>8, <2>1, StopperStarts DEF AckRtp, Inviting, TypeOK
  <2> QED BY <1>8, <2>2, <2>3 DEF AckRtp, TypeOK, Opened
<1>9. CASE Mark(i)
  <2>1. inviter[i] \in Inviting BY <1>9, InviterBusy DEF Mark
  <2>2. inviter' \in [Inviter -> {Idle} \cup Inviting] BY <1>9, InviterStops DEF Mark
  <2>3. stopper' \in [Stopper -> {Idle} \cup Stopping]
    BY <1>9, <2>1, StopperStarts DEF Mark, DiagnoseStops, Inviting, TypeOK
  <2>4. exists' \subseteq Stream BY <1>9, <2>1 DEF Mark, Inviting, TypeOK
  <2> QED BY <1>9, <2>2, <2>3, <2>4 DEF Mark, TypeOK, Opened
<1> QED BY <1>1, <1>2, <1>3, <1>4, <1>5, <1>6, <1>7, <1>8, <1>9 DEF InviterStep

(* A message for the BYE channel.                                          *)
LEMMA ByeQueued ==
  ASSUME TypeOK, NEW k \in Key, NEW n \in Nat, Room(byeCh),
         byeCh' = Append(byeCh, [key |-> k, meant |-> n])
  PROVE  /\ byeCh' \in Seq(ByeMsg) /\ Len(byeCh') <= ChanCap
         /\ Len(byeCh') = Len(byeCh) + 1 /\ byeCh'[Len(byeCh')].key = k
         /\ \A j \in 1..Len(byeCh) : byeCh'[j] = byeCh[j]
<1> DEFINE e == [key |-> k, meant |-> n]
<1>1. e \in ByeMsg /\ e.key = k BY DEF ByeMsg
<1>2. byeCh \in Seq(ByeMsg) BY DEF TypeOK
<1> HIDE DEF e
<1>3. /\ Append(byeCh, e) \in Seq(ByeMsg) /\ Len(Append(byeCh, e)) = Len(byeCh) + 1
      /\ Append(byeCh, e)[Len(byeCh) + 1] = e
      /\ \A j \in 1..Len(byeCh) : Append(byeCh, e)[j] = byeCh[j]
  BY <1>1, <1>2
<1>4. byeCh' = Append(byeCh, e) BY DEF e
<1> QED BY <1>1, <1>2, <1>3, <1>4, StreamAssumption DEF Room

LEMMA StopperTypes ==
  ASSUME TypeOK, NEW p \in Stopper,
         \/ StopperStep(p)
         \/ \E s \in Stream : PubStopped(p, s) \/ StopKeepalive(p, s) \/ StopVideo(p, s)
  PROVE  TypeOK'
<1> USE DEF chanVars, procVars, mediaVars, countVars
<1>1. CASE StopQueue(p)
  <2>1. stopper[p] \in Stopping BY <1>1, StopperBusy DEF StopQueue
  <2>2. stopper' \in [Stopper -> {Idle} \cup Stopping]
    BY <1>1, StopperGoes, StopperStops DEF StopQueue
  <2>3. CASE StopperEnds(p) /\ UNCHANGED <<byeCh, stopAsked>>
    BY <1>1, <2>2, <2>3 DEF StopQueue, TypeOK, Opened
  <2>4. CASE /\ Room(byeCh) /\ stopAsked' = stopAsked \cup {stopper[p].stream}
             /\ byeCh' = Append(byeCh, [key |-> stopper[p].stream,
                                       meant |-> ackMap[stopper[p].stream]])
    <3>1. stopper[p].stream \in Stream BY <2>1 DEF Stopping
    <3>2. ackMap[stopper[p].stream] \in Nat BY <3>1 DEF TypeOK, Key, Opened
    <3>3. byeCh' \in Seq(ByeMsg) /\ Len(byeCh') <= ChanCap
      BY <2>4, <3>1, <3>2, ByeQueued DEF Key
    <3>4. stopAsked' \subseteq Stream BY <2>4, <3>1 DEF TypeOK
    <3> QED BY <1>1, <2>2, <3>3, <3>4 DEF StopQueue, TypeOK, Opened
  <2> QED BY <1>1, <2>3, <2>4 DEF StopQueue
<1>2. CASE StopMedia(p)
  <2>1. stopper[p] \in Stopping BY <1>2, StopperBusy DEF StopMedia
  <2>2. stopper' \in [Stopper -> {Idle} \cup Stopping]
    BY <1>2, StopperGoes, StopperStops DEF StopMedia
  <2>3. sms' \in [Stream -> {"none", "waiting", "pub"}] /\ ended' \subseteq Stream
    BY <1>2, <2>1 DEF StopMedia, TypeOK, Stopping
  <2> QED BY <1>2, <2>2, <2>3 DEF StopMedia, TypeOK, Opened
<1>3. CASE StopForget(p)
  <2>1. stopper' \in [Stopper -> {Idle} \cup Stopping] BY <1>3, StopperStops DEF StopForget
  <2>2. ackMap' \in [Key -> Opened] BY <1>3, DialogNumbers DEF StopForget, TypeOK
  <2> QED BY <1>3, <2>1, <2>2 DEF StopForget, TypeOK, Opened
<1>4. ASSUME NEW s \in Stream, PubStopped(p, s) PROVE TypeOK'
  <2>1. stopper' \in [Stopper -> {Idle} \cup Stopping]
    BY <1>4, StopperStarts DEF PubStopped
  <2> QED BY <1>4, <2>1 DEF PubStopped, Unmark, TypeOK, Opened
<1>5. ASSUME NEW s \in Stream, NEW kind \in {"http", "video", "notify"},
             StopRequest(p, s, kind)
      PROVE  TypeOK'
  <2>1. stopper' \in [Stopper -> {Idle} \cup Stopping]
    BY <1>5, StopperStarts DEF StopRequest
  <2> QED BY <1>5, <2>1, StreamAssumption DEF StopRequest, TypeOK, Opened
<1> QED
  BY <1>1, <1>2, <1>3, <1>4, <1>5 DEF StopperStep, StopKeepalive, StopVideo

LEMMA ByerTypes ==
  ASSUME TypeOK, Numbers, NEW b \in Byer, DispatchBye(b) \/ ByerStep(b)
  PROVE  TypeOK'
<1> USE DEF chanVars, procVars, mediaVars, countVars
<1>1. CASE DispatchBye(b)
  <2>1. Head(byeCh) \in ByeMsg /\ Tail(byeCh) \in Seq(ByeMsg) /\ Len(Tail(byeCh)) <= ChanCap
    BY <1>1, StreamAssumption DEF DispatchBye, TypeOK
  <2>2. byer' \in [Byer -> {Idle} \cup Byeing]
    BY <1>1, <2>1 DEF DispatchBye, TypeOK, Byeing, ByeMsg
  <2> QED BY <1>1, <2>1, <2>2 DEF DispatchBye, TypeOK, Opened
<1>2. CASE ByeGet(b)
  <2>1. byer[b] \in Byeing BY <1>2, ByerBusy DEF ByeGet
  <2>2. ackMap[byer[b].key] \in Nat BY <2>1 DEF Byeing, TypeOK, Opened
  <2>3. \A x \in {"send", "remove"}, n \in Nat :
          [byer[b] EXCEPT !.pc = x, !.dialog = n] \in Byeing
    BY <2>1 DEF Byeing
  <2>4. byer' \in [Byer -> {Idle} \cup Byeing] BY <1>2, <2>2, <2>3 DEF ByeGet, TypeOK
  <2> QED BY <1>2, <2>4 DEF ByeGet, TypeOK, Opened
<1>3. CASE ByeSend(b)
  <2>1. byer[b] \in Byeing BY <1>3, ByerBusy DEF ByeSend
  <2>2. [byer[b] EXCEPT !.pc = "remove"] \in Byeing BY <2>1 DEF Byeing
  <2>3. byer' \in [Byer -> {Idle} \cup Byeing] BY <1>3, <2>2 DEF ByeSend, TypeOK
  <2>4. byer[b].dialog \in 1..Len(dialog)
    <3>1. byer[b].pc = "send" BY <1>3 DEF ByeSend
    <3> QED BY <3>1 DEF Numbers
  <2>5. dialog' = Turned(byer[b].dialog, "ended") \/ dialog' = dialog
    BY <1>3 DEF ByeSend, Ended, Turned
  <2>6. dialog' \in Seq(Dialog) /\ Len(dialog') = Len(dialog)
    BY <2>4, <2>5, DialogTurned DEF TypeOK
  <2> QED BY <1>3, <2>3, <2>6 DEF ByeSend, TypeOK, Opened
<1>4. CASE ByeRemove(b)
  <2>1. ackMap' \in [Key -> Opened]
    BY <1>4, DialogNumbers DEF ByeRemove, Removed, TypeOK
  <2> QED BY <1>4, <2>1 DEF ByeRemove, TypeOK, Opened
<1> QED BY <1>1, <1>2, <1>3, <1>4 DEF ByerStep

(* The device and the media server.                                        *)
Environment ==
  \/ \E n \in DOMAIN dialog : MediaStatus(n) \/ GiveUp(n)
  \/ \E s \in Stream : PubStarts(s) \/ PubEnds(s) \/ WaitTimeout(s)

LEMMA EnvironmentTypes ==
  ASSUME TypeOK, Environment
  PROVE  TypeOK'
<1> USE DEF chanVars, procVars, mediaVars, countVars
<1>0. DOMAIN dialog = 1..Len(dialog) BY DEF TypeOK
<1>1. ASSUME NEW n \in 1..Len(dialog), MediaStatus(n) PROVE TypeOK'
  <2>1. byeCh' \in Seq(ByeMsg) /\ Len(byeCh') <= ChanCap
    <3>1. n \in Nat BY DialogNumbers
    <3>2. Room(byeCh) /\ byeCh' = Append(byeCh, [key |-> DeviceKey, meant |-> n])
      BY <1>1 DEF MediaStatus
    <3> QED BY <3>1, <3>2, ByeQueued, DeviceIsNoStream
  <2> QED BY <1>1, <2>1, StreamAssumption DEF MediaStatus, TypeOK, Opened
<1>2. ASSUME NEW n \in 1..Len(dialog), GiveUp(n) PROVE TypeOK'
  <2>1. dialog' = Turned(n, "ended") BY <1>2 DEF GiveUp, Ended, Turned
  <2>2. dialog' \in Seq(Dialog) /\ Len(dialog') = Len(dialog)
    BY <2>1, DialogTurned
  <2> QED BY <1>2, <2>2 DEF GiveUp, TypeOK, Opened
<1>3. ASSUME NEW s \in Stream, PubStarts(s) \/ PubEnds(s) \/ WaitTimeout(s) PROVE TypeOK'
  BY <1>3 DEF PubStarts, PubEnds, WaitTimeout, TypeOK, Opened
<1> QED BY <1>0, <1>1, <1>2, <1>3 DEF Environment

(* The steps of Next, by who takes them.                                    *)
LEMMA NextSplit ==
  ASSUME Next
  PROVE  \/ \E h \in Handler : HandlerStep(h) \/ \E s \in Stream : InviteBegin(h, s)
         \/ \E i \in Inviter : DispatchInvite(i) \/ InviterStep(i) \/ \E s \in Stream : Diagnose(i, s)
         \/ \E p \in Stopper :
              \/ StopperStep(p)
              \/ \E s \in Stream : PubStopped(p, s) \/ StopKeepalive(p, s) \/ StopVideo(p, s)
         \/ \E b \in Byer : DispatchBye(b) \/ ByerStep(b)
         \/ Environment
  BY DEF Next, Environment

LEMMA NextTypes ==
  ASSUME TypeOK, Numbers, [Next]_vars
  PROVE  TypeOK'
<1>1. CASE Next
  BY <1>1, NextSplit, HandlerTypes, InviterTypes, StopperTypes, ByerTypes, EnvironmentTypes
<1>2. CASE UNCHANGED vars
  BY <1>2 DEF vars, TypeOK, Opened
<1> QED BY <1>1, <1>2

-----------------------------------------------------------------------------
(* Dialogs are only added, and keep their streams.                          *)
Grown ==
  /\ Len(dialog') \in Nat /\ Len(dialog') >= Len(dialog)
  /\ \A n \in 1..Len(dialog) : dialog'[n].stream = dialog[n].stream

LEMMA TurnedGrown ==
  ASSUME TypeOK, NEW n \in 1..Len(dialog), NEW x \in {"early", "live", "ended"},
         dialog' = Turned(n, x)
  PROVE  Grown
<1> DEFINE t == Turned(n, x)
<1>1. Len(t) = Len(dialog) /\ \A m \in 1..Len(dialog) : t[m].stream = dialog[m].stream
  BY DialogTurned
<1>2. Len(dialog) \in Nat /\ dialog' = t BY DialogNumbers
<1> HIDE DEF t
<1> QED BY <1>1, <1>2 DEF Grown

LEMMA InviterGrown ==
  ASSUME TypeOK, Numbers, NEW i \in Inviter, InviterStep(i)
  PROVE  Grown
<1>1. CASE UNCHANGED dialog BY <1>1, DialogNumbers DEF Grown
<1>2. CASE SendInvite(i) /\ ~UNCHANGED dialog
  <2>1. inviter[i].stream \in Stream BY <1>2, InviterBusy DEF SendInvite, Inviting
  <2>2. dialog' = Append(dialog, [stream |-> inviter[i].stream, state |-> "early"])
    BY <1>2 DEF SendInvite
  <2>3. /\ Len(dialog') = Len(dialog) + 1
        /\ \A n \in 1..Len(dialog) : dialog'[n] = dialog[n]
    BY <2>1, <2>2, DialogAdded
  <2> QED BY <2>3, DialogNumbers DEF Grown
<1>3. CASE Ack(i) /\ ~UNCHANGED dialog
  <2>1. inviter[i].dialog \in 1..Len(dialog) BY <1>3 DEF Ack, Numbers, WithDialog
  <2>2. PICK x \in {"early", "live", "ended"} : dialog' = Turned(inviter[i].dialog, x)
    <3> DEFINE x == IF dialog[inviter[i].dialog].state = "early" THEN "live"
                    ELSE dialog[inviter[i].dialog].state
    <3>1. dialog[inviter[i].dialog] \in Dialog BY <2>1 DEF TypeOK
    <3>2. x \in {"early", "live", "ended"} BY <3>1 DEF Dialog
    <3>3. dialog' = Turned(inviter[i].dialog, x) BY <1>3 DEF Ack, Turned
    <3> QED BY <3>2, <3>3
  <2> QED BY <2>1, <2>2, TurnedGrown
<1>4. SendInvite(i) \/ Ack(i) \/ UNCHANGED dialog
  BY DEF InviterStep, RtpPub, SetDeviceContext, SetStreamContext, AckRtp, Mark
<1> QED BY <1>1, <1>2, <1>3, <1>4

LEMMA ByerGrown ==
  ASSUME TypeOK, Numbers, NEW b \in Byer, ByerStep(b)
  PROVE  Grown
<1>1. CASE UNCHANGED dialog BY <1>1, DialogNumbers DEF Grown
<1>2. CASE ByeSend(b) /\ ~UNCHANGED dialog
  <2>1. byer[b].pc = "send" BY <1>2 DEF ByeSend
  <2>2. byer[b].dialog \in 1..Len(dialog) BY <2>1 DEF Numbers
  <2>3. dialog' = Turned(byer[b].dialog, "ended") BY <1>2 DEF ByeSend, Ended, Turned
  <2> QED BY <2>2, <2>3, TurnedGrown
<1>3. ByeSend(b) \/ UNCHANGED dialog BY DEF ByerStep, ByeGet, ByeRemove
<1> QED BY <1>1, <1>2, <1>3

LEMMA EnvironmentGrown ==
  ASSUME TypeOK, Environment
  PROVE  Grown
<1>1. CASE UNCHANGED dialog BY <1>1, DialogNumbers DEF Grown
<1>2. ASSUME NEW n \in 1..Len(dialog), GiveUp(n) PROVE Grown
  <2>1. dialog' = Turned(n, "ended") BY <1>2 DEF GiveUp, Ended, Turned
  <2> QED BY <2>1, TurnedGrown
<1>3. (\E n \in 1..Len(dialog) : GiveUp(n)) \/ UNCHANGED dialog
  BY DialogNumbers DEF Environment, MediaStatus, PubStarts, PubEnds, WaitTimeout
<1> QED BY <1>1, <1>2, <1>3

LEMMA NextGrown ==
  ASSUME TypeOK, Numbers, [Next]_vars
  PROVE  Grown
<1>1. CASE UNCHANGED dialog BY <1>1, DialogNumbers DEF Grown
<1>2. ASSUME NEW i \in Inviter, InviterStep(i) PROVE Grown BY <1>2, InviterGrown
<1>3. ASSUME NEW b \in Byer, ByerStep(b) PROVE Grown BY <1>3, ByerGrown
<1>4. CASE Environment BY <1>4, EnvironmentGrown
<1>5. ASSUME NEW h \in Handler, HandlerStep(h) \/ \E s \in Stream : InviteBegin(h, s)
      PROVE UNCHANGED dialog
  BY <1>5 DEF HandlerStep, InviteBegin, Probe, Correct, Enqueue, Release
<1>6. ASSUME NEW i \in Inviter, DispatchInvite(i) \/ \E s \in Stream : Diagnose(i, s)
      PROVE UNCHANGED dialog
  BY <1>6 DEF DispatchInvite, Diagnose
<1>7. ASSUME NEW p \in Stopper,
             \/ StopperStep(p)
             \/ \E s \in Stream : PubStopped(p, s) \/ StopKeepalive(p, s) \/ StopVideo(p, s)
      PROVE UNCHANGED dialog
  BY <1>7 DEF StopperStep, StopQueue, StopMedia, StopForget, PubStopped, StopKeepalive,
              StopVideo, StopRequest
<1>8. ASSUME NEW b \in Byer, DispatchBye(b) PROVE UNCHANGED dialog BY <1>8 DEF DispatchBye
<1>9. CASE UNCHANGED vars BY <1>1, <1>9 DEF vars
<1> QED BY <1>1, <1>2, <1>3, <1>4, <1>5, <1>6, <1>7, <1>8, <1>9, NextSplit

-----------------------------------------------------------------------------
(* Numbers.  A goroutine that works on a dialog goes on with it or has      *)
(* learned its number in this step.                                        *)
InviterKeeps(i) ==
  inviter'[i].pc \in WithDialog =>
    \/ /\ inviter[i].pc \in WithDialog
       /\ inviter'[i].dialog = inviter[i].dialog /\ inviter'[i].stream = inviter[i].stream
    \/ /\ inviter'[i].dialog \in 1..Len(dialog')
       /\ dialog'[inviter'[i].dialog].stream = inviter'[i].stream

ByerKeeps(b) ==
  /\ byer'[b].pc = "send" => \/ byer[b].pc = "send" /\ byer'[b].dialog = byer[b].dialog
                             \/ byer'[b].dialog \in 1..Len(dialog)
  /\ byer'[b].pc = "remove" =>
       \/ byer[b].pc \in {"send", "remove"} /\ byer'[b].dialog = byer[b].dialog
       \/ byer'[b].dialog \in Opened

LEMMA NumbersKept ==
  ASSUME TypeOK, Numbers, Grown,
         \A i \in Inviter : InviterKeeps(i), \A b \in Byer : ByerKeeps(b)
  PROVE  Numbers'
<1>1. 1..Len(dialog) \subseteq 1..Len(dialog') BY DialogNumbers DEF Grown
<1>2. Opened \subseteq Opened' BY DialogNumbers DEF Grown, Opened
<1>3. ASSUME NEW i \in Inviter, inviter'[i].pc \in WithDialog
      PROVE  /\ inviter'[i].dialog \in 1..Len(dialog')
             /\ dialog'[inviter'[i].dialog].stream = inviter'[i].stream
  BY <1>1, <1>3 DEF InviterKeeps, Numbers, Grown
<1>4. ASSUME NEW b \in Byer
      PROVE  /\ byer'[b].pc = "send" => byer'[b].dialog \in 1..Len(dialog')
             /\ byer'[b].pc = "remove" => byer'[b].dialog \in Opened'
  <2>1. 1..Len(dialog) \subseteq Opened BY DialogNumbers
  <2> QED BY <1>1, <1>2, <2>1 DEF ByerKeeps, Numbers
<1> QED BY <1>3, <1>4 DEF Numbers

LEMMA InviterNumbers ==
  ASSUME TypeOK, Numbers, NEW i \in Inviter,
         DispatchInvite(i) \/ InviterStep(i) \/ \E s \in Stream : Diagnose(i, s)
  PROVE  \A j \in Inviter : InviterKeeps(j)
<1> SUFFICES ASSUME NEW j \in Inviter PROVE InviterKeeps(j) OBVIOUS
<1>0. inviter \in [Inviter -> {Idle} \cup Inviting] BY DEF TypeOK
<1>1. CASE j # i
  <2>1. inviter'[j] = inviter[j]
    BY <1>0, <1>1 DEF DispatchInvite, InviterStep, Diagnose, RtpPub, SendInvite, SetDeviceContext,
       SetStreamContext, Ack, AckRtp, Mark, AfterRefusal, InviterGoto, InviterEnds
  <2> QED BY <2>1 DEF InviterKeeps
<1>2. CASE j = i
  <2>1. CASE inviter' = [inviter EXCEPT ![i] = Idle]
    BY <1>0, <1>2, <2>1 DEF InviterKeeps, WithDialog, Idle
  <2>2. CASE DispatchInvite(i) \/ \E s \in Stream : Diagnose(i, s)
    BY <1>0, <1>2, <2>2 DEF DispatchInvite, Diagnose, InviterKeeps, WithDialog
  <2>3. CASE RtpPub(i) /\ InviterGoto(i, "invite")
    BY <1>0, <1>2, <2>3 DEF InviterGoto, InviterKeeps, WithDialog
  <2>4. CASE SendInvite(i) /\ ~InviterEnds(i)
    <3>1. inviter[i] \in Inviting BY <2>4, InviterBusy DEF SendInvite
    <3>2. inviter[i].stream \in Stream BY <3>1 DEF Inviting
    <3>3. dialog' = Append(dialog, [stream |-> inviter[i].stream, state |-> "early"])
      BY <2>4 DEF SendInvite, AfterRefusal
    <3>4. Len(dialog') = Len(dialog) + 1 /\ dialog'[Len(dialog')].stream = inviter[i].stream
      BY <3>2, <3>3, DialogAdded
    <3>5. inviter' = [inviter EXCEPT ![i] =
                        [inviter[i] EXCEPT !.pc = "setDevice", !.dialog = Len(dialog) + 1]]
      BY <2>4 DEF SendInvite, AfterRefusal
    <3>6. inviter'[i].dialog = Len(dialog) + 1 /\ inviter'[i].stream = inviter[i].stream
      BY <1>0, <3>1, <3>5 DEF Inviting
    <3> QED BY <1>2, <3>4, <3>6, DialogNumbers DEF InviterKeeps
  <2>5. ASSUME inviter[i].pc \in WithDialog, NEW pc \in WithDialog, InviterGoto(i, pc)
        PROVE  InviterKeeps(i)
    <3>1. inviter'[i] = [inviter[i] EXCEPT !.pc = pc] BY <1>0, <2>5 DEF InviterGoto
    <3>2. inviter[i] \in Inviting BY <2>5, InviterBusy DEF WithDialog
    <3>3. inviter'[i].dialog = inviter[i].dialog /\ inviter'[i].stream = inviter[i].stream
      BY <3>1, <3>2 DEF Inviting
    <3> QED BY <2>5, <3>3 DEF InviterKeeps
  <2> QED
    BY <1>2, <2>1, <2>2, <2>3, <2>4, <2>5
    DEF InviterStep, RtpPub, SendInvite, SetDeviceContext, SetStreamContext, Ack, AckRtp, Mark,
        AfterRefusal, InviterEnds, WithDialog
<1> QED BY <1>1, <1>2

LEMMA ByerNumbers ==
  ASSUME TypeOK, Numbers, NEW b \in Byer, DispatchBye(b) \/ ByerStep(b)
  PROVE  \A c \in Byer : ByerKeeps(c)
<1> SUFFICES ASSUME NEW c \in Byer PROVE ByerKeeps(c) OBVIOUS
<1>0. byer \in [Byer -> {Idle} \cup Byeing] BY DEF TypeOK
<1>1. CASE c # b
  <2>1. byer'[c] = byer[c]
    BY <1>0, <1>1 DEF DispatchBye, ByerStep, ByeGet, ByeSend, ByeRemove
  <2> QED BY <2>1 DEF ByerKeeps
<1>2. CASE c = b
  <2>1. CASE DispatchBye(b) BY <1>0, <1>2, <2>1 DEF DispatchBye, ByerKeeps
  <2>2. CASE ByeGet(b)
    <3>1. byer[b] \in Byeing BY <2>2, ByerBusy DEF ByeGet
    <3>2. ackMap[byer[b].key] \in Opened BY <3>1 DEF Byeing, TypeOK
    <3>3. byer'[b] = [byer[b] EXCEPT
            !.pc = IF ackMap[byer[b].key] = 0 THEN "remove" ELSE "send",
            !.dialog = ackMap[byer[b].key]]
      BY <1>0, <2>2 DEF ByeGet
    <3>4. /\ byer'[b].dialog = ackMap[byer[b].key]
          /\ byer'[b].pc = IF ackMap[byer[b].key] = 0 THEN "remove" ELSE "send"
      BY <3>1, <3>3 DEF Byeing
    <3> QED BY <1>2, <3>2, <3>4, DialogNumbers DEF ByerKeeps, Opened
  <2>3. CASE ByeSend(b)
    <3>1. byer[b] \in Byeing BY <2>3, ByerBusy DEF ByeSend
    <3>2. byer'[b] = [byer[b] EXCEPT !.pc = "remove"] BY <1>0, <2>3 DEF ByeSend
    <3>3. byer'[b].pc = "remove" /\ byer'[b].dialog = byer[b].dialog
      BY <3>1, <3>2 DEF Byeing
    <3> QED BY <1>2, <2>3, <3>3 DEF ByeSend, ByerKeeps
  <2>4. CASE ByeRemove(b)
    BY <1>0, <1>2, <2>4 DEF ByeRemove, ByerKeeps, Idle
  <2> QED BY <2>1, <2>2, <2>3, <2>4 DEF ByerStep
<1> QED BY <1>1, <1>2

LEMMA OthersKeep ==
  /\ UNCHANGED inviter => \A i \in Inviter : InviterKeeps(i)
  /\ UNCHANGED byer => \A b \in Byer : ByerKeeps(b)
  BY DEF InviterKeeps, ByerKeeps

LEMMA NextNumbers ==
  ASSUME TypeOK, Numbers, [Next]_vars
  PROVE  Numbers'
<1> SUFFICES /\ \A i \in Inviter : InviterKeeps(i)
             /\ \A b \in Byer : ByerKeeps(b)
  BY NextGrown, NumbersKept
<1> USE DEF chanVars, procVars, mediaVars, countVars
<1>1. ASSUME NEW h \in Handler, HandlerStep(h) \/ \E s \in Stream : InviteBegin(h, s)
      PROVE  UNCHANGED <<inviter, byer>>
  BY <1>1 DEF HandlerStep, InviteBegin, Probe, Correct, Enqueue, Release
<1>2. ASSUME NEW i \in Inviter,
             DispatchInvite(i) \/ InviterStep(i) \/ \E s \in Stream : Diagnose(i, s)
      PROVE  UNCHANGED byer
  BY <1>2 DEF DispatchInvite, InviterStep, Diagnose, RtpPub, SendInvite, SetDeviceContext,
       SetStreamContext, Ack, AckRtp, Mark
<1>3. ASSUME NEW p \in Stopper,
             \/ StopperStep(p)
             \/ \E s \in Stream : PubStopped(p, s) \/ StopKeepalive(p, s) \/ StopVideo(p, s)
      PROVE  UNCHANGED <<inviter, byer>>
  BY <1>3 DEF StopperStep, StopQueue, StopMedia, StopForget, PubStopped, StopKeepalive,
              StopVideo, StopRequest
<1>4. ASSUME NEW b \in Byer, DispatchBye(b) \/ ByerStep(b) PROVE UNCHANGED inviter
  BY <1>4 DEF DispatchBye, ByerStep, ByeGet, ByeSend, ByeRemove
<1>5. CASE Environment
  <2>1. UNCHANGED <<inviter, byer>>
    BY <1>5 DEF Environment, MediaStatus, GiveUp, PubStarts, PubEnds, WaitTimeout
  <2> QED BY <2>1, OthersKeep
<1>6. CASE UNCHANGED vars BY <1>6, OthersKeep DEF vars
<1> QED
  BY <1>1, <1>2, <1>3, <1>4, <1>5, <1>6, NextSplit, OthersKeep, InviterNumbers, ByerNumbers

-----------------------------------------------------------------------------
(* Asked.  A BYE goroutine takes the key of a message, a stopper has put    *)
(* its stream down before it goes on.                                      *)
ByerAsked(b) ==
  byer'[b].pc \in {"get", "send", "remove"} =>
    \/ byer[b].pc \in {"get", "send", "remove"} /\ byer'[b].key = byer[b].key
    \/ byer'[b].key = DeviceKey \/ byer'[b].key \in stopAsked

StopperAsked(p) ==
  stopper'[p].pc \in {"ms", "forget"} =>
    \/ stopper[p].pc \in {"ms", "forget"} /\ stopper'[p].stream = stopper[p].stream
    \/ stopper'[p].stream \in stopAsked'

MessageAsked(j) ==
  byeCh'[j].key \in Stream => byeCh'[j].key \in stopAsked'

LEMMA AskedKept ==
  ASSUME Asked, stopAsked \subseteq stopAsked',
         \A b \in Byer : ByerAsked(b), \A p \in Stopper : StopperAsked(p),
         \A j \in 1..Len(byeCh') : MessageAsked(j)
  PROVE  Asked'
<1>1. ASSUME NEW b \in Byer, byer'[b].pc \in {"get", "send", "remove"}
      PROVE  byer'[b].key = DeviceKey \/ byer'[b].key \in stopAsked'
  BY <1>1 DEF ByerAsked, Asked
<1>2. ASSUME NEW p \in Stopper, stopper'[p].pc \in {"ms", "forget"}
      PROVE  stopper'[p].stream \in stopAsked'
  BY <1>2 DEF StopperAsked, Asked
<1>3. \A j \in 1..Len(byeCh') : byeCh'[j].key \in Stream => byeCh'[j].key \in stopAsked'
  BY DEF MessageAsked
<1> QED BY <1>1, <1>2, <1>3 DEF Asked

LEMMA UnchangedAsked ==
  ASSUME Asked, stopAsked \subseteq stopAsked'
  PROVE  /\ UNCHANGED byer => \A b \in Byer : ByerAsked(b)
         /\ UNCHANGED stopper => \A p \in Stopper : StopperAsked(p)
         /\ UNCHANGED byeCh => \A j \in 1..Len(byeCh') : MessageAsked(j)
  BY DEF ByerAsked, StopperAsked, MessageAsked, Asked

(* Starting a stop puts nothing among what was asked.                       *)
LEMMA StartAsked ==
  ASSUME TypeOK, NEW p \in Stopper, NEW s, NEW kind, StartStop(p, s, kind)
  PROVE  \A q \in Stopper : StopperAsked(q)
<1>1. stopper \in [Stopper -> {Idle} \cup Stopping] BY DEF TypeOK
<1> QED BY <1>1 DEF StartStop, StopperAsked

LEMMA InviterAsks ==
  ASSUME TypeOK, Asked, NEW i \in Inviter, InviterStep(i)
  PROVE  Asked'
<1> USE DEF chanVars, procVars, mediaVars, countVars
<1>1. UNCHANGED <<byer, byeCh, stopAsked>>
  BY DEF InviterStep, RtpPub, SendInvite, SetDeviceContext, SetStreamContext, Ack, AckRtp, Mark
<1>2. \/ UNCHANGED stopper
      \/ \E p \in Stopper : StartStop(p, inviter[i].stream, "http")
  BY DEF InviterStep, RtpPub, SendInvite, SetDeviceContext, SetStreamContext, Ack, AckRtp, Mark,
         DiagnoseStops
<1>3. \A p \in Stopper : StopperAsked(p) BY <1>1, <1>2, StartAsked, UnchangedAsked
<1> QED BY <1>1, <1>3, AskedKept, UnchangedAsked

LEMMA StopperAsks ==
  ASSUME TypeOK, Asked, NEW p \in Stopper,
         \/ StopperStep(p)
         \/ \E s \in Stream : PubStopped(p, s) \/ StopKeepalive(p, s) \/ StopVideo(p, s)
  PROVE  Asked'
<1> USE DEF chanVars, procVars, mediaVars, countVars
<1>0. stopper \in [Stopper -> {Idle} \cup Stopping] BY DEF TypeOK
<1>1. CASE StopQueue(p)
  <2>1. stopper[p] \in Stopping BY <1>1, StopperBusy DEF StopQueue
  <2>2. stopper[p].stream \in Stream BY <2>1 DEF Stopping
  <2>3. CASE StopperEnds(p) /\ UNCHANGED <<byeCh, stopAsked>>
    <3>1. \A q \in Stopper : StopperAsked(q)
      BY <1>0, <2>3 DEF StopperEnds, StopperAsked, Idle
    <3> QED BY <1>1, <2>3, <3>1, AskedKept, UnchangedAsked DEF StopQueue
  <2>4. CASE /\ Room(byeCh) /\ stopAsked' = stopAsked \cup {stopper[p].stream}
             /\ byeCh' = Append(byeCh, [key |-> stopper[p].stream,
                                       meant |-> ackMap[stopper[p].stream]])
             /\ stopper' = [stopper EXCEPT ![p].pc = "ms"]
    <3>1. stopper'[p] = [stopper[p] EXCEPT !.pc = "ms"] BY <1>0, <2>4
    <3>2. stopper'[p].stream = stopper[p].stream BY <2>1, <3>1 DEF Stopping
    <3>3. \A q \in Stopper : q # p => stopper'[q] = stopper[q] BY <1>0, <2>4
    <3>4. \A q \in Stopper : StopperAsked(q) BY <2>4, <3>2, <3>3 DEF StopperAsked
    <3>5. ackMap[stopper[p].stream] \in Nat BY <2>2, DialogNumbers, DeviceIsNoStream DEF TypeOK
    <3>6. /\ Len(byeCh') = Len(byeCh) + 1 /\ byeCh'[Len(byeCh')].key = stopper[p].stream
          /\ \A j \in 1..Len(byeCh) : byeCh'[j] = byeCh[j]
      BY <2>2, <2>4, <3>5, ByeQueued, DeviceIsNoStream
    <3>7. Len(byeCh) \in Nat BY DEF TypeOK
    <3>8. \A j \in 1..Len(byeCh') : MessageAsked(j)
      <4> SUFFICES ASSUME NEW j \in 1..Len(byeCh') PROVE MessageAsked(j) OBVIOUS
      <4>1. j \in 1..Len(byeCh) \/ j = Len(byeCh') BY <3>6, <3>7
      <4> QED BY <2>4, <3>6, <4>1 DEF MessageAsked, Asked
    <3> QED BY <1>1, <2>4, <3>4, <3>8, AskedKept, UnchangedAsked DEF StopQueue
  <2> QED BY <1>1, <2>3, <2>4 DEF StopQueue
<1>2. CASE StopMedia(p) \/ StopForget(p)
  <2>1. UNCHANGED <<byer, byeCh, stopAsked>> BY <1>2 DEF StopMedia, StopForget
  <2>2. \A q \in Stopper : q # p => stopper'[q] = stopper[q]
    BY <1>0, <1>2 DEF StopMedia, StopForget, StopperEnds
  <2>3. CASE stopper' = [stopper EXCEPT ![p] = Idle]
    <3>1. \A q \in Stopper : StopperAsked(q)
      BY <1>0, <2>3 DEF StopperAsked, Idle
    <3> QED BY <2>1, <3>1, AskedKept, UnchangedAsked
  <2>4. CASE StopMedia(p) /\ stopper' = [stopper EXCEPT ![p].pc = "forget"]
    <3>1. stopper[p].pc = "ms" /\ stopper[p] \in Stopping BY <2>4, StopperBusy DEF StopMedia
    <3>2. stopper'[p] = [stopper[p] EXCEPT !.pc = "forget"] BY <1>0, <2>4
    <3>3. stopper'[p].stream = stopper[p].stream BY <3>1, <3>2 DEF Stopping
    <3>4. \A q \in Stopper : StopperAsked(q) BY <2>2, <3>1, <3>3 DEF StopperAsked
    <3> QED BY <2>1, <3>4, AskedKept, UnchangedAsked
  <2> QED BY <1>2, <2>3, <2>4 DEF StopMedia, StopForget, StopperEnds
<1>3. ASSUME NEW s \in Stream, PubStopped(p, s) \/ StopKeepalive(p, s) \/ StopVideo(p, s)
      PROVE  Asked'
  <2>1. UNCHANGED <<byer, byeCh, stopAsked>> /\ \E kind : StartStop(p, s, kind)
    BY <1>3 DEF PubStopped, StopKeepalive, StopVideo, StopRequest
  <2>2. \A q \in Stopper : StopperAsked(q) BY <2>1, StartAsked
  <2> QED BY <2>1, <2>2, AskedKept, UnchangedAsked
<1> QED BY <1>1, <1>2, <1>3 DEF StopperStep

LEMMA ByerAsks ==
  ASSUME TypeOK, Asked, NEW b \in Byer, DispatchBye(b) \/ ByerStep(b)
  PROVE  Asked'
<1> USE DEF chanVars, procVars, mediaVars, countVars
<1>0. byer \in [Byer -> {Idle} \cup Byeing] BY DEF TypeOK
<1>1. UNCHANGED <<stopper, stopAsked>>
  BY DEF DispatchBye, ByerStep, ByeGet, ByeSend, ByeRemove
<1>2. CASE DispatchBye(b)
  <2>1. byeCh \in Seq(ByeMsg) /\ byeCh # <<>> /\ byeCh' = Tail(byeCh)
    BY <1>2 DEF DispatchBye, TypeOK
  <2>2. Head(byeCh) = byeCh[1] /\ Head(byeCh).key \in Key /\ 1 \in 1..Len(byeCh)
    <3>1. Len(byeCh) \in Nat /\ Len(byeCh) # 0 BY <2>1
    <3>2. 1 \in 1..Len(byeCh) BY <3>1
    <3>3. byeCh[1] \in ByeMsg BY <2>1, <3>2
    <3>4. Head(byeCh) = byeCh[1] BY <2>1
    <3> QED BY <3>2, <3>3, <3>4 DEF ByeMsg
  <2>3. byer'[b].key = Head(byeCh).key
    BY <1>0, <1>2 DEF DispatchBye
  <2>4. byer'[b].key = DeviceKey \/ byer'[b].key \in stopAsked
    BY <2>2, <2>3 DEF Asked, Key
  <2>5. \A c \in Byer : c # b => byer'[c] = byer[c] BY <1>0, <1>2 DEF DispatchBye
  <2>6. \A c \in Byer : ByerAsked(c) BY <2>4, <2>5 DEF ByerAsked
  <2>7. \A j \in 1..Len(byeCh') : j + 1 \in 1..Len(byeCh) /\ byeCh'[j] = byeCh[j + 1] BY <2>1
  <2>8. \A j \in 1..Len(byeCh') : MessageAsked(j) BY <1>1, <2>7 DEF MessageAsked, Asked
  <2> QED BY <1>1, <2>6, <2>8, AskedKept, UnchangedAsked
<1>3. CASE ByerStep(b)
  <2>1. byer[b] \in Byeing BY <1>3, ByerBusy DEF ByerStep, ByeGet, ByeSend, ByeRemove
  <2>2. UNCHANGED byeCh BY <1>3 DEF ByerStep, ByeGet, ByeSend, ByeRemove
  <2>3. \A c \in Byer : c # b => byer'[c] = byer[c]
    BY <1>0, <1>3 DEF ByerStep, ByeGet, ByeSend, ByeRemove
  <2>4. byer'[b].pc \in {"get", "send", "remove"} =>
          byer[b].pc \in {"get", "send", "remove"} /\ byer'[b].key = byer[b].key
    <3>1. CASE ByeGet(b)
      <4> DEFINE n == ackMap[byer[b].key]
                 x == IF n = 0 THEN "remove" ELSE "send"
      <4>1. byer'[b] = [byer[b] EXCEPT !.pc = x, !.dialog = n] BY <1>0, <3>1 DEF ByeGet
      <4> HIDE DEF n, x
      <4>2. byer'[b].key = byer[b].key BY <2>1, <4>1 DEF Byeing
      <4> QED BY <3>1, <4>2 DEF ByeGet
    <3>2. CASE ByeSend(b)
      <4>1. byer'[b] = [byer[b] EXCEPT !.pc = "remove"] BY <1>0, <3>2 DEF ByeSend
      <4>2. byer'[b].key = byer[b].key BY <2>1, <4>1 DEF Byeing
      <4> QED BY <3>2, <4>2 DEF ByeSend
    <3>3. CASE ByeRemove(b) BY <1>0, <3>3 DEF ByeRemove, Idle
    <3> QED BY <1>3, <3>1, <3>2, <3>3 DEF ByerStep
  <2>5. \A c \in Byer : ByerAsked(c) BY <2>3, <2>4 DEF ByerAsked
  <2> QED BY <1>1, <2>2, <2>5, AskedKept, UnchangedAsked
<1> QED BY <1>2, <1>3

LEMMA EnvironmentAsks ==
  ASSUME TypeOK, Asked, Environment
  PROVE  Asked'
<1> USE DEF chanVars, procVars, mediaVars, countVars
<1>1. UNCHANGED <<byer, stopper, stopAsked>>
  BY DEF Environment, MediaStatus, GiveUp, PubStarts, PubEnds, WaitTimeout
<1>2. ASSUME NEW n \in 1..Len(dialog), MediaStatus(n)
      PROVE  \A j \in 1..Len(byeCh') : MessageAsked(j)
  <2>1. n \in Nat BY DialogNumbers
  <2>2. Room(byeCh) /\ byeCh' = Append(byeCh, [key |-> DeviceKey, meant |-> n])
    BY <1>2 DEF MediaStatus
  <2>3. /\ Len(byeCh') = Len(byeCh) + 1 /\ byeCh'[Len(byeCh')].key = DeviceKey
        /\ \A j \in 1..Len(byeCh) : byeCh'[j] = byeCh[j]
    BY <2>1, <2>2, ByeQueued, DeviceIsNoStream
  <2>4. Len(byeCh) \in Nat BY DEF TypeOK
  <2> SUFFICES ASSUME NEW j \in 1..Len(byeCh') PROVE MessageAsked(j) OBVIOUS
  <2>5. j \in 1..Len(byeCh) \/ j = Len(byeCh') BY <2>3, <2>4
  <2> QED BY <1>1, <2>3, <2>5, DeviceIsNoStream DEF MessageAsked, Asked
<1>3. (\E n \in 1..Len(dialog) : MediaStatus(n)) \/ UNCHANGED byeCh
  BY DialogNumbers DEF Environment, GiveUp, PubStarts, PubEnds, WaitTimeout
<1> QED BY <1>1, <1>2, <1>3, AskedKept, UnchangedAsked

LEMMA NextAsked ==
  ASSUME TypeOK, Asked, [Next]_vars
  PROVE  Asked'
<1> USE DEF chanVars, procVars, mediaVars, countVars
<1>1. ASSUME NEW h \in Handler, HandlerStep(h) \/ \E s \in Stream : InviteBegin(h, s)
      PROVE  UNCHANGED <<byer, stopper, byeCh, stopAsked>>
  BY <1>1 DEF HandlerStep, InviteBegin, Probe, Correct, Enqueue, Release
<1>2. ASSUME NEW i \in Inviter, DispatchInvite(i) \/ \E s \in Stream : Diagnose(i, s)
      PROVE  UNCHANGED <<byer, stopper, byeCh, stopAsked>>
  BY <1>2 DEF DispatchInvite, Diagnose
<1>3. UNCHANGED <<byer, stopper, byeCh, stopAsked>> => Asked' BY AskedKept, UnchangedAsked
<1>4. CASE UNCHANGED vars BY <1>3, <1>4 DEF vars
<1> QED
  BY <1>1, <1>2, <1>3, <1>4, NextSplit, InviterAsks, StopperAsks, ByerAsks, EnvironmentAsks

-----------------------------------------------------------------------------
(* The invariant, and the types.                                           *)
Inv == TypeOK /\ Numbers /\ Asked

LEMMA InitInv == Init => Inv
<1> SUFFICES ASSUME Init PROVE Inv OBVIOUS
<1>1. TypeOK BY InitTypes
<1>2. Numbers BY DEF Init, Numbers, Idle, WithDialog
<1>3. Asked
  <2>1. Len(byeCh) = 0 BY DEF Init
  <2> QED BY <2>1 DEF Init, Asked, Idle
<1> QED BY <1>1, <1>2, <1>3 DEF Inv

LEMMA NextInv == Inv /\ [Next]_vars => Inv'
<1> SUFFICES ASSUME Inv, [Next]_vars PROVE Inv' OBVIOUS
<1> QED BY NextTypes, NextNumbers, NextAsked DEF Inv

LEMMA InvAlways == Spec => []Inv
<1> QED BY InitInv, NextInv, PTL DEF Spec

(* Every variable keeps its type; a context is that of a dialog the device  *)
(* has opened, whatever the pipelines, the stops and the BYEs do to the map.*)
THEOREM StreamTypeOK == Spec => []TypeOK
<1>1. Inv => TypeOK BY DEF Inv
<1> QED BY <1>1, InvAlways, PTL

-----------------------------------------------------------------------------
(* The guard.                                                              *)
LEMMA InitGuard == Init => GuardHeld
  BY DEF Init, GuardHeld, At

LEMMA GuardUnchanged ==
  ASSUME GuardHeld, UNCHANGED guard,
         \A s \in Stream : At(s)' = At(s)
  PROVE  GuardHeld'
  BY DEF GuardHeld

(* A handler that goes on stays at its stream.                             *)
LEMMA HandlerStays ==
  ASSUME TypeOK, GuardHeld, UNCHANGED guard, NEW h \in Handler, handler[h].pc # "idle",
         NEW pc \in {"probe", "correct", "enqueue", "release"}, HandlerGoto(h, pc)
  PROVE  GuardHeld'
<1>1. handler \in [Handler -> {Idle} \cup Busy] /\ handler[h] \in Busy
  BY HandlerBusy DEF TypeOK
<1>2. handler'[h] = [handler[h] EXCEPT !.pc = pc] BY <1>1 DEF HandlerGoto
<1>3. handler'[h].stream = handler[h].stream /\ handler'[h].pc = pc BY <1>1, <1>2 DEF Busy
<1>4. handler'[h] # Idle /\ handler[h] # Idle BY <1>3 DEF Idle
<1>5. \A g \in Handler : g # h => handler'[g] = handler[g] BY <1>1 DEF HandlerGoto
<1>6. \A s \in Stream : At(s)' = At(s) BY <1>3, <1>4, <1>5 DEF At
<1> QED BY <1>6, GuardUnchanged

LEMMA NextGuard == TypeOK /\ GuardHeld /\ [Next]_vars => GuardHeld'
<1> SUFFICES ASSUME TypeOK, GuardHeld, [Next]_vars PROVE GuardHeld' OBVIOUS
<1> USE DEF chanVars, procVars, mediaVars, countVars
<1>0. handler \in [Handler -> {Idle} \cup Busy] BY DEF TypeOK
<1>1. CASE UNCHANGED <<guard, handler>>
  BY <1>1, GuardUnchanged DEF At
<1>2. ASSUME NEW h \in Handler, NEW s \in Stream, InviteBegin(h, s) PROVE GuardHeld'
  <2>1. At(s) = {} /\ s \notin guard /\ guard' = guard \cup {s}
    BY <1>2 DEF InviteBegin, Free, GuardHeld
  <2>2. handler[h] = Idle /\ handler' = [handler EXCEPT ![h] = [pc |-> "probe", stream |-> s]]
    BY <1>2 DEF InviteBegin
  <2>3. handler'[h] # Idle /\ handler'[h].stream = s BY <1>0, <2>2 DEF Idle
  <2>4. \A g \in Handler : g # h => handler'[g] = handler[g] BY <1>0, <2>2
  <2>5. At(s)' = {h} BY <2>1, <2>3, <2>4 DEF At
  <2>6. \A t \in Stream : t # s => At(t)' = At(t) BY <2>2, <2>3, <2>4 DEF At
  <2> QED BY <2>1, <2>5, <2>6 DEF GuardHeld
<1>3. ASSUME NEW h \in Handler, Probe(h) \/ Correct(h) \/ Enqueue(h) PROVE GuardHeld'
  BY <1>3, HandlerStays DEF Probe, Correct, Enqueue
<1>4. ASSUME NEW h \in Handler, Release(h) PROVE GuardHeld'
  <2>1. handler[h] \in Busy /\ handler[h] # Idle BY <1>4, HandlerBusy DEF Release, Idle
  <2>2. PICK s \in Stream : handler[h].stream = s BY <2>1 DEF Busy
  <2>3. guard' = guard \ {s} /\ handler' = [handler EXCEPT ![h] = Idle]
    BY <1>4, <2>2 DEF Release, GuardAfter
  <2>4. h \in At(s) BY <2>1, <2>2 DEF At
  <2>5. At(s) = {h} BY <2>2, <2>4 DEF GuardHeld
  <2>6. handler'[h] = Idle /\ \A g \in Handler : g # h => handler'[g] = handler[g] BY <1>0, <2>3
  <2>7. At(s)' = {} BY <2>5, <2>6 DEF At
  <2>8. \A t \in Stream : t # s => At(t)' = At(t) BY <2>1, <2>2, <2>6 DEF At
  <2> QED BY <2>3, <2>7, <2>8 DEF GuardHeld
<1>5. ASSUME NEW i \in Inviter,
             DispatchInvite(i) \/ InviterStep(i) \/ \E s \in Stream : Diagnose(i, s)
      PROVE  UNCHANGED <<guard, handler>>
  BY <1>5 DEF DispatchInvite, InviterStep, Diagnose, RtpPub, SendInvite, SetDeviceContext,
       SetStreamContext, Ack, AckRtp, Mark
<1>6. ASSUME NEW p \in Stopper,
             \/ StopperStep(p)
             \/ \E s \in Stream : PubStopped(p, s) \/ StopKeepalive(p, s) \/ StopVideo(p, s)
      PROVE  UNCHANGED <<guard, handler>>
  BY <1>6 DEF StopperStep, StopQueue, StopMedia, StopForget, PubStopped, StopKeepalive,
              StopVideo, StopRequest
<1>7. ASSUME NEW b \in Byer, DispatchBye(b) \/ ByerStep(b) PROVE UNCHANGED <<guard, handler>>
  BY <1>7 DEF DispatchBye, ByerStep, ByeGet, ByeSend, ByeRemove
<1>8. CASE Environment
  BY <1>1, <1>8 DEF Environment, MediaStatus, GiveUp, PubStarts, PubEnds, WaitTimeout
<1>9. CASE UNCHANGED vars BY <1>1, <1>9 DEF vars
<1> QED
  BY <1>1, <1>2, <1>3, <1>4, <1>5, <1>6, <1>7, <1>8, <1>9, NextSplit DEF HandlerStep

(* A stream's guard is taken exactly while one handler works on it.         *)
THEOREM StreamGuardHeld == Spec => []GuardHeld
<1> QED BY StreamTypeOK, InitGuard, NextGuard, PTL DEF Spec

-----------------------------------------------------------------------------
(* The contexts: what a step can do to the entry of a stream.              *)
AckMoves ==
  \A s \in Stream :
    \/ ackMap'[s] = ackMap[s]
    \/ ackMap'[s] = 0 /\ s \in stopAsked
    \/ ackMap'[s] \in 1..Len(dialog) /\ dialog[ackMap'[s]].stream = s

LEMMA NextAckMoves ==
  ASSUME Inv, [Next]_vars
  PROVE  AckMoves /\ stopAsked \subseteq stopAsked'
<1> USE DEF chanVars, procVars, mediaVars, countVars
<1>0. TypeOK /\ Numbers /\ Asked /\ ackMap \in [Key -> Opened] BY DEF Inv, TypeOK
<1>1. UNCHANGED ackMap => AckMoves BY DEF AckMoves
<1>2. ASSUME NEW i \in Inviter, InviterStep(i) PROVE AckMoves /\ UNCHANGED stopAsked
  <2>1. CASE SetDeviceContext(i)
    BY <1>0, <2>1, DeviceIsNoStream DEF SetDeviceContext, AckMoves
  <2>2. CASE SetStreamContext(i)
    <3>1. inviter[i].pc \in WithDialog BY <2>2 DEF SetStreamContext, WithDialog
    <3>2. /\ inviter[i].dialog \in 1..Len(dialog)
          /\ dialog[inviter[i].dialog].stream = inviter[i].stream
      BY <1>0, <3>1 DEF Numbers
    <3>3. ackMap' = [ackMap EXCEPT ![inviter[i].stream] = inviter[i].dialog] /\ UNCHANGED stopAsked
      BY <2>2 DEF SetStreamContext, WithContext
    <3> QED BY <1>0, <3>2, <3>3, DeviceIsNoStream DEF AckMoves
  <2>3. CASE RtpPub(i) \/ SendInvite(i) \/ Ack(i) \/ AckRtp(i) \/ Mark(i)
    BY <1>1, <2>3 DEF RtpPub, SendInvite, Ack, AckRtp, Mark
  <2> QED BY <1>2, <2>1, <2>2, <2>3 DEF InviterStep
<1>3. ASSUME NEW p \in Stopper, StopperStep(p) PROVE AckMoves /\ stopAsked \subseteq stopAsked'
  <2>1. CASE StopForget(p)
    <3>1. stopper[p].stream \in stopAsked BY <1>0, <2>1 DEF StopForget, Asked
    <3> QED BY <1>0, <2>1, <3>1, DeviceIsNoStream DEF StopForget, AckMoves
  <2>2. CASE StopQueue(p) \/ StopMedia(p) BY <1>1, <2>2 DEF StopQueue, StopMedia
  <2> QED BY <1>3, <2>1, <2>2 DEF StopperStep
<1>4. ASSUME NEW b \in Byer, ByerStep(b) PROVE AckMoves /\ UNCHANGED stopAsked
  <2>1. CASE ByeRemove(b)
    <3>1. byer[b].key = DeviceKey \/ byer[b].key \in stopAsked
      BY <1>0, <2>1 DEF ByeRemove, Asked
    <3>2. ackMap' = [ackMap EXCEPT ![byer[b].key] = 0] /\ UNCHANGED stopAsked
      BY <2>1 DEF ByeRemove, Removed
    <3> QED BY <1>0, <3>1, <3>2, DeviceIsNoStream DEF AckMoves
  <2>2. CASE ByeGet(b) \/ ByeSend(b) BY <1>1, <2>2 DEF ByeGet, ByeSend
  <2> QED BY <1>4, <2>1, <2>2 DEF ByerStep
<1>5. ASSUME NEW h \in Handler, HandlerStep(h) \/ \E s \in Stream : InviteBegin(h, s)
      PROVE  UNCHANGED <<ackMap, stopAsked>>
  BY <1>5 DEF HandlerStep, InviteBegin, Probe, Correct, Enqueue, Release
<1>6. ASSUME NEW i \in Inviter, DispatchInvite(i) \/ \E s \in Stream : Diagnose(i, s)
      PROVE  UNCHANGED <<ackMap, stopAsked>>
  BY <1>6 DEF DispatchInvite, Diagnose
<1>7. ASSUME NEW p \in Stopper, NEW s \in Stream,
             PubStopped(p, s) \/ StopKeepalive(p, s) \/ StopVideo(p, s)
      PROVE  UNCHANGED <<ackMap, stopAsked>>
  BY <1>7 DEF PubStopped, StopKeepalive, StopVideo, StopRequest
<1>8. ASSUME NEW b \in Byer, DispatchBye(b) PROVE UNCHANGED <<ackMap, stopAsked>>
  BY <1>8 DEF DispatchBye
<1>9. CASE Environment
  <2>1. UNCHANGED <<ackMap, stopAsked>>
    BY <1>9 DEF Environment, MediaStatus, GiveUp, PubStarts, PubEnds, WaitTimeout
  <2> QED BY <1>1, <2>1
<1>10. CASE UNCHANGED vars BY <1>1, <1>10 DEF vars
<1> QED
  BY <1>1, <1>2, <1>3, <1>4, <1>5, <1>6, <1>7, <1>8, <1>9, <1>10, NextSplit

(* A BYE goroutine goes on with its dialog, gives it up or has just looked  *)
(* it up under its key.                                                    *)
ByerLooks(b) ==
  byer'[b].pc \in {"send", "remove"} =>
    \/ /\ byer[b].pc \in {"send", "remove"}
       /\ byer'[b].dialog = byer[b].dialog /\ byer'[b].key = byer[b].key
    \/ byer'[b].key \in Key /\ byer'[b].dialog = ackMap[byer'[b].key]

LEMMA NextByerLooks ==
  ASSUME TypeOK, [Next]_vars
  PROVE  \A b \in Byer : ByerLooks(b)
<1> USE DEF chanVars, procVars, mediaVars, countVars
<1>0. byer \in [Byer -> {Idle} \cup Byeing] BY DEF TypeOK
<1>1. UNCHANGED byer => \A b \in Byer : ByerLooks(b) BY DEF ByerLooks
<1>2. ASSUME NEW b \in Byer, DispatchBye(b) \/ ByerStep(b), NEW c \in Byer PROVE ByerLooks(c)
  <2>1. CASE c # b
    <3>1. byer'[c] = byer[c]
      BY <1>0, <1>2, <2>1 DEF DispatchBye, ByerStep, ByeGet, ByeSend, ByeRemove
    <3> QED BY <3>1 DEF ByerLooks
  <2>2. CASE c = b /\ DispatchBye(b) BY <1>0, <2>2 DEF DispatchBye, ByerLooks
  <2>3. CASE c = b /\ ByeGet(b)
    <3>1. byer[b] \in Byeing BY <2>3, ByerBusy DEF ByeGet
    <3> DEFINE n == ackMap[byer[b].key]
               x == IF n = 0 THEN "remove" ELSE "send"
    <3>2. byer'[b] = [byer[b] EXCEPT !.pc = x, !.dialog = n] BY <1>0, <2>3 DEF ByeGet
    <3> HIDE DEF n, x
    <3>3. byer'[b].key = byer[b].key /\ byer[b].key \in Key /\ byer'[b].dialog = n
      BY <3>1, <3>2 DEF Byeing
    <3> QED BY <2>3, <3>3 DEF ByerLooks, n
  <2>4. CASE c = b /\ ByeSend(b)
    <3>1. byer[b] \in Byeing BY <2>4, ByerBusy DEF ByeSend
    <3>2. byer'[b] = [byer[b] EXCEPT !.pc = "remove"] BY <1>0, <2>4 DEF ByeSend
    <3>3. byer'[b].dialog = byer[b].dialog /\ byer'[b].key = byer[b].key
      BY <3>1, <3>2 DEF Byeing
    <3> QED BY <2>4, <3>3 DEF ByeSend, ByerLooks
  <2>5. CASE c = b /\ ByeRemove(b) BY <1>0, <2>5 DEF ByeRemove, ByerLooks, Idle
  <2> QED BY <1>2, <2>1, <2>2, <2>3, <2>4, <2>5 DEF ByerStep
<1>3. ASSUME NEW h \in Handler, HandlerStep(h) \/ \E s \in Stream : InviteBegin(h, s)
      PROVE  UNCHANGED byer
  BY <1>3 DEF HandlerStep, InviteBegin, Probe, Correct, Enqueue, Release
<1>4. ASSUME NEW i \in Inviter,
             DispatchInvite(i) \/ InviterStep(i) \/ \E s \in Stream : Diagnose(i, s)
      PROVE  UNCHANGED byer
  BY <1>4 DEF DispatchInvite, InviterStep, Diagnose, RtpPub, SendInvite, SetDeviceContext,
       SetStreamContext, Ack, AckRtp, Mark
<1>5. ASSUME NEW p \in Stopper,
             \/ StopperStep(p)
             \/ \E s \in Stream : PubStopped(p, s) \/ StopKeepalive(p, s) \/ StopVideo(p, s)
      PROVE  UNCHANGED byer
  BY <1>5 DEF StopperStep, StopQueue, StopMedia, StopForget, PubStopped, StopKeepalive,
              StopVideo, StopRequest
<1>6. CASE Environment
  BY <1>1, <1>6 DEF Environment, MediaStatus, GiveUp, PubStarts, PubEnds, WaitTimeout
<1>7. CASE UNCHANGED vars BY <1>1, <1>7 DEF vars
<1> QED BY <1>1, <1>2, <1>3, <1>4, <1>5, <1>6, <1>7, NextSplit

LEMMA InitContext == Init => ContextOfStream
  BY DeviceIsNoStream DEF Init, ContextOfStream, Idle

LEMMA NextContext == Inv /\ ContextOfStream /\ [Next]_vars => ContextOfStream'
<1> SUFFICES ASSUME Inv, ContextOfStream, [Next]_vars PROVE ContextOfStream' OBVIOUS
<1>0. TypeOK /\ Numbers BY DEF Inv
<1>1. /\ Grown /\ AckMoves /\ \A b \in Byer : ByerLooks(b)
      /\ ackMap \in [Key -> Opened] /\ byer \in [Byer -> {Idle} \cup Byeing]
  BY <1>0, NextGrown, NextAckMoves, NextByerLooks DEF TypeOK
<1>2. \A n \in Opened : n # 0 => n \in 1..Len(dialog) /\ dialog'[n].stream = dialog[n].stream
  BY <1>0, <1>1, DialogNumbers DEF Opened, Grown
<1>3. ASSUME NEW s \in Stream, ackMap'[s] # 0 PROVE dialog'[ackMap'[s]].stream = s
  <2>1. ackMap[s] \in Opened BY <1>1, DeviceIsNoStream
  <2>2. CASE ackMap'[s] = ackMap[s]
    BY <1>2, <1>3, <2>1, <2>2 DEF ContextOfStream
  <2>3. CASE ackMap'[s] \in 1..Len(dialog) /\ dialog[ackMap'[s]].stream = s
    BY <1>1, <2>3 DEF Grown
  <2> QED BY <1>1, <1>3, <2>2, <2>3 DEF AckMoves
<1>4. ASSUME NEW b \in Byer, byer'[b].pc \in {"send", "remove"}
      PROVE  \/ byer'[b].dialog = 0 \/ byer'[b].key = DeviceKey
             \/ dialog'[byer'[b].dialog].stream = byer'[b].key
  <2>1. CASE /\ byer[b].pc \in {"send", "remove"}
             /\ byer'[b].dialog = byer[b].dialog /\ byer'[b].key = byer[b].key
    <3>1. byer[b].dialog \in Opened BY <1>0, <2>1, DialogNumbers DEF Numbers
    <3> QED BY <1>2, <2>1, <3>1 DEF ContextOfStream
  <2>2. CASE byer'[b].key \in Key /\ byer'[b].dialog = ackMap[byer'[b].key]
    <3>1. ackMap[byer'[b].key] \in Opened BY <1>1, <2>2
    <3>2. byer'[b].key = DeviceKey \/ byer'[b].key \in Stream BY <2>2 DEF Key
    <3> QED BY <1>2, <2>2, <3>1, <3>2 DEF ContextOfStream
  <2> QED BY <1>1, <1>4, <2>1, <2>2 DEF ByerLooks
<1> QED BY <1>3, <1>4 DEF ContextOfStream

(* A BYE by stream name only ever concerns a dialog of that stream, however *)
(* many pipelines of the device store their contexts side by side.          *)
THEOREM StreamContext == Spec => []ContextOfStream
<1> QED BY InvAlways, InitContext, NextContext, PTL DEF Spec

-----------------------------------------------------------------------------
(* Live dialogs.  A dialog keeps its context, or the excuse it has.         *)
LEMMA KeptStays ==
  ASSUME Inv, TypeOK', Grown, AckMoves, stopAsked \subseteq stopAsked',
         NEW n \in 1..Len(dialog), Kept(n)
  PROVE  Kept(n)'
<1>0. TypeOK BY DEF Inv
<1>1. PICK s \in Stream : s = dialog[n].stream
  <2>1. dialog[n] \in Dialog BY <1>0 DEF TypeOK
  <2> QED BY <2>1 DEF Dialog
<1>2. dialog'[n].stream = s BY <1>1 DEF Grown
<1>3. DOMAIN dialog = 1..Len(dialog) /\ DOMAIN dialog' = 1..Len(dialog')
  BY <1>0, DialogNumbers DEF TypeOK
<1>4. 1..Len(dialog) \subseteq 1..Len(dialog') BY <1>0, DialogNumbers DEF Grown
<1>5. ASSUME NEW m \in 1..Len(dialog), m # n, dialog[m].stream = s PROVE Kept(n)'
  <2>1. m \in DOMAIN dialog' /\ dialog'[m].stream = s BY <1>3, <1>4, <1>5 DEF Grown
  <2> QED BY <1>2, <1>5, <2>1 DEF Kept
<1>6. CASE s \in stopAsked BY <1>2, <1>6 DEF Kept
<1>7. CASE ackMap[s] = n
  <2>1. CASE ackMap'[s] = ackMap[s] BY <1>2, <1>7, <2>1 DEF Kept
  <2>2. CASE ackMap'[s] \in 1..Len(dialog) /\ dialog[ackMap'[s]].stream = s
    <3>1. CASE ackMap'[s] = n BY <1>2, <3>1 DEF Kept
    <3>2. CASE ackMap'[s] # n BY <1>5, <2>2, <3>2
    <3> QED BY <3>1, <3>2
  <2> QED BY <1>6, <2>1, <2>2 DEF AckMoves
<1> QED BY <1>1, <1>3, <1>5, <1>6, <1>7 DEF Kept

(* A dialog gets live by the ACK of a pipeline that has stored its context. *)
LEMMA NextLive ==
  ASSUME TypeOK, Numbers, [Next]_vars, NEW n \in 1..Len(dialog'), dialog'[n].state = "live"
  PROVE  /\ n \in 1..Len(dialog)
         /\ dialog[n].state = "live" \/ \E i \in Inviter : inviter[i].pc = "ack" /\ inviter[i].dialog = n
<1> USE DEF chanVars, procVars, mediaVars, countVars
<1> DEFINE Claim == /\ n \in 1..Len(dialog)
                    /\ \/ dialog[n].state = "live"
                       \/ \E i \in Inviter : inviter[i].pc = "ack" /\ inviter[i].dialog = n
<1> SUFFICES Claim OBVIOUS
<1>0. UNCHANGED dialog => Claim OBVIOUS
<1>1. ASSUME NEW m \in 1..Len(dialog), dialog' = Turned(m, "ended") PROVE Claim
  <2>1. /\ Len(dialog') = Len(dialog) /\ dialog'[m].state = "ended"
        /\ \A k \in 1..Len(dialog) : k # m => dialog'[k] = dialog[k]
    BY <1>1, DialogTurned
  <2> QED BY <2>1
<1>2. ASSUME NEW i \in Inviter, SendInvite(i), ~UNCHANGED dialog PROVE Claim
  <2>1. inviter[i].stream \in Stream BY <1>2, InviterBusy DEF SendInvite, Inviting
  <2>2. dialog' = Append(dialog, [stream |-> inviter[i].stream, state |-> "early"])
    BY <1>2 DEF SendInvite
  <2>3. /\ Len(dialog') = Len(dialog) + 1 /\ dialog'[Len(dialog')].state = "early"
        /\ \A m \in 1..Len(dialog) : dialog'[m] = dialog[m]
    BY <2>1, <2>2, DialogAdded
  <2>4. n \in 1..Len(dialog) \/ n = Len(dialog') BY <2>3, DialogNumbers
  <2> QED BY <2>3, <2>4
<1>3. ASSUME NEW i \in Inviter, Ack(i), ~UNCHANGED dialog PROVE Claim
  <2>1. inviter[i].dialog \in 1..Len(dialog) BY <1>3 DEF Ack, Numbers, WithDialog
  <2>2. PICK x \in {"early", "live", "ended"} : dialog' = Turned(inviter[i].dialog, x)
    <3> DEFINE x == IF dialog[inviter[i].dialog].state = "early" THEN "live"
                    ELSE dialog[inviter[i].dialog].state
    <3>1. dialog[inviter[i].dialog] \in Dialog BY <2>1 DEF TypeOK
    <3>2. x \in {"early", "live", "ended"} BY <3>1 DEF Dialog
    <3>3. dialog' = Turned(inviter[i].dialog, x) BY <1>3 DEF Ack, Turned
    <3> QED BY <3>2, <3>3
  <2>3. /\ Len(dialog') = Len(dialog)
        /\ \A m \in 1..Len(dialog) : m # inviter[i].dialog => dialog'[m] = dialog[m]
    BY <2>1, <2>2, DialogTurned
  <2> QED BY <1>3, <2>3 DEF Ack
<1>4. ASSUME NEW i \in Inviter,
             DispatchInvite(i) \/ InviterStep(i) \/ \E s \in Stream : Diagnose(i, s)
      PROVE  Claim
  <2>1. SendInvite(i) \/ Ack(i) \/ UNCHANGED dialog
    BY <1>4 DEF DispatchInvite, Diagnose, InviterStep, RtpPub, SetDeviceContext, SetStreamContext,
                AckRtp, Mark
  <2> QED BY <1>0, <1>2, <1>3, <2>1
<1>5. ASSUME NEW b \in Byer, DispatchBye(b) \/ ByerStep(b) PROVE Claim
  <2>1. CASE ByeSend(b) /\ ~UNCHANGED dialog
    <3>1. byer[b].pc = "send" BY <2>1 DEF ByeSend
    <3>2. byer[b].dialog \in 1..Len(dialog) BY <3>1 DEF Numbers
    <3>3. dialog' = Turned(byer[b].dialog, "ended") BY <2>1 DEF ByeSend, Ended, Turned
    <3> QED BY <1>1, <3>2, <3>3
  <2>2. ByeSend(b) \/ UNCHANGED dialog BY <1>5 DEF DispatchBye, ByerStep, ByeGet, ByeRemove
  <2> QED BY <1>0, <2>1, <2>2
<1>6. CASE Environment
  <2>1. ASSUME NEW m \in 1..Len(dialog), GiveUp(m) PROVE Claim
    <3>1. dialog' = Turned(m, "ended") BY <2>1 DEF GiveUp, Ended, Turned
    <3> QED BY <1>1, <3>1
  <2>2. (\E m \in 1..Len(dialog) : GiveUp(m)) \/ UNCHANGED dialog
    BY <1>6, DialogNumbers DEF Environment, MediaStatus, PubStarts, PubEnds, WaitTimeout
  <2> QED BY <1>0, <2>1, <2>2
<1>7. ASSUME NEW h \in Handler, HandlerStep(h) \/ \E s \in Stream : InviteBegin(h, s)
      PROVE  UNCHANGED dialog
  BY <1>7 DEF HandlerStep, InviteBegin, Probe, Correct, Enqueue, Release
<1>8. ASSUME NEW p \in Stopper,
             \/ StopperStep(p)
             \/ \E s \in Stream : PubStopped(p, s) \/ StopKeepalive(p, s) \/ StopVideo(p, s)
      PROVE  UNCHANGED dialog
  BY <1>8 DEF StopperStep, StopQueue, StopMedia, StopForget, PubStopped, StopKeepalive,
              StopVideo, StopRequest
<1>9. CASE UNCHANGED vars BY <1>0, <1>9 DEF vars
<1> HIDE DEF Claim
<1>10. CASE Next BY <1>0, <1>4, <1>5, <1>6, <1>7, <1>8, <1>10, NextSplit
<1> QED BY <1>9, <1>10

(* A pipeline that has stored its contexts goes on with its dialog or has   *)
(* just stored the one under the stream.                                   *)
InviterStores(i) ==
  inviter'[i].pc \in {"ack", "ackRtp", "mark"} =>
    /\ inviter'[i].dialog = inviter[i].dialog
    /\ \/ inviter[i].pc \in {"ack", "ackRtp", "mark"}
       \/ inviter[i].pc = "setStream" /\ ackMap'[inviter[i].stream] = inviter[i].dialog

LEMMA NextInviterStores ==
  ASSUME TypeOK, [Next]_vars
  PROVE  \A i \in Inviter : InviterStores(i)
<1> USE DEF chanVars, procVars, mediaVars, countVars
<1>0. inviter \in [Inviter -> {Idle} \cup Inviting] BY DEF TypeOK
<1>1. UNCHANGED inviter => \A i \in Inviter : InviterStores(i) BY DEF InviterStores
<1>2. ASSUME NEW i \in Inviter,
             DispatchInvite(i) \/ InviterStep(i) \/ \E s \in Stream : Diagnose(i, s),
             NEW j \in Inviter
      PROVE  InviterStores(j)
  <2>1. CASE j # i
    <3>1. inviter'[j] = inviter[j]
      BY <1>0, <1>2, <2>1 DEF DispatchInvite, InviterStep, Diagnose, RtpPub, SendInvite,
         SetDeviceContext, SetStreamContext, Ack, AckRtp, Mark, AfterRefusal, InviterGoto, InviterEnds
    <3> QED BY <3>1 DEF InviterStores
  <2>2. CASE j = i /\ inviter' = [inviter EXCEPT ![i] = Idle]
    BY <1>0, <2>2 DEF InviterStores, Idle
  <2>3. CASE j = i /\ (DispatchInvite(i) \/ \E s \in Stream : Diagnose(i, s))
    BY <1>0, <2>3 DEF DispatchInvite, Diagnose, InviterStores
  <2>4. CASE j = i /\ SendInvite(i) /\ ~InviterEnds(i)
    <3>1. inviter[i] \in Inviting BY <2>4, InviterBusy DEF SendInvite
    <3>2. inviter'[i] = [inviter[i] EXCEPT !.pc = "setDevice", !.dialog = Len(dialog) + 1]
      BY <1>0, <2>4 DEF SendInvite, AfterRefusal
    <3>3. inviter'[i].pc = "setDevice" BY <3>1, <3>2 DEF Inviting
    <3> QED BY <2>4, <3>3 DEF InviterStores
  <2>5. ASSUME j = i, inviter[i].pc # "idle", NEW pc, InviterGoto(i, pc),
               pc \in {"ack", "ackRtp", "mark"} =>
                 \/ inviter[i].pc \in {"ack", "ackRtp", "mark"}
                 \/ inviter[i].pc = "setStream" /\ ackMap'[inviter[i].stream] = inviter[i].dialog
        PROVE  InviterStores(j)
    <3>1. inviter[i] \in Inviting BY <2>5, InviterBusy
    <3>2. inviter'[i] = [inviter[i] EXCEPT !.pc = pc] BY <1>0, <2>5 DEF InviterGoto
    <3>3. inviter'[i].dialog = inviter[i].dialog /\ inviter'[i].pc = pc
      BY <3>1, <3>2 DEF Inviting
    <3> QED BY <2>5, <3>3 DEF InviterStores
  <2>6. CASE j = i /\ SetStreamContext(i)
    <3>1. inviter[i] \in Inviting BY <2>6, InviterBusy DEF SetStreamContext
    <3>2. inviter[i].stream \in Key BY <3>1, DeviceIsNoStream DEF Inviting
    <3>3. ackMap'[inviter[i].stream] = inviter[i].dialog
      BY <2>6, <3>2 DEF SetStreamContext, WithContext, TypeOK
    <3> QED BY <2>5, <2>6, <3>3 DEF SetStreamContext
  <2>7. CASE j = i /\ (RtpPub(i) \/ SetDeviceContext(i) \/ Ack(i) \/ AckRtp(i))
    BY <2>2, <2>5, <2>7 DEF RtpPub, SetDeviceContext, Ack, AckRtp, InviterEnds
  <2> QED
    BY <1>2, <2>1, <2>2, <2>3, <2>4, <2>6, <2>7
    DEF InviterStep, SendInvite, Mark, InviterEnds
<1>3. ASSUME NEW h \in Handler, HandlerStep(h) \/ \E s \in Stream : InviteBegin(h, s)
      PROVE  UNCHANGED inviter
  BY <1>3 DEF HandlerStep, InviteBegin, Probe, Correct, Enqueue, Release
<1>4. ASSUME NEW b \in Byer, DispatchBye(b) \/ ByerStep(b) PROVE UNCHANGED inviter
  BY <1>4 DEF DispatchBye, ByerStep, ByeGet, ByeSend, ByeRemove
<1>5. ASSUME NEW p \in Stopper,
             \/ StopperStep(p)
             \/ \E s \in Stream : PubStopped(p, s) \/ StopKeepalive(p, s) \/ StopVideo(p, s)
      PROVE  UNCHANGED inviter
  BY <1>5 DEF StopperStep, StopQueue, StopMedia, StopForget, PubStopped, StopKeepalive,
              StopVideo, StopRequest
<1>6. CASE Environment
  <2>1. UNCHANGED inviter
    BY <1>6 DEF Environment, MediaStatus, GiveUp, PubStarts, PubEnds, WaitTimeout
  <2> QED BY <1>1, <2>1
<1>7. CASE UNCHANGED vars BY <1>1, <1>7 DEF vars
<1> QED BY <1>1, <1>2, <1>3, <1>4, <1>5, <1>6, <1>7, NextSplit

LEMMA InitStored == Init => Stored
<1> SUFFICES ASSUME Init PROVE Stored OBVIOUS
<1>1. Len(dialog) = 0 BY DEF Init
<1> QED BY <1>1 DEF Init, Stored, Idle

LEMMA NextStored == Inv /\ Stored /\ [Next]_vars => Stored'
<1> SUFFICES ASSUME Inv, Stored, [Next]_vars PROVE Stored' OBVIOUS
<1>0. TypeOK /\ Numbers /\ TypeOK' BY NextInv DEF Inv
<1>1. /\ Grown /\ AckMoves /\ stopAsked \subseteq stopAsked'
      /\ \A i \in Inviter : InviterStores(i)
  BY <1>0, NextGrown, NextAckMoves, NextInviterStores
<1>2. ASSUME NEW n \in 1..Len(dialog), Kept(n) PROVE Kept(n)'
  BY <1>0, <1>1, <1>2, KeptStays
<1>3. ASSUME NEW i \in Inviter, inviter[i].pc \in {"ack", "ackRtp", "mark"}
      PROVE  inviter[i].dialog \in 1..Len(dialog) /\ Kept(inviter[i].dialog)
  BY <1>0, <1>3 DEF Numbers, WithDialog, Stored
<1>4. ASSUME NEW n \in 1..Len(dialog'), dialog'[n].state = "live" PROVE Kept(n)'
  <2>1. /\ n \in 1..Len(dialog)
        /\ dialog[n].state = "live" \/ \E i \in Inviter : inviter[i].pc = "ack" /\ inviter[i].dialog = n
    BY <1>0, <1>4, NextLive
  <2>2. Kept(n) BY <1>3, <2>1 DEF Stored
  <2> QED BY <1>2, <2>1, <2>2
<1>5. ASSUME NEW i \in Inviter, inviter'[i].pc \in {"ack", "ackRtp", "mark"},
             NEW n, n = inviter'[i].dialog
      PROVE  Kept(n)'
  <2>1. n = inviter[i].dialog BY <1>1, <1>5 DEF InviterStores
  <2>2. CASE inviter[i].pc \in {"ack", "ackRtp", "mark"}
    BY <1>2, <1>3, <2>1, <2>2
  <2>3. CASE inviter[i].pc = "setStream" /\ ackMap'[inviter[i].stream] = inviter[i].dialog
    <3>1. n \in 1..Len(dialog) /\ dialog[n].stream = inviter[i].stream
      BY <1>0, <2>1, <2>3 DEF Numbers, WithDialog
    <3>2. dialog'[n].stream = inviter[i].stream BY <1>1, <3>1 DEF Grown
    <3> QED BY <2>1, <2>3, <3>2 DEF Kept
  <2> QED BY <1>1, <1>5, <2>2, <2>3 DEF InviterStores
<1>6. \A i \in Inviter : inviter'[i].pc \in {"ack", "ackRtp", "mark"} => Kept(inviter[i].dialog)'
  BY <1>5 DEF Kept
<1> QED BY <1>4, <1>6 DEF Stored

LEMMA StoredKeeps == TypeOK /\ Stored => LiveDialogKept
  BY DialogNumbers DEF Stored, Kept, LiveDialogKept

(* A device that streams can still be told to stop: the context of its      *)
(* dialog is in the map, unless the stream was asked to stop or has another *)
(* dialog.                                                                 *)
THEOREM StreamLiveDialogKept == Spec => []LiveDialogKept
<1>1. Inv /\ Stored => LiveDialogKept BY StoredKeeps DEF Inv
<1> QED BY <1>1, InvAlways, InitStored, NextStored, PTL DEF Spec

-----------------------------------------------------------------------------
(* The dialogs and contexts of the streams, as DialogContexts states them.  *)
Found == [s \in Stream |-> ackMap[s]]
Contexts == INSTANCE DialogContexts
              WITH dialogs <- dialog, context <- Found, asked <- stopAsked
Follows == Contexts!Next \/ UNCHANGED Contexts!contextVars

LEMMA FollowsNothing ==
  ASSUME UNCHANGED <<dialog, stopAsked>>, \A s \in Stream : ackMap'[s] = ackMap[s]
  PROVE  Follows
<1>1. Found' = Found BY DEF Found
<1> QED BY <1>1 DEF Follows, Contexts!contextVars

LEMMA FollowsEnd ==
  ASSUME TypeOK, NEW n \in 1..Len(dialog), dialog' = Ended(n), UNCHANGED <<ackMap, stopAsked>>
  PROVE  Follows
<1>1. n \in DOMAIN dialog BY DialogNumbers
<1>2. Found' = Found BY DEF Found
<1>3. Contexts!End(n) BY <1>2 DEF Contexts!End, Ended
<1> QED BY <1>1, <1>3 DEF Follows, Contexts!Next

(* A context is removed from the map under a key that was asked for.        *)
LEMMA FollowsLose ==
  ASSUME TypeOK, NEW k \in Key, k \in Stream => k \in stopAsked,
         ackMap' = [ackMap EXCEPT ![k] = 0], UNCHANGED <<dialog, stopAsked>>
  PROVE  Follows
<1>0. ackMap \in [Key -> Opened] /\ Stream \subseteq Key BY DeviceIsNoStream DEF TypeOK
<1>1. CASE k \in Stream
  <2>1. Found' = [Found EXCEPT ![k] = 0] BY <1>0, <1>1 DEF Found
  <2>2. Contexts!Lose(k) BY <1>1, <2>1 DEF Contexts!Lose
  <2> QED BY <1>1, <2>2 DEF Follows, Contexts!Next
<1>2. CASE k \notin Stream
  <2>1. \A s \in Stream : ackMap'[s] = ackMap[s] BY <1>0, <1>2
  <2> QED BY <2>1, FollowsNothing
<1> QED BY <1>1, <1>2

LEMMA FollowsInvite ==
  ASSUME TypeOK, NEW i \in Inviter, SendInvite(i)
  PROVE  Follows
<1> USE DEF chanVars, mediaVars, countVars
<1>1. CASE UNCHANGED dialog BY <1>1, FollowsNothing DEF SendInvite
<1>2. CASE ~UNCHANGED dialog
  <2>1. PICK s \in Stream : s = inviter[i].stream
    BY InviterBusy DEF SendInvite, Inviting
  <2>2. dialog' = Append(dialog, [stream |-> s, state |-> "early"]) BY <1>2, <2>1 DEF SendInvite
  <2>3. Found' = Found BY DEF SendInvite, Found
  <2>4. Contexts!Open(s) BY <2>2, <2>3 DEF Contexts!Open, SendInvite
  <2> QED BY <2>4 DEF Follows, Contexts!Next
<1> QED BY <1>1, <1>2

LEMMA FollowsStore ==
  ASSUME TypeOK, Numbers, NEW i \in Inviter, SetStreamContext(i)
  PROVE  Follows
<1>1. PICK n \in 1..Len(dialog) : n = inviter[i].dialog /\ dialog[n].stream = inviter[i].stream
  BY DEF SetStreamContext, Numbers, WithDialog
<1>2. inviter[i].stream \in Stream BY InviterBusy DEF SetStreamContext, Inviting
<1>3. ackMap' = [ackMap EXCEPT ![dialog[n].stream] = n]
  BY <1>1 DEF SetStreamContext, WithContext
<1>4. dialog[n].stream \in Stream /\ ackMap \in [Key -> Opened] /\ Stream \subseteq Key
  BY <1>1, <1>2, DeviceIsNoStream DEF TypeOK
<1>5. Found' = [Found EXCEPT ![dialog[n].stream] = n] BY <1>3, <1>4 DEF Found
<1>6. Contexts!Store(n) BY <1>5 DEF Contexts!Store, SetStreamContext
<1>7. n \in DOMAIN dialog BY <1>1, DialogNumbers
<1> QED BY <1>6, <1>7 DEF Follows, Contexts!Next

(* The ACK makes a dialog live that has kept its context.                   *)
LEMMA FollowsAck ==
  ASSUME TypeOK, Numbers, Stored, NEW i \in Inviter, Ack(i)
  PROVE  Follows
<1> USE DEF chanVars, mediaVars, countVars
<1>1. CASE UNCHANGED dialog BY <1>1, FollowsNothing DEF Ack
<1>2. CASE ~UNCHANGED dialog
  <2>1. PICK n \in 1..Len(dialog) : n = inviter[i].dialog
    BY DEF Ack, Numbers, WithDialog
  <2>2. dialog' = [dialog EXCEPT ![n].state = IF @ = "early" THEN "live" ELSE @]
    BY <1>2, <2>1 DEF Ack
  <2>3. dialog \in Seq(Dialog) /\ dialog[n] \in Dialog /\ DOMAIN dialog = 1..Len(dialog)
    BY DEF TypeOK
  <2>4. dialog[n].state = "early"
    <3>1. CASE dialog[n].state # "early"
      <4>1. [dialog[n] EXCEPT !.state = IF @ = "early" THEN "live" ELSE @] = dialog[n]
        BY <2>3, <3>1 DEF Dialog
      <4>2. dialog' = [dialog EXCEPT ![n] = dialog[n]] BY <2>2, <4>1
      <4> QED BY <1>2, <2>3, <4>2
    <3> QED BY <3>1
  <2>5. dialog' = [dialog EXCEPT ![n].state = "live"] BY <2>2, <2>4
  <2>6. Kept(n) BY <2>1 DEF Ack, Stored
  <2>7. dialog[n].stream \in Stream BY <2>3 DEF Dialog
  <2>8. Contexts!Stoppable(n) BY <2>6, <2>7 DEF Kept, Found, Contexts!Stoppable
  <2>9. Found' = Found BY DEF Ack, Found
  <2>10. Contexts!Confirm(n) BY <2>4, <2>5, <2>8, <2>9 DEF Contexts!Confirm, Ack
  <2>11. n \in DOMAIN dialog BY <2>3
  <2> QED BY <2>10, <2>11 DEF Follows, Contexts!Next
<1> QED BY <1>1, <1>2

LEMMA InviterFollows ==
  ASSUME TypeOK, Numbers, Stored, NEW i \in Inviter,
         DispatchInvite(i) \/ InviterStep(i) \/ \E s \in Stream : Diagnose(i, s)
  PROVE  Follows
<1> USE DEF chanVars, mediaVars, countVars
<1>1. CASE SetDeviceContext(i)
  <2>1. \A s \in Stream : ackMap'[s] = ackMap[s]
    BY <1>1, DeviceIsNoStream DEF SetDeviceContext, TypeOK
  <2> QED BY <1>1, <2>1, FollowsNothing DEF SetDeviceContext
<1>2. CASE DispatchInvite(i) \/ RtpPub(i) \/ AckRtp(i) \/ Mark(i) \/ \E s \in Stream : Diagnose(i, s)
  <2>1. UNCHANGED <<dialog, ackMap, stopAsked>>
    BY <1>2 DEF DispatchInvite, RtpPub, AckRtp, Mark, Diagnose
  <2> QED BY <2>1, FollowsNothing
<1> QED BY <1>1, <1>2, FollowsInvite, FollowsStore, FollowsAck DEF InviterStep

LEMMA StopperFollows ==
  ASSUME TypeOK, Asked, NEW p \in Stopper,
         \/ StopperStep(p)
         \/ \E s \in Stream : PubStopped(p, s) \/ StopKeepalive(p, s) \/ StopVideo(p, s)
  PROVE  Follows
<1> USE DEF chanVars, mediaVars, countVars
<1>1. CASE StopQueue(p)
  <2>1. PICK s \in Stream : s = stopper[p].stream BY <1>1, StopperBusy DEF StopQueue, Stopping
  <2>2. UNCHANGED stopAsked \/ stopAsked' = stopAsked \cup {s} BY <1>1, <2>1 DEF StopQueue
  <2>3. UNCHANGED <<dialog, ackMap>> BY <1>1 DEF StopQueue
  <2>4. CASE UNCHANGED stopAsked BY <2>3, <2>4, FollowsNothing
  <2>5. CASE stopAsked' = stopAsked \cup {s}
    <3>1. Found' = Found BY <2>3 DEF Found
    <3>2. Contexts!Ask(s) BY <2>3, <2>5, <3>1 DEF Contexts!Ask
    <3> QED BY <3>2 DEF Follows, Contexts!Next
  <2> QED BY <2>2, <2>4, <2>5
<1>2. CASE StopForget(p)
  <2>1. PICK s \in Stream : s = stopper[p].stream BY <1>2, StopperBusy DEF StopForget, Stopping
  <2>2. s \in stopAsked BY <1>2, <2>1 DEF StopForget, Asked
  <2>3. s \in Key BY <2>1, DeviceIsNoStream
  <2>4. ackMap' = [ackMap EXCEPT ![s] = 0] /\ UNCHANGED <<dialog, stopAsked>>
    BY <1>2, <2>1 DEF StopForget
  <2> QED BY <2>2, <2>3, <2>4, FollowsLose
<1>3. CASE StopMedia(p) \/ \E s \in Stream : PubStopped(p, s) \/ StopKeepalive(p, s) \/ StopVideo(p, s)
  <2>1. UNCHANGED <<dialog, ackMap, stopAsked>>
    BY <1>3 DEF StopMedia, PubStopped, StopKeepalive, StopVideo, StopRequest
  <2> QED BY <2>1, FollowsNothing
<1> QED BY <1>1, <1>2, <1>3 DEF StopperStep

LEMMA ByerFollows ==
  ASSUME TypeOK, Numbers, Asked, NEW b \in Byer, DispatchBye(b) \/ ByerStep(b)
  PROVE  Follows
<1> USE DEF chanVars, mediaVars, countVars
<1>1. CASE ByeSend(b)
  <2>1. UNCHANGED <<ackMap, stopAsked>> BY <1>1 DEF ByeSend
  <2>2. CASE UNCHANGED dialog BY <2>1, <2>2, FollowsNothing
  <2>3. CASE ~UNCHANGED dialog
    <3>1. PICK n \in 1..Len(dialog) : n = byer[b].dialog BY <1>1 DEF ByeSend, Numbers
    <3>2. dialog' = Ended(n) BY <1>1, <2>3, <3>1 DEF ByeSend
    <3> QED BY <2>1, <3>2, FollowsEnd
  <2> QED BY <2>2, <2>3
<1>2. CASE ByeRemove(b)
  <2>1. PICK k \in Key : k = byer[b].key BY <1>2, ByerBusy DEF ByeRemove, Byeing
  <2>2. k = DeviceKey \/ k \in stopAsked BY <1>2, <2>1 DEF ByeRemove, Asked
  <2>3. k \in Stream => k \in stopAsked BY <2>2, DeviceIsNoStream
  <2>4. ackMap' = [ackMap EXCEPT ![k] = 0] /\ UNCHANGED <<dialog, stopAsked>>
    BY <1>2, <2>1 DEF ByeRemove, Removed
  <2> QED BY <2>3, <2>4, FollowsLose
<1>3. CASE DispatchBye(b) \/ ByeGet(b)
  <2>1. UNCHANGED <<dialog, ackMap, stopAsked>> BY <1>3 DEF DispatchBye, ByeGet
  <2> QED BY <2>1, FollowsNothing
<1> QED BY <1>1, <1>2, <1>3 DEF ByerStep

LEMMA EnvironmentFollows ==
  ASSUME TypeOK, Environment
  PROVE  Follows
<1> USE DEF chanVars, procVars, mediaVars, countVars
<1>1. ASSUME NEW n \in 1..Len(dialog), GiveUp(n) PROVE Follows
  <2>1. dialog' = Ended(n) /\ UNCHANGED <<ackMap, stopAsked>> BY <1>1 DEF GiveUp
  <2> QED BY <2>1, FollowsEnd
<1>2. (\E n \in 1..Len(dialog) : GiveUp(n)) \/ UNCHANGED <<dialog, ackMap, stopAsked>>
  BY DialogNumbers DEF Environment, MediaStatus, PubStarts, PubEnds, WaitTimeout
<1> QED BY <1>1, <1>2, FollowsNothing

LEMMA NextFollows == Inv /\ Stored /\ [Next]_vars => Follows
<1> SUFFICES ASSUME Inv, Stored, [Next]_vars PROVE Follows OBVIOUS
<1>1. TypeOK /\ Numbers /\ Asked BY DEF Inv
<1>2. ASSUME NEW h \in Handler, HandlerStep(h) \/ \E s \in Stream : InviteBegin(h, s)
      PROVE  Follows
  <2>1. UNCHANGED <<dialog, ackMap, stopAsked>>
    BY <1>2 DEF HandlerStep, InviteBegin, Probe, Correct, Enqueue, Release
  <2> QED BY <2>1, FollowsNothing
<1>3. CASE UNCHANGED vars BY <1>3, FollowsNothing DEF vars
<1>4. CASE Next
  BY <1>1, <1>2, <1>4, NextSplit, InviterFollows, StopperFollows, ByerFollows, EnvironmentFollows
<1> QED BY <1>3, <1>4

LEMMA InitContexts == Init => Contexts!Init
  BY DeviceIsNoStream DEF Init, Contexts!Init, Found

(* Pipelines that store contexts side by side, stops that remove them in    *)
(* two places and the BYE goroutines implement the dialogs and contexts of  *)
(* DialogContexts: a dialog goes live once and only when a stop finds it, a *)
(* stream's context is of its own dialogs and goes only when asked for.     *)
THEOREM StreamKeepsContexts == Spec => Contexts!Spec
<1>1. Inv /\ Stored /\ [Next]_vars => [Contexts!Next]_(Contexts!contextVars)
  BY NextFollows DEF Follows
<1> QED BY <1>1, InvAlways, InitContexts, InitStored, NextStored, PTL DEF Spec, Contexts!Spec
=============================================================================
