# skeyevss backend, specified in TLA+

The repository is a GB28181 video platform in Go: cameras register over SIP,
the service keeps track of which of them are online, asks them for live video
with SIP INVITE, has a media server (SMS, external) receive, distribute and record
the stream, and stores everything in a database behind an RPC service. This
directory specifies the parts of it whose correctness depends on the order in
which goroutines, messages, timers and restarts meet, model-checks them with TLC
and proves the most important properties with TLAPS.

## 1. Inventory

Paths are relative to `src/core`. `vss` stands for `app/sev/vss/internal`.

| Component | State | Operations | Interacts with |
|---|---|---|---|
| Device presence: `vss/logic/gbs_sip/{register,keepalive}.go`, `vss/logic/gbs_proc/{heartbeat_offline,set_device_online_state,catalog}_loop.go` | `SipCatalogLoopMap`, `SipHeartbeatLoopMap`, `DeviceOnlineStateUpdateMap`, three channels of 100, devices table | REGISTER, unregister, keepalive, three receiving loops, three tickers, batch writers | database service; everything that asks "is the device reachable" |
| Live streams: `vss/logic/http/gbs/{video_live_invite,stop_stream}.go`, `vss/logic/http/video/stream_stop.go`, `vss/logic/gbs_proc/send_sip_proc.go`, `vss/logic/http/notify` | `InviteRequestState` (guard), `PubStreamExistsState`, `AckRequestMap`, channels for INVITE and BYE | HTTP invite, INVITE pipeline, stop requests, BYE, media status, media server callbacks | device, media server, the service's own HTTP interface |
| Throttle: `pkg/dt/throttle_fixed_grid.go` | an entry per key in a concurrent map, timers | call, timer, idle removal, sweep | backend, database service, notifications, SIP sender |
| Pull-stream check: `vss/logic/gbs_proc/check_device_online_state_loop.go` | `executing` flag | check of RTSP/RTMP/ONVIF sources every 30 s | report channel of presence |
| Recordings query: `vss/logic/http/base/device_videos.go`, `vss/logic/gbs_sip/video_records.go` | `FetchDeviceVideoState`, `SipMessageVideoRecordMap` | query, partial answers, delayed removals | SIP sender |
| Other SIP messages and counters: `vss/pkg/sip/gbs_send.go`, `common/stream` | SN map, SSRC counter, playback counter | next number, next name | all senders |
| WebSocket hub: `vss/handler/ws` | client cache, four channels | connect, read, dispatch, broadcast, close, heartbeat, token check | talk, back-office pages |
| Talk: `vss/logic/ws/*talk*` | `WSTalkUsageStatus` | occupy a device, send audio, give it back | hub, SIP sender |
| Server-sent events: `vss/server/sse.go`, `vss/logic/sse` | a channel per connection | produce, write, close | diagnosis, SIP log |
| Broadcast manager: `pkg/broadcast` | named channels with usage counts | send, register, unregister, clean | SIP log |
| Scheduler and recording plans: `app/sev/cron`, `common/videoProject` | plan table, Redis lock, `executing` and `execChannelUniqueIds` of each process, two queues | tick, compute what is planned, start and stop recording | database service, Redis, media servers, VSS |
| Settings refresh: `vss/logic/proc/fetch_data_proc.go` | pointers in the service context | reload | all of VSS |
| ORM and its cache: `pkg/orm`; database service: `app/sev/db` | tables, results of queries in memory | CRUD; look-up before and keeping or deleting after a statement | all |
| Gatekeeper, pub/sub, S3, maps: `pkg/{gatekeeper,pubsub,s3obs,bmap}` | | | imported by nobody |
| Back office, web server, outside clients, vendored segmentation, generated code | | forms, static files, I/O | |

How they interact: an HTTP or SIP handler runs in a goroutine of its own and
hands work over by sending to a bounded channel; a loop receives from that
channel, keeps a map and acts on a ticker; the results go to the database
service by RPC. Maps and sets (`pkg/xmap`, `pkg/set`) make single operations
atomic; nothing makes a *sequence* of operations atomic, except the guard's lock
in the invite handler and the mutex of a throttle entry.

What is hard in it: check-then-act sequences over the shared maps, entries copied
by a loop and acted on later, messages overtaken by other messages, contexts
stored under two keys, handlers that block on a channel, timers that expire
while they are being replaced, and the loss of all memory at a restart.
`PROJECT.json` lists these places one by one under `hazards`, with the properties
that watch them.

What makes each component correct:

* presence: nobody is online who was not granted a registration, and nobody
  reachable but by one or in the name of one who was; no keepalive prolongs a registration; a device that is dead stays dead until it
  registers; reports are not lost; silent devices are noticed; nobody blocks.
* live streams: one pipeline at work per stream; a context belongs to its stream;
  a stream that runs can be stopped; a stop reaches the device; the guard is
  always given back.
* throttle: a call is never lost nor executed twice; a slot is executed once, at
  its end.
* recordings query: an answer is complete; what a request has seen is forgotten.
* hub: whoever is closed is closed once and for good, whoever is silent goes, a
  request is answered; talk: one talker per device, given back at the end.
* SSE and broadcast: nothing is sent on a closed channel, what is dropped is told,
  a connection ends when its client is gone.
* recording plans: one process computes at a time; what is planned is recorded.
* cache: an answer is stale only for a reason, and not for ever.

## 2. Modules

Every shared access of the code is a step of its own: a step is never wider than
one of them and never narrower. Goroutines are state (`pc` at the next shared
access); pools of them (`Handler`, `Inviter`, ...) stand for "a goroutine per
request": a pool that is exhausted delays a request, which the scheduler may do as
well. History variables are marked as such.

### DevicePresence and DeviceLife (`MCDevicePresence`, `DevicePresenceProofs`)

One variable per shared map, channel and table, one per kind of goroutine.

| TLA+ | code |
|---|---|
| `row` | `devices` rows: exists, `online`, `expire` |
| `reachable`, `watch`, `report` | `SipCatalogLoopMap`, `SipHeartbeatLoopMap`, `DeviceOnlineStateUpdateMap` |
| `catalogCh`, `watchCh`, `reportCh` | `SipCatalogLoop`, `SipHeartbeatLoop`, `SetDeviceOnline` |
| `handler` | the goroutines of SIP handlers |
| `beat`, `flush`, `writer` | `HeartbeatOfflineLogic.proc`, `SetDeviceOnlineStateLogic.proc`, `setDevice` |
| `Register` ... `RegisteredWatch` | `RegisterLogic.DO`, its tail in a goroutine |
| `Keepalive` ... `KeepaliveWatch` | `KeepaliveLogic.DO` |
| `CatalogReceive`, `WatchReceive`, `ReportReceive` | the receiving goroutines |
| `BeatTick`, `BeatExamine`, `BeatReport` | one tick of the heartbeat loop: copy, judge and remove, report |
| `FlushTick`, `FlushClear` | one tick of the report loop: copy and start writers, clear |
| `WriterCatalog`, `WriterRow` | `setDevice` |
| `Tick` | a second, with the sweep of the catalog loop |
| `DeleteDevice` | `DeviceDelete` of the database service, for the back office: nobody tells VSS, whose maps, channels and goroutines go on with the device |
| `Restart` | the process is restarted; only `row` survives |

A keepalive names a device twice, and nothing compares the two: the row, the online
report and the supervision go by the `DeviceID` of the body (`dev`), the look-ups in
both maps and the catalog task by the id of the SIP From header (`from`). So an id that
never registered becomes reachable when a registered device's keepalive carries it
(`keepalive.go:104`), and a device may be supervised by the expiry of another
(`keepalive.go:117`). `aliases` is history: the other ids under which a device's
keepalives were accepted since the start. `OnlyGrantedOnline` and `WatchWithinGrant` make
these ids their only exception: whoever is reachable without a grant is one
(`Named`), and an expiry to come that was not granted to the device itself was granted
to somebody and taken over by such a keepalive (`Borrowed`).

`DeviceLife` is what presence promises of a device, without maps, channels,
goroutines and clocks. A device is unknown until a REGISTER of it is granted, which
makes it alive; while it lives it is recorded online and offline any number of times;
some time after it was recorded offline it is dead, and stays dead until it registers
again; only a device that has registered, or whose id a living device gave for its own
(`Name`), becomes reachable, and a restart makes all of them unreachable. `FollowsLife` says that `DevicePresence` implements it (`Phase`: a
device that was granted a registration is dead when its row says offline, the
registration is at its end and nothing in flight says otherwise), as a property of the
run and as a theorem.

The RPCs of REGISTER and of the writers may fail. What a handler queues for the
device (catalog and device information queries) goes to a queue whose consumer
starts a goroutine per message and is not modelled. Assumed: a query of the
devices table sees the row as it is. The database service answers from its row
cache, which `OrmCache` shows to lag behind by up to its expiry (a minute) after a
late query or a raw statement; the guarantees of presence are those of a fresh row.

### StreamDialog and DialogContexts (`MCStreamDialog`, `StreamDialogProofs`)

| TLA+ | code |
|---|---|
| `guard`, `exists`, `ackMap` | `InviteRequestState`, `PubStreamExistsState`, `AckRequestMap` (dialogs by number) |
| `inviteCh`, `byeCh` | `SipSendVideoLiveInvite`, `SipSendBye` |
| `handler`: `InviteBegin` ... `Release` | `inviteLogic.Invite` |
| `inviter`: `DispatchInvite` ... `Mark` | `SendLogic.VideoLiveInvite` |
| `Diagnose`, `DiagnoseStops` | the channel diagnosis: it runs the same pipeline without the guard, and when the pipeline has succeeded stops the stream |
| `stopper`: `StopKeepalive`, `StopVideo`, `PubStopped`, `StopQueue`, `StopMedia`, `StopForget` | `stopStreamLogic`, `StreamStopLogic`, `setStreamState` |
| `byer`: `DispatchBye` ... `ByeRemove` | `SendLogic.bye` |
| `MediaStatus` | `MediaStatusLogic.DO` |
| `dialog`, `sms`, `ended` | environment: the device's dialogs, the media server's state of a stream and the callbacks it owes |

The environment accepts, refuses or loses an INVITE, gives a dialog up without
ACK, and the media server gets a publisher only from a live dialog, loses it at
any time or gives up waiting. `ByeMsg.meant` and `stopAsked` are history.

`DialogContexts` is what the live streams promise, without the guard, channels,
goroutines and the entry under the device's ID: a dialog is early, goes live at most
once, and only while a stop of its stream finds it (or was asked for already, or may
find another dialog of the stream); an ended one stays ended; the context of a stream
is that of one of its dialogs and is lost only after a stop of that stream was asked
for. That `StreamDialog` implements it is a theorem.

### ThrottleFixedGrid and TrailingCalls (`ThrottleProofs`)

`dt.ThrottleFixedGridTrailing` for one key. `current` is the key's entry in the
map, `entry` all entries that were ever created, since a caller or a timer may
hold one that has left the map. A section under the entry's mutex is one action
(`Accept`, `Fire`, `Clean`), the map accesses before it are others (`Obtain`,
`Retry`); `Expire` is the runtime that starts a timer's goroutine, which then waits
for the mutex (`firing`). `slots` is history: where each call was put.

`TrailingCalls` is what the throttle promises, without entries, timers, retries and
removals: one waiting call per key; a newer call of its slot takes its place, one
of another slot makes it due; every due call is executed once. `KeepsContract`
says that `ThrottleFixedGrid` implements it (`waiting` is the call of the key's
current entry), as a property of the run and as a theorem.

### WsHub and HubSessions (`WsHubProofs`)

| TLA+ | code |
|---|---|
| `client`, `cache` | `WSClient` (`IsClosed`, `CloseChanSignal`, `ActiveTime`), `WSClientCache` keyed by connection type and user |
| `receiveCh`, `responseCh`, `closeCh`, `broadcastCh` | the four channels of `WSProc` |
| `Login`, `Upgrade` | `Handler.Do`: the client is indexed before the upgrade |
| `ReadText`, `ReadError`, `Deliver`, `AskClose` | `Proc.reader` |
| `TakeMessage` ... `ReceiverDrop` | `Proc.Receiver`, `dispatcher`, `RGBSTalkAudioSendLogic.Do`, `closer`; a case of the select per action |
| `BeatExamine`, `BeatMark`, `BeatDrop` | `Interval.heartbeat` |
| `VerifyExamine`, `VerifySend`, `VerifyDrop` | `Interval.tokenVerify` |
| `Notify` | the goroutine a talk request leaves behind |
| `talker` | `WSTalkUsageStatus` of one device: looked up by `TakeMessage`, set by `Occupy`, given back by `SendBusy` and `SendFree` |

`HubSessions` is what the hub promises of its connections, without goroutines,
channels and sockets: a connection logs in once and takes its user's place in the
index, is marked as closed once, and released once after that, which empties the place
of its user, whoever has it by then. That `WsHub` implements it is a theorem.

The router registers two requests, the heartbeat and the talk audio; a talk
session cannot exist in this edition, so talk audio always ends with an error.

### RecordingPlan (`MCRecordingPlan`, `RecordingPlanProofs`)

Several cron processes (`Node`), each with its jobs, a Redis lock, the plans'
hours, two queues per process and the requests to media servers.

| TLA+ | code |
|---|---|
| `GetTimeRanges`, `InRange`, `Planned` | `VideoPlain.GetTimeRanges` and the selection of channels in `do` |
| `Begin`, `SetExecuting` | `CrontabHandler.start`: `Executing` is read by one goroutine and set by another |
| `Acquire`, `Release`, `Expire` | `AcquireLock` (SET NX PX), `ReleaseLock` (deletes when the value is the process's address), the key's expiry |
| `FetchPlans`, `FetchChannels`, `SendStart`, `SendStop`, `End` | `VideoProjectLogic.do`, with `execChannelUniqueIds` |
| `TakeStart`, `TakeStop`, `AskServer`, `Panic` | `makeRecord`, `StartRecording`, `StopRecording`; a channel that has no row ends the process |
| `EditPlan`, `DeleteChannel`, `Kill`, `Tick` | environment |

A request to Redis, to the database service or to a media server may fail at any point;
one that takes the lock may also have taken it although its answer is lost, and one that
gives it back may leave it there until it expires.

### SipLogs (`MCSipLogs`, `SipLogsProofs`)

The log viewer over server-sent events: the HTTP handler of the connection
(`Connect`, `Check`, `Store`, `Write`, `Close`, `Leave`), the goroutine of
heartbeats and of the end (`Beat` ... `Unregister`), the receivers of `do()`
(`Register` ... `SendOnClosed`), the loop that logs SIP messages (`Send` ...
`SendPut`) and `BroadcastManager` between them (`info`, `entry`): an entry is looked
up, counted and used in separate steps, as in the code. A panic in a goroutine
nobody recovers ends the process (`Panic`).

### VideoRecords (`MCVideoRecords`, `VideoRecordsProofs`)

Queries of the recordings of a channel by day: `guard` is `FetchDeviceVideoState`,
`cache` `SipMessageVideoRecordMap` by serial number, `removal` the timers that
remove from either half a second after a return. `Begin` ... `TimeOut` are
`VideosLogic.DO`, `Dispatch` the query by `SendLogic`, `GetList` and `SetList` the
two halves of the handler of an answer's part. Parts are lost, reordered and
handled side by side. `NothingLeft` says what is forgotten: the guard, and whatever parts
are in the map while the request that asked for them polls. A part that is handled
after the request's time-out, or written back after the removal of the answer, stays in
the map; only the next query of the day removes it.

### OrmCache (`OrmCacheProofs`)

`CachePlugin` for one cached table of the database service: `Lookup`, `Select`,
`SelectSome`, `SelectNothing` and `Keep` are a query (`before`, the statement, `after`), `Change`, `Fail`, `After`,
`DeleteKey` and `Deleted` a statement that changes the table, `Tick` the expiry.
The table is the number of its changes; a result remembers which contents it comes
from, and whether rows are missing (`torn`): `after` decides by the number of rows whether
a result is kept and never looks at the query's error, so what a query had read before it
failed is kept and answers later ones (`SelectSome`). A raw statement has no model, so
`after` leaves the cache alone.

## 3. What is checked

TLC, `-workers 2`; each passing run has no error and no bound-related dead end
except where `CHECK_DEADLOCK FALSE` says that the system may come to rest (no more
requests within the bound).

| Run | Question | Bounds |
|---|---|---|
| `presence` | `TypeOK`, `OnlyGrantedOnline`, `WatchWithinGrant`, `NoResurrection`, `FollowsLife`, `HandlersFinish`, `StaleWatchEnds` | 2 devices, deleted at any time, 2 handlers, 2 writers, 2 requests, 1 restart, channels of 1, 3 instants |
| `stream` | `TypeOK`, `GuardHeld`, `ContextOfStream`, `LiveDialogKept` | 2 streams, 2 handlers, 2 pipelines, 1 stopper, 1 BYE goroutine, channels of 1, 2 invites or diagnoses |
| `stream_live` | `GuardReleased`, `StopClearsContext`, `PipelineEnds` | 1 stream, 1 of each goroutine, 1 invite, 2 stops or notifications |
| `throttle` | `TypeOK`, `PendingHasTimer`, `NoCallLost`, `RunsOnce`, `EveryCallEnds`, `KeepsContract` | 2 callers, 3 calls, slots of 2 instants, 6 instants, 2 retries |
| `ws` | `TypeOK`, `ReleasedNotListed`, `UnlistedHadNamesake`, `TalkFree`, `SilentUnlisted`, `ClosedIsReleased` | 2 connections of one user, broadcast channel of 2, the others of 1, 2 messages or expired tokens, 2 instants |
| `plan` | `TypeOK`, `LockExclusive`, `PlannedInstants`, `PlannedRecorded` | 2 processes with a job each, 2 channels, 1 media server, 3 hours of 1 instant, 1 edit, deletion, crash or failure; three days (`MCRecordingPlan`) |
| `siplogs` | `TypeOK`, `Accounted`, `StaleTakesFew`, `ConnectionEnds` | 2 connections, 1 topic, 2 lines, channels of 1 |
| `records` | `TypeOK`, `FirstAnswerComplete`, `NothingLeft` | 2 requests, 3 days of 2, 1 and 0 recordings, 2 of them with one serial number |
| `cache` | `TypeOK`, `StaleExplained`, `FreshInTheEnd` | 2 queries, 2 readers, 2 writers, 2 changes, 1 query that fails midway, expiry after 2 ticks |

Three runs state what a document or a comment says and show a behaviour of the code
that contradicts it (`findings` in `PROJECT.json` quotes each line):

| Run | Stated | Behaviour |
|---|---|---|
| `stream_bye` | a stop sends BYE | `/video/stream/stop` removes the context before the BYE goroutine looks it up |
| `ws_stuck` | a request with a response gets it | the receiver, the only consumer, waits for room in its own channel and the hub stands still |
| `siplogs_closed` | nothing is sent after the channel was closed | a receiver that tested `closeFlag` earlier sends, and the panic ends VSS |

### Why the bounds are enough

*Channels of 1* instead of 100: a full channel is the interesting case, and it
needs few messages. *2 handlers*: every hazard found is a race of two handlers,
or of one with a loop. *Clock* of `presence`: `StartTime` 4, `MaxTime` 6,
`HeartbeatTimeout` 2, expiries of 0 and 1 second, grace and margin 0, so that
registrations expire, heartbeats time out and both happen at a boundary within the
bound; `StartTime` exceeds both intervals, as Unix time does. *2 devices*: the one whose
id a keepalive of the other gives; what else devices share are the channels and the
batches, and the proofs hold for any set of devices. A borrowed expiry takes two
REGISTERs and a keepalive, one request more than the run has; the theorem covers it.
`MCDevicePresence` leaves out behaviours that differ only in which of two idle goroutines
takes a task or which device comes first. *2 streams*: the shared key of `AckRequestMap` matters from two on.
*3 calls* in the throttle: one pending, one that catches up, one more in the same
slot. *2 connections of one user*: the namesake that takes an entry over; they log in
in the order of their numbers, which nothing else depends on. *Broadcast channel of
2*: a talk message broadcasts twice, and with room for one the receiver always waits
for itself, which `ws_stuck` shows.
*1 event* in `plan`: a single fault at any point, and what the second process makes
of it. The three days of `MCRecordingPlan` see to it that `PlannedRecorded` has
something to say with each of them: in the first a channel that was not planned is, from
the second instant on, and stays planned whatever happens, so a crash, a failed request,
a failed look-up or a lock that is left behind falls before, during or after its start;
in the second the channel's period ends and an edit has it recorded again, which a late
stop of either process may meet; in the third another channel's period ends at that
time and that channel may be deleted, so the panic over its missing row ends a process that
has the first one to start. The deletion of a channel that stays planned is outside the
property: it ends every process that computes, again and again. *3 days*: two with one serial number and different numbers of
recordings, one without. *2 changes* in `cache`: one that a late query misses and
one after it. *1 query that fails midway*: its result is kept, hit and thrown away like any
other; with queries that always fail nothing is ever answered in full, so
`FreshInTheEnd` speaks of the time after the last one. `MaxRequests`, `MaxRestarts`, `MaxInvites`, `MaxStops`, `MaxCalls`,
`MaxMessages`, `MaxEvents`, `MaxLines`, `MaxWrites`, `MaxFails`, `MaxTime` and the plans a day
may start with (`InitialPlans`) are the only bounds and appear in guards and `Init` only. In `stream` the symmetric sets are goroutine pools and
streams; runs with liveness use no symmetry.

### Fairness

Weak fairness of every goroutine's next step, of every receiving loop and of the
clock: Go's scheduler is preemptive and runs every runnable goroutine; a ticker
fires again. Goroutines blocked on a full channel are not enabled, so the
liveness properties do say that nobody waits for ever. No fairness for requests,
restarts, devices or the media server. In the throttle, timers expire and their
goroutines get the mutex; callers owe nothing before they begin. `sync.Mutex` is
fair enough for weak fairness: a waiter is starved for at most a millisecond
before the mutex is handed to it. Strong fairness is used once, for `End` in
`SipLogs`: a `select` picks at random among what is ready, and the cancelled context
stays ready from then on. In `WsHub` only the receiver, the heartbeat and the clock
are fair, and the receiver's select owes nothing to any one channel. In
`RecordingPlan` the lock of a process that is gone expires, and of the requests for one
channel some one gets on; in `OrmCache` the
statements owe nothing, old results go by expiry.

## 4. What is proved

For all values of the constants that satisfy the modules' assumptions
(`PresenceAssumption`, `StreamAssumption`, `ThrottleAssumption`, `PlanAssumption`,
`CacheAssumption`, `HubAssumption`, `RecordsAssumption`, `SipLogsAssumption`): any
number of devices, streams, connections, processes, goroutines, channel capacity,
time, requests and restarts.

`DevicePresenceProofs`

| Theorem | Argument |
|---|---|
| `TypeCorrect` | `TypeOK` is inductive; the maps stay keyed because `Put` drops the old entry first |
| `RegistrationNotProlonged` | `WatchInv`: every expiry in the heartbeat map, in the heartbeat channel or held by a handler past its upsert is covered by a registration, the device's own or, after a keepalive under another id, somebody's; a row's is always its own device's; no handler holds a time later than the clock, and one that goes by another id is on record. Needed because keepalives copy expiries from row to handler to channel to map and back, under two ids |
| `OnlyRegisteredOnline` | `GrantInv`: a device without a grant is `Quiet`, that is, no handler's report, report in the map or the channel, or writer says it is online; besides, its row is not online and no handler is past the acceptance of its REGISTER or keepalive; and every online catalog message or reachable entry is of a device that was granted a registration or named by one that was (`Introduced`) |
| `DeadStayDead` | by `TypeCorrect`, action by action: only `RegisterUpsert` makes a dead device anything else, as its row, if there is one, is refused by `Accepts` and time only helps |
| `PresenceFollowsLife` | the initial states map, and every step is a step of `DeviceLife` or a stutter, given `WatchInv`, `GrantInv` and the types: the upsert of a REGISTER is `Register` (`LifeRegisters`), an accepted keepalive `Name`, a receipt of the catalog loop `Reach` or `Forget`, a restart `Restart`, and all else `Report`: it records devices one way only, those it sets online are alive (`StepOnline`), and a phase changes only from alive to dead, of a device that is offline then (`StepPhase`) |

`StreamDialogProofs`

| Theorem | Argument |
|---|---|
| `StreamTypeOK` | `Inv`: types, the numbers of dialogs that pipelines and BYEs hold are of dialogs that were opened, and what a stop asked for is remembered in `stopAsked` |
| `StreamGuardHeld` | inductive with the types: `InviteBegin` is the only step that makes a handler busy, and it takes the guard in the same critical section |
| `StreamContext` | inductive with `Inv`: a pipeline stores its own dialog under its own stream's name; a BYE looks up under the name it was queued with |
| `StreamLiveDialogKept` | `Stored`: the dialog of a pipeline that has stored both contexts, and every live dialog, has its context in the map, unless the stream was asked to stop or has another dialog. Needed because the dialog becomes live with the ACK, some steps after the context was stored |
| `StreamKeepsContexts` | the initial states map, and every step is a step of `DialogContexts` or a stutter, given `Inv` and `Stored`: an accepted INVITE is `Open`, the second storing of a context `Store` (by `Numbers` the dialog is the stream's own), an ACK `Confirm` (by `Stored`), a stop's BYE request `Ask`, both removals of a context `Lose` (by `Asked`), a BYE that arrives or a device that gives up `End` |

`ThrottleProofs`

| Theorem | Argument |
|---|---|
| `TypeCorrect` | `TypeInv`: types, no epoch in the future (so slots are never negative), pending calls are calls that were accepted |
| `PendingKeptInMap` | the strengthening `ThrottleKeepsContract` needs, with no run of its own: inductive with `TypeInv`: an entry with a call is not `Idle`, and only a call through the map makes it owe one |
| `PendingKeepsTimer` | inductive with `TypeInv`: `Accept` always leaves an armed timer, `Expire` turns it into a goroutine, `Fire` takes the call |
| `CallsNotLost` | with `Places`: the pending call of an entry was put where the entry's slot says, and that slot has begun. Then a new call finds the pending one in its own slot (covered) or an earlier one (caught up), never a later one: `SlotsAdvance`, from the arithmetic lemmas `SlotBounds` and `SlotMonotone` |
| `CallsRunOnce` | `OnePlace`: a call is pending, handed over or executed, only one of these, and by `Places` pending in one entry only |
| `ThrottleKeepsContract` | the initial states map, and every step is a step of `TrailingCalls` or a stutter, given `TypeInv`, `PendingInMap` and `Places`: `Accept` and `Fire` map to `Accept` and `SlotEnds`, executions to `Execute`, all else stutters because an entry that leaves the map has no call |

`RecordingPlanProofs`

| Theorem | Argument |
|---|---|
| `PlanTypeOK` | by way of `Types`, which says which fields a job has at which `pc` |
| `PlanLockExclusive` | `LockInv`: a job between taking and releasing the lock is the only one, and the key holds its process's address; a key that was set while the answer was lost has nobody inside. A process gives the lock back by name; that never hits another's, since the job that releases is the one inside; only a lock whose holder is gone expires |
| `PlanInstants` | a fact about `GetTimeRanges` for every plan, instant and number of hours: the ranges of the marked hours cover every instant of marked hours and besides only one at which a run of them ends. The code counts that one in; `docs/vss/1.1.1录像计划.md:131` calls the ranges half open (左闭右开), so the property allows it and does not ask for it. The first and last hour of a run come from the least-element principle (`LeastElement`, with `<` well-founded on the naturals); the hour of an instant from division with remainder (`DivMod`, `HoursGrow`, `BeforeHour`) |

`OrmCacheProofs`

| Theorem | Argument |
|---|---|
| `CacheTypeOK` | `TypeOK` is inductive: an older result is a result as long as it can be found |
| `CacheStaleExplained` | inductive with the types: a change leaves a statement behind that is about to list the keys, the list contains the key as long as the result is there, and what is kept meanwhile is marked late; a truncated result is one of its table's as any other, so it needs an excuse of its own only as long as the table stays |

`WsHubProofs`

| Theorem | Argument |
|---|---|
| `HubTypeOK` | `TypeOK` is inductive, with `Named`: a goroutine in the middle of a close has a connection to close |
| `HubReleasedNotListed` | inductive with `Begun`: nobody is closed who has not logged in, and only a login indexes a connection, once; the close work deletes by the user the connection is listed under |
| `HubUnlistedHadNamesake` | `Supervised`: a connection in use is indexed, marked as closed, or has a namesake that logged in; and `Marked`: who does the close work has marked the connection before. Needed because the close work deletes by user, whichever connection is listed by then |
| `HubTalkFree` | inductive with the types: the device is free whenever a message is taken, and the handler of that message gives it back on either way out, after any wait for room; what becomes of its client meanwhile touches neither |
| `HubKeepsSessions` | the initial states map, and every step is a step of `HubSessions` or a stutter, given `Begun`: a login is `Login`, the first to mark a connection `Mark`, whichever of receiver, heartbeat and token check it is, and the one that passes the `Once` is `Release`; a second mark or close, and whatever happens on channels and sockets, stutters |

`VideoRecordsProofs`

| Theorem | Argument |
|---|---|
| `RecordsTypeOK` | `TypeOK` is inductive |
| `RecordsFirstAnswerComplete` | `Parted`: under a serial number that was queried once all parts are of one day, and none is in a list while it is on its way or in a handler's hands, so none gets into a list twice. Then a list as long as the answer announces holds every part, by counting (`FiniteSetTheorems`) |

`SipLogsProofs`

| Theorem | Argument |
|---|---|
| `LogsTypeOK` | inductive with `Fresh`: a connection that is not yet served has an empty channel and no goroutines, so the refusal finds room; and `Placed`: whoever counts, takes or unregisters has a `channelInfo` |
| `LogsStaleTakesFew` | `FewTaken`: the lines taken after the flag are no more than the receivers that took one and have not come back, and a receiver that sees the flag does not come back; there are no more receivers than topics (`FiniteSetTheorems`) |
| `LogsAccounted` | `Balanced`: with the equation, that only finitely many lines are under way and that only a heartbeat in progress holds a count. The lines in a channel are counted as the set of pairs of a position and a line told there, so that a put adds one message's lines and a take removes them by counting disjoint sets (`ToldMore`, `ToldLess`) instead of by induction over the sequence |

Each theorem in these tables states a property that some passing run checks, but for
three. `PendingKeptInMap` is implied by `KeepsContract`, which the run checks.
`HubKeepsSessions` and `StreamKeepsContexts` TLC finds true as well (the one on the
instance of `ws`, the other with two streams, a pipeline, a stop request and two
invites), but they make the runs `ws` and `stream`, the largest, too slow to keep there. The other way round, every invariant, action
property and refinement of the passing runs is proved. Only model-checked are the
liveness properties (`HandlersFinish`, `StaleWatchEnds`, `GuardReleased`,
`StopClearsContext`, `PipelineEnds`, `EveryCallEnds`, `SilentUnlisted`,
`ClosedIsReleased`, `PlannedRecorded`, `ConnectionEnds`, `NothingLeft`,
`FreshInTheEnd`), since fairness and ENABLED are out of the prover's reach.

## 5. Behaviours seen without a run of their own

The models contain these; no property claims they do not happen, since nothing in
the code keeps them from happening.

* presence: a keepalive under another id makes that id reachable and takes over the expiry
  it is supervised by (`keepalive.go:104`, `:117`); a report Set between `Values()` and `Clear()` is lost
  (`set_device_online_state_loop.go:87`) until the device's next keepalive; an entry
  refreshed after the heartbeat loop copied it is removed as stale
  (`heartbeat_offline_loop.go:48`); the offline report of an unregistering device
  may hit the row after it registered again (`register.go:170`).
* catalog: `item.Now % now == CatalogInterval` compares a Unix time with the
  interval (`catalog_loop.go:54`); the periodic query is never sent.
* streams: two pipelines of one stream run side by side, as the guard ends when the
  message is queued (`video_live_invite.go:112`); a media status of an earlier dialog
  ends the last one (`send_sip_proc.go:299`); the correction of a stale stream is
  refused and the refusal ignored (`video_live_invite.go:212`); a diagnosis ends a
  stream somebody watches; the mark of an existing stream may be set after the
  stream is gone (`send_sip_proc.go:361`).
* throttle: the goroutine of an expired timer may take the call of the next slot,
  before that slot ends (`throttle_fixed_grid.go:129`).
* hub: a connection whose entry a namesake took along is supervised by nobody, so it
  is not disconnected when it falls silent.
* log viewer: `Load` and `Store` of `sipLogIsActive` are two steps and let two viewers
  in; a receiver may register at a channel another viewer's end closes, and shows
  nothing; usage counts messages, so a channel that was sent to is not closed.
* recordings: 2024-01-02 and 2024-01-20 share a serial number and so an answer
  (`device_videos.go:49`); a part that is handled after the removal of the answer stays in the
  map (`video_records.go:92`); two
  parts handled side by side lose one, and the query times out.
* plans: a start request that is slower than the stop after it leaves an unplanned
  channel recording (`recording.go:84`); a channel that was deleted while it recorded
  ends the process (`recording.go:55`); the instant at which a marked hour ends is
  planned (`video-project.go:165`), although `docs/vss/1.1.1录像计划.md:131` calls the range
  half open (左闭右开).
* cache: a query that fails after some rows is kept and served truncated until it expires
  (`orm.plugin.cache.go:249`); `BulkUpdate` runs a raw statement, which has no model, and invalidates
  nothing (`orm.plugin.cache.go:259`); the reset-then-raw update of devices'
  departments may be answered with the reset for a minute.

## 6. What is not modelled

`PROJECT.json` gives the reason for every component. Of the parts that keep shared
state these are left out:

* the `online` column of channels and the periodic pull-stream check that reports it:
  a device's channels share one key of the report map, so which channel's report
  survives is decided by the order of goroutines every 30 seconds; nothing in the
  code relates the column to the sources beyond that, and there is no invariant
  to state;
* the counters of SIP sequence numbers, SSRCs and playback streams: each is read and
  written back by concurrent senders and nothing depends on a number but its
  receiver, outside of this repository;
* the download list of the back office, device diagnosis and service state: lists
  and reports with one writer each;
* settings refresh: pointers replaced on a timer;
* the clean-up worker of `BroadcastManager`, the talk routes other than audio, the
  cascade handlers, `Gatekeeper`, `pubsub`: not reachable or not imported.

Within the modelled parts:

* presence: ONVIF/RTSP/RTMP sources, the lag of the row cache;
* streams: parameters of the INVITE (codec, recording, duration), playback
  (same pipeline with other names), retries of `stop-stream-keepalive`, which
  dereference a missing channel item, a restart of the process;
* throttle: several keys (they share nothing but the map), a changing period;
* hub: a slow client's network writer, which blocks the receiver as a full channel
  does; the check of the token's signature;
* plans: time-outs of the requests (`StopRecording` sets one only when it is
  configured as zero or less, `recording.go:48`), a lock that expires under a living
  holder, the channels' recording state, the choice of a media server by load (any
  server is chosen);
* recordings: sorting and marking of the answer;
* cache: construction of SQL, the Redis driver.

Formatting of SIP, SDP, XML, JSON and SQL is left out: no property depends on it.
The larger part of the repository by lines is generated RPC code, types, the
vendored word segmentation, routes and database services with one SQL statement
per request; it has no behaviour that depends on an order of steps.

## 7. Plan

Done: the eight modules of components above with a module of proofs each, and four
abstract specifications (`DeviceLife`, `DialogContexts`, `TrailingCalls`,
`HubSessions`) that four of them are proved to implement. Open: abstract
specifications of what a log viewer is told, for `SipLogs`, and of one computation at a
time among processes that crash, for `RecordingPlan`. What is left of the system
keeps no shared state, or none that anything depends on (section 6).
