--------------------------- MODULE RecordingPlan ---------------------------
(* Recording plans: every second each cron process may compute, under a     *)
(* Redis lock, which channels have to be recorded now, and hands the        *)
(* channels to start and to stop to a goroutine that starts one request to  *)
(* the media server per channel.                                            *)
EXTENDS Integers, Sequences, FiniteSets

CONSTANTS
  Node,       \* cron processes
  Job,        \* goroutines that execute DO
  NodeOf,     \* the process of each job
  Channel,
  Server,     \* media servers a request may be sent to (MSVoteNode)
  Hours,      \* hours of a day
  HourLen,    \* instants of an hour
  InitialPlans,        \* bound: the hours the channels' plans may start with
  StartTime, MaxTime,  \* bound: the first and the last instant of a run
  ChanCap,    \* capacity of StartRecordingIds and StopRecordingIds
  MaxEvents   \* bound: plans edited, channels deleted, processes killed, failures

NoNode == "no node"

ASSUME PlanAssumption ==
  /\ NodeOf \in [Job -> Node] /\ NoNode \notin Node
  /\ {Hours, HourLen, ChanCap} \subseteq Nat \ {0}
  /\ MaxEvents \in Nat
  /\ InitialPlans \subseteq [Channel -> [0 .. Hours - 1 -> BOOLEAN]]
  /\ StartTime \in Nat /\ MaxTime \in StartTime .. Hours * HourLen - 1

VARIABLES
  clock,      \* instants since midnight
  plan,       \* per channel: the hours of today that its plan has marked
  gone,       \* channels deleted from the table, plans keep their ids
  lock,       \* the Redis key: the node whose address it holds
  executing,  \* per node: VideoProjectLogic.executing
  exec,       \* per node: execChannelUniqueIds
  job,        \* per job: where DO is, and what it has read
  startCh,    \* per node: StartRecordingIds, batches of channels
  stopCh,     \* per node: StopRecordingIds
  request,    \* the goroutines of StartRecording and StopRecording
  recording,  \* media servers: <<server, channel>> being recorded
  events      \* bound

world  == <<clock, plan, gone>>
memory == <<executing, exec>>
queues == <<startCh, stopCh>>
vars == <<clock, plan, gone, lock, executing, exec, job, startCh, stopCh,
          request, recording, events>>

-----------------------------------------------------------------------------
(* GetTimeRanges: the maximal runs of marked hours, as instants of the day. *)
Marked(marks, a, b) == \A h \in a .. b - 1 : marks[h]

RangesShort(marks) ==                                       \* mutant
  {<<r[1] * HourLen, r[2] * HourLen>> : r \in
     {x \in (0 .. Hours) \X (0 .. Hours) :
        /\ x[1] < x[2] /\ Marked(marks, x[1], x[2])
        /\ (x[1] = 0 \/ ~marks[x[1] - 1]) /\ (x[2] < Hours /\ ~marks[x[2]])}}
GetTimeRanges(marks) ==
  {<<r[1] * HourLen, r[2] * HourLen>> : r \in
     {x \in (0 .. Hours) \X (0 .. Hours) :
        /\ x[1] < x[2] /\ Marked(marks, x[1], x[2])
        /\ (x[1] = 0 \/ ~marks[x[1] - 1]) /\ (x[2] = Hours \/ ~marks[x[2]])}}

InRange(marks, now) == \E r \in GetTimeRanges(marks) : r[1] <= now /\ now <= r[2]

(* The channels whose plan covers the instant (channelIds of do).          *)
Planned(now) == {c \in Channel : InRange(plan[c], now)}

-----------------------------------------------------------------------------
(* A batch: a map from channel ids to where they are; a channel that is not *)
(* in the table is in the map with a nil pointer.                           *)
Batch == [channels : SUBSET Channel, missing : SUBSET Channel]
BatchOf(set, lost) == [channels |-> set, missing |-> set \cap lost]

Request == [node : Node, starts : BOOLEAN, channel : Channel, lost : BOOLEAN]

NoWork == [pc |-> "idle", now |-> StartTime, start |-> {}, stop |-> {}, lost |-> {}]

TypeOK ==
  /\ clock \in StartTime .. MaxTime
  /\ plan \in [Channel -> [0 .. Hours - 1 -> BOOLEAN]]
  /\ gone \subseteq Channel
  /\ lock \in Node \cup {NoNode}
  /\ executing \in [Node -> BOOLEAN] /\ exec \in [Node -> SUBSET Channel]
  /\ job \in [Job ->
       [pc : {"idle", "set", "acquire", "plans", "channels", "start", "stop", "release", "done"},
        now : StartTime .. MaxTime,
        start : SUBSET Channel, stop : SUBSET Channel, lost : SUBSET Channel]]
  /\ \A n \in Node : /\ startCh[n] \in Seq(Batch) /\ Len(startCh[n]) <= ChanCap
                     /\ stopCh[n] \in Seq(Batch) /\ Len(stopCh[n]) <= ChanCap
  /\ request \subseteq Request
  /\ recording \subseteq Server \X Channel
  /\ events \in 0 .. MaxEvents

Init ==
  /\ clock = StartTime
  /\ plan \in InitialPlans
  /\ gone = {}
  /\ lock = NoNode
  /\ executing = [n \in Node |-> FALSE] /\ exec = [n \in Node |-> {}]
  /\ job = [j \in Job |-> NoWork]
  /\ startCh = [n \in Node |-> <<>>] /\ stopCh = [n \in Node |-> <<>>]
  /\ request = {} /\ recording = {}
  /\ events = 0

Event == events < MaxEvents /\ events' = events + 1
Works == UNCHANGED events

-----------------------------------------------------------------------------
(* CrontabHandler.start: a goroutine per second, which leaves when the flag *)
(* says that another one is at work; do sets the flag.                      *)
Begin(j) ==
  /\ job[j].pc = "idle"
  /\ ~executing[NodeOf[j]]
  /\ job' = [job EXCEPT ![j] = [NoWork EXCEPT !.pc = "set", !.now = clock]]
  /\ UNCHANGED <<world, lock, memory, queues, request, recording, events>>

SetExecuting(j) ==
  /\ job[j].pc = "set"
  /\ executing' = [executing EXCEPT ![NodeOf[j]] = TRUE]
  /\ job' = [job EXCEPT ![j].pc = "acquire"]
  /\ UNCHANGED <<world, lock, exec, queues, request, recording, events>>

(* AcquireLock: SET NX with the node's address as the value.  When it fails *)
(* the job goes no further, also when the key was set and the answer lost.  *)
Overwritten(n) == TRUE                                      \* mutant
Free(n) == lock = NoNode

Acquire(j) ==
  /\ job[j].pc = "acquire"
  /\ \/ /\ Free(NodeOf[j])
        /\ lock' = NodeOf[j]
        /\ job' = [job EXCEPT ![j].pc = "plans"]
        /\ Works
     \/ /\ Free(NodeOf[j])
        /\ lock' \in {lock, NodeOf[j]}
        /\ job' = [job EXCEPT ![j] = [NoWork EXCEPT !.pc = "done"]]
        /\ Event
     \/ /\ ~Free(NodeOf[j])
        /\ job' = [job EXCEPT ![j] = [NoWork EXCEPT !.pc = "done"]]
        /\ UNCHANGED lock
        /\ Works
  /\ UNCHANGED <<world, memory, queues, request, recording>>

(* The plans are fetched, the channels of now are compared with those of    *)
(* the node's last computation.                                             *)
Fetched(j) ==
  LET now == Planned(job[j].now)
      old == exec[NodeOf[j]]
  IN  [pc |-> IF now \cup old = {} THEN "release" ELSE "channels", now |-> StartTime,
       start |-> now, stop |-> old \ now, lost |-> {}]

FetchPlans(j) ==
  /\ job[j].pc = "plans"
  /\ \/ job' = [job EXCEPT ![j] = Fetched(j)] /\ Works
     \/ job' = [job EXCEPT ![j] = [NoWork EXCEPT !.pc = "release"]] /\ Event
  /\ UNCHANGED <<world, lock, memory, queues, request, recording>>

(* The channels' rows are fetched, the node remembers what it starts.      *)
FetchChannelsNew(j) ==                                      \* mutant
  /\ job[j].pc = "channels"
  /\ \/ /\ exec' = [exec EXCEPT ![NodeOf[j]] = job[j].start]
        /\ job' = [job EXCEPT ![j].pc = "start", ![j].lost = gone,
                                   ![j].start = @ \ exec[NodeOf[j]]]
        /\ Works
     \/ /\ job' = [job EXCEPT ![j] = [NoWork EXCEPT !.pc = "release"]]
        /\ Event
        /\ UNCHANGED exec
  /\ UNCHANGED <<world, lock, executing, queues, request, recording>>
FetchChannels(j) ==
  /\ job[j].pc = "channels"
  /\ \/ /\ exec' = [exec EXCEPT ![NodeOf[j]] = job[j].start]
        /\ job' = [job EXCEPT ![j].pc = "start", ![j].lost = gone]
        /\ Works
     \/ /\ job' = [job EXCEPT ![j] = [NoWork EXCEPT !.pc = "release"]]
        /\ Event
        /\ UNCHANGED exec
  /\ UNCHANGED <<world, lock, executing, queues, request, recording>>

QueuedAtOnce(ch, n, set, lost) ==                           \* mutant
  ch' = IF set = {} THEN ch ELSE [ch EXCEPT ![n] = Append(@, BatchOf(set, lost))]
Queued(ch, n, set, lost) ==
  IF set = {} THEN UNCHANGED ch
  ELSE /\ Len(ch[n]) < ChanCap
       /\ ch' = [ch EXCEPT ![n] = Append(@, BatchOf(set, lost))]

SendStart(j) ==
  /\ job[j].pc = "start"
  /\ Queued(startCh, NodeOf[j], job[j].start, job[j].lost)
  /\ job' = [job EXCEPT ![j].pc = "stop"]
  /\ UNCHANGED <<world, lock, memory, stopCh, request, recording, events>>

SendStop(j) ==
  /\ job[j].pc = "stop"
  /\ Queued(stopCh, NodeOf[j], job[j].stop, job[j].lost)
  /\ job' = [job EXCEPT ![j] = [NoWork EXCEPT !.pc = "release"]]
  /\ UNCHANGED <<world, lock, memory, startCh, request, recording, events>>

(* ReleaseLock: the key is deleted when it holds the node's address; when   *)
(* that fails, which is only logged, it stays until it expires.             *)
Release(j) ==
  /\ job[j].pc = "release"
  /\ \/ lock' = (IF lock = NodeOf[j] THEN NoNode ELSE lock) /\ Works
     \/ UNCHANGED lock /\ Event
  /\ job' = [job EXCEPT ![j] = [NoWork EXCEPT !.pc = "done"]]
  /\ UNCHANGED <<world, memory, queues, request, recording>>

End(j) ==
  /\ job[j].pc = "done"
  /\ executing' = [executing EXCEPT ![NodeOf[j]] = FALSE]
  /\ job' = [job EXCEPT ![j] = NoWork]
  /\ UNCHANGED <<world, lock, exec, queues, request, recording, events>>

-----------------------------------------------------------------------------
(* A process ends: its memory, goroutines and queues are lost.  Requests    *)
(* that the media server had received have been carried out before.  The    *)
(* lock stays until it expires.                                             *)
Lost(n) ==
  /\ executing' = [executing EXCEPT ![n] = FALSE]
  /\ exec' = [exec EXCEPT ![n] = {}]
  /\ job' = [j \in Job |-> IF NodeOf[j] = n THEN NoWork ELSE job[j]]
  /\ startCh' = [startCh EXCEPT ![n] = <<>>] /\ stopCh' = [stopCh EXCEPT ![n] = <<>>]
  /\ request' = {r \in request : r.node # n}
  /\ UNCHANGED <<world, lock, recording>>

(* makeRecord and StartRecording, StopRecording: a goroutine per channel.   *)
Requests(n, starts, b) ==
  {[node |-> n, starts |-> starts, channel |-> c, lost |-> c \in b.missing] : c \in b.channels}

TakeStart(n) ==
  /\ startCh[n] # <<>>
  /\ request' = request \cup Requests(n, TRUE, Head(startCh[n]))
  /\ startCh' = [startCh EXCEPT ![n] = Tail(@)]
  /\ UNCHANGED <<world, lock, memory, job, stopCh, recording, events>>

TakeStop(n) ==
  /\ stopCh[n] # <<>>
  /\ request' = request \cup Requests(n, FALSE, Head(stopCh[n]))
  /\ stopCh' = [stopCh EXCEPT ![n] = Tail(@)]
  /\ UNCHANGED <<world, lock, memory, job, startCh, recording, events>>

(* The request of one channel: the stream is asked for when it is to start, *)
(* then the media server that MSVoteNode picks is told.                     *)
AskServer(r) ==
  /\ ~r.lost
  /\ request' = request \ {r}
  /\ \/ /\ \E s \in Server :
             recording' = IF r.starts THEN recording \cup {<<s, r.channel>>}
                                      ELSE recording \ {<<s, r.channel>>}
        /\ Works
     \/ Event /\ UNCHANGED recording
  /\ UNCHANGED <<world, lock, memory, job, queues>>

(* For a channel without a row the goroutine dereferences a nil pointer;    *)
(* nothing recovers that panic, the process ends.                           *)
Panic(r) == r.lost /\ Lost(r.node) /\ Works

-----------------------------------------------------------------------------
(* Environment.                                                             *)
Tick ==
  /\ clock < MaxTime
  /\ clock' = clock + 1
  /\ UNCHANGED <<plan, gone, lock, memory, job, queues, request, recording, events>>

EditPlan(c, h) ==
  /\ Event
  /\ plan' = [plan EXCEPT ![c][h] = ~@]
  /\ UNCHANGED <<clock, gone, lock, memory, job, queues, request, recording>>

DeleteChannel(c) ==
  /\ Event
  /\ gone' = gone \cup {c}
  /\ UNCHANGED <<clock, plan, lock, memory, job, queues, request, recording>>

Kill(n) == Event /\ Lost(n)

(* The key lives a minute, a computation ends within its time-outs: only    *)
(* a lock without a computation expires, that of a process that went away   *)
(* or of a request to Redis that failed.                                    *)
Inside(j) == job[j].pc \in {"plans", "channels", "start", "stop", "release"}
Expire ==
  /\ lock # NoNode
  /\ \A j \in Job : NodeOf[j] = lock => ~Inside(j)
  /\ lock' = NoNode
  /\ UNCHANGED <<world, memory, job, queues, request, recording, events>>

DO(j) ==
  \/ SetExecuting(j) \/ Acquire(j) \/ FetchPlans(j) \/ FetchChannels(j)
  \/ SendStart(j) \/ SendStop(j) \/ Release(j) \/ End(j)

Next ==
  \/ \E j \in Job : Begin(j) \/ DO(j)
  \/ \E n \in Node : TakeStart(n) \/ TakeStop(n) \/ Kill(n)
  \/ \E r \in request : AskServer(r) \/ Panic(r)
  \/ \E c \in Channel : DeleteChannel(c) \/ \E h \in 0 .. Hours - 1 : EditPlan(c, h)
  \/ Tick \/ Expire

Spec == Init /\ [][Next]_vars

(* The scheduler runs every goroutine (of a channel's requests, one after   *)
(* the other in any order), the ticker fires, a lock expires.               *)
Fairness ==
  /\ WF_vars(Tick) /\ WF_vars(Expire)
  /\ WF_vars(\E j \in Job : Begin(j)) /\ \A j \in Job : WF_vars(DO(j))
  /\ \A n \in Node : WF_vars(TakeStart(n) \/ TakeStop(n))
  /\ \A c \in Channel :
       WF_vars(\E r \in request : r.channel = c /\ (AskServer(r) \/ Panic(r)))

FairSpec == Spec /\ Fairness

-----------------------------------------------------------------------------
(* What the plans rely on.                                                  *)

(* One computation at a time, over all processes and although the executing *)
(* flag is tested and set in two steps and one address serves two jobs.     *)
LockExclusive == \A i, j \in Job : Inside(i) /\ Inside(j) => i = j

(* The ranges made from the marked hours contain every instant of a marked  *)
(* hour, and nothing else but possibly the instant at which one ends: the   *)
(* code counts it in (params.Now <= val[1]), docs/vss/1.1.1 line 131 calls  *)
(* the ranges half-open, so the property leaves it open.                    *)
PlannedInstants ==
  \A c \in Channel, t \in 0 .. Hours * HourLen - 1 :
    /\ plan[c][t \div HourLen] => InRange(plan[c], t)
    /\ InRange(plan[c], t) =>
         \/ plan[c][t \div HourLen]
         \/ t % HourLen = 0 /\ t > 0 /\ plan[c][t \div HourLen - 1]

(* A channel that stays planned is recorded in the end and stays recorded,  *)
(* whatever was lost, restarted or stopped by a late request before, if no  *)
(* deleted channel is planned.                                              *)
PlannedRecorded ==
  \A c \in Channel :
    <>[](c \in Planned(clock) /\ Planned(clock) \cap gone = {})
      => <>[](\E s \in Server : <<s, c>> \in recording)

=============================================================================
