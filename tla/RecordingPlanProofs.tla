------------------------ MODULE RecordingPlanProofs ------------------------
(* Proofs about RecordingPlan: the types of its variables, that at most one *)
(* computation is between taking and releasing the Redis lock, and which    *)
(* instants a plan covers, for any processes, jobs, channels, plans and     *)
(* bounds.                                                                 *)
EXTENDS RecordingPlan, WellFoundedInduction, TLAPS

Pc == {"idle", "set", "acquire", "plans", "channels", "start", "stop", "release", "done"}
Work == [pc : Pc, now : StartTime .. MaxTime,
         start : SUBSET Channel, stop : SUBSET Channel, lost : SUBSET Channel]
Plan == [0 .. Hours - 1 -> BOOLEAN]
Queue == {q \in Seq(Batch) : Len(q) <= ChanCap}

(* TypeOK with the queues as functions, which the proofs of updates need.   *)
Types ==
  /\ clock \in StartTime .. MaxTime
  /\ plan \in [Channel -> Plan]
  /\ gone \subseteq Channel
  /\ lock \in Node \cup {NoNode}
  /\ executing \in [Node -> BOOLEAN] /\ exec \in [Node -> SUBSET Channel]
  /\ job \in [Job -> Work]
  /\ startCh \in [Node -> Queue] /\ stopCh \in [Node -> Queue]
  /\ request \subseteq Request
  /\ recording \subseteq Server \X Channel
  /\ events \in 0 .. MaxEvents

(* A job inside the lock holds it in the name of its process, and is alone. *)
Holding == \A j \in Job : Inside(j) => lock = NodeOf[j]
LockInv == Holding /\ LockExclusive

-----------------------------------------------------------------------------
LEMMA NoWorkType == NoWork \in Work
  BY PlanAssumption, SMT DEF NoWork, Work, Pc

(* The channels of now are channels.                                       *)
LEMMA PlannedType == \A t : Planned(t) \subseteq Channel
  BY DEF Planned

(* What a job has read of the plans is work.                               *)
LEMMA FetchedType ==
  ASSUME Types, NEW j \in Job
  PROVE  Fetched(j) \in Work
<1>1. NodeOf[j] \in Node BY PlanAssumption
<1>2. exec[NodeOf[j]] \subseteq Channel BY <1>1 DEF Types
<1>3. Planned(job[j].now) \subseteq Channel BY PlannedType
<1>4. Planned(job[j].now) \in SUBSET Channel /\ exec[NodeOf[j]] \ Planned(job[j].now) \in SUBSET Channel
  BY <1>2, <1>3
<1>5. StartTime \in StartTime .. MaxTime BY PlanAssumption
<1> QED BY <1>4, <1>5 DEF Fetched, Work, Pc

(* A batch of channels is one, and a queue with room takes it.              *)
LEMMA BatchType ==
  ASSUME NEW set \in SUBSET Channel, NEW lost
  PROVE  BatchOf(set, lost) \in Batch
  BY DEF BatchOf, Batch

LEMMA QueuedType ==
  ASSUME NEW q \in Queue, NEW b \in Batch, Len(q) < ChanCap
  PROVE  Append(q, b) \in Queue
<1>1. q \in Seq(Batch) BY DEF Queue
<1>2. Append(q, b) \in Seq(Batch) /\ Len(Append(q, b)) = Len(q) + 1 BY <1>1
<1>3. ChanCap \in Nat /\ Len(q) \in Nat BY <1>1, PlanAssumption
<1> QED BY <1>2, <1>3 DEF Queue

(* A batch leaves a queue for a request per channel.                        *)
LEMMA TakenType ==
  ASSUME NEW q \in Queue, q # <<>>, NEW n \in Node, NEW starts \in BOOLEAN
  PROVE  Tail(q) \in Queue /\ Requests(n, starts, Head(q)) \subseteq Request
<1>1. q \in Seq(Batch) /\ Len(q) <= ChanCap BY DEF Queue
<1>2. Head(q) \in Batch /\ Tail(q) \in Seq(Batch) /\ Len(Tail(q)) = Len(q) - 1 BY <1>1
<1>3. ChanCap \in Nat /\ Len(q) \in Nat BY <1>1, PlanAssumption
<1>4. Tail(q) \in Queue BY <1>1, <1>2, <1>3 DEF Queue
<1>5. Head(q).channels \subseteq Channel BY <1>2 DEF Batch
<1>6. ASSUME NEW c \in Head(q).channels
      PROVE  [node |-> n, starts |-> starts, channel |-> c, lost |-> c \in Head(q).missing] \in Request
  <2>1. c \in Channel /\ (c \in Head(q).missing) \in BOOLEAN BY <1>5
  <2> QED BY <2>1, Zenon DEF Request
<1>7. Requests(n, starts, Head(q)) \subseteq Request BY <1>6, Zenon DEF Requests
<1> QED BY <1>4, <1>7

-----------------------------------------------------------------------------
(* Every state has the types.                                              *)
LEMMA InitTypes == Init => Types
<1> SUFFICES ASSUME Init PROVE Types
  OBVIOUS
<1>1. <<>> \in Queue BY PlanAssumption DEF Queue
<1>2. clock \in StartTime .. MaxTime /\ events \in 0 .. MaxEvents BY PlanAssumption DEF Init
<1>3. plan \in [Channel -> Plan]
  <2>1. InitialPlans \subseteq [Channel -> Plan] BY PlanAssumption DEF Plan
  <2> QED BY <2>1 DEF Init
<1>4. job \in [Job -> Work] BY NoWorkType DEF Init
<1>5. startCh \in [Node -> Queue] /\ stopCh \in [Node -> Queue] BY <1>1 DEF Init
<1> QED BY <1>2, <1>3, <1>4, <1>5 DEF Init, Types

(* A process that ends keeps the types.                                    *)
LEMMA LostTypes ==
  ASSUME Types, NEW n \in Node, Lost(n), events' \in 0 .. MaxEvents
  PROVE  Types'
<1>1. <<>> \in Queue BY PlanAssumption DEF Queue
<1>2. job' \in [Job -> Work] BY NoWorkType DEF Lost, Types
<1>3. startCh' \in [Node -> Queue] /\ stopCh' \in [Node -> Queue] BY <1>1 DEF Lost, Types
<1>4. executing' \in [Node -> BOOLEAN] /\ exec' \in [Node -> SUBSET Channel] BY DEF Lost, Types
<1>5. request' \subseteq Request BY DEF Lost, Types
<1> QED BY <1>2, <1>3, <1>4, <1>5 DEF Lost, world, Types

LEMMA NextTypes == Types /\ [Next]_vars => Types'
<1> SUFFICES ASSUME Types, [Next]_vars PROVE Types'
  OBVIOUS
<1>0. ASSUME NEW j \in Job
      PROVE  NodeOf[j] \in Node /\ job[j] \in Work
  BY PlanAssumption DEF Types
<1>1. ASSUME NEW j \in Job, Begin(j) PROVE Types'
  <2>1. [NoWork EXCEPT !.pc = "set", !.now = clock] \in Work BY NoWorkType DEF Types, Work, Pc
  <2>2. job' \in [Job -> Work] BY <1>1, <2>1 DEF Begin, Types
  <2> QED BY <1>1, <2>2 DEF Begin, Types, world, memory, queues
<1>2. ASSUME NEW j \in Job, SetExecuting(j) PROVE Types'
  <2>1. job' \in [Job -> Work] BY <1>0, <1>2, ZenonT(60) DEF SetExecuting, Types, Work, Pc
  <2>2. executing' \in [Node -> BOOLEAN] BY <1>2 DEF SetExecuting, Types
  <2> QED BY <1>2, <2>1, <2>2 DEF SetExecuting, Types, world, queues
<1>3. ASSUME NEW j \in Job, Acquire(j) PROVE Types'
  <2>1. job' \in [Job -> Work]
    <3>1. [NoWork EXCEPT !.pc = "done"] \in Work BY NoWorkType DEF Work, Pc
    <3>2. [job[j] EXCEPT !.pc = "plans"] \in Work BY <1>0 DEF Work, Pc
    <3> QED BY <1>3, <3>1, <3>2 DEF Acquire, Types
  <2>2. lock' \in Node \cup {NoNode} BY <1>0, <1>3 DEF Acquire, Types
  <2>3. events' \in 0 .. MaxEvents BY <1>3, PlanAssumption DEF Acquire, Types, Event, Works
  <2> QED BY <1>3, <2>1, <2>2, <2>3 DEF Acquire, Types, world, memory, queues
<1>4. ASSUME NEW j \in Job, FetchPlans(j) PROVE Types'
  <2>1. job' \in [Job -> Work]
    <3>1. [NoWork EXCEPT !.pc = "release"] \in Work BY NoWorkType DEF Work, Pc
    <3>2. Fetched(j) \in Work BY FetchedType
    <3> QED BY <1>4, <3>1, <3>2 DEF FetchPlans, Types
  <2>2. events' \in 0 .. MaxEvents BY <1>4, PlanAssumption DEF FetchPlans, Types, Event, Works
  <2> QED BY <1>4, <2>1, <2>2 DEF FetchPlans, Types, world, memory, queues
<1>5. ASSUME NEW j \in Job, FetchChannels(j) PROVE Types'
  <2>1. job' \in [Job -> Work]
    <3>1. [NoWork EXCEPT !.pc = "release"] \in Work BY NoWorkType DEF Work, Pc
    <3>2. [job[j] EXCEPT !.pc = "start", !.lost = gone] \in Work BY <1>0 DEF Types, Work, Pc
    <3>3. CASE job' = [job EXCEPT ![j].pc = "start", ![j].lost = gone] BY <3>2, <3>3 DEF Types
    <3>4. CASE job' = [job EXCEPT ![j] = [NoWork EXCEPT !.pc = "release"]] BY <3>1, <3>4 DEF Types
    <3> QED BY <1>5, <3>3, <3>4 DEF FetchChannels
  <2>2. exec' \in [Node -> SUBSET Channel]
    <3>1. job[j].start \in SUBSET Channel BY <1>0 DEF Work
    <3> QED BY <1>5, <3>1 DEF FetchChannels, Types
  <2>3. events' \in 0 .. MaxEvents BY <1>5, PlanAssumption DEF FetchChannels, Types, Event, Works
  <2> QED BY <1>5, <2>1, <2>2, <2>3 DEF FetchChannels, Types, world, queues
<1>6. ASSUME NEW j \in Job, SendStart(j) PROVE Types'
  <2>1. job' \in [Job -> Work] BY <1>0, <1>6 DEF SendStart, Types, Work, Pc
  <2>2. job[j].start \in SUBSET Channel /\ job[j].lost \in SUBSET Channel BY <1>0 DEF Work
  <2>3. CASE job[j].start = {} BY <1>6, <2>1, <2>3 DEF SendStart, Queued, Types, world, memory
  <2>4. CASE job[j].start # {}
    <3>1. /\ Len(startCh[NodeOf[j]]) < ChanCap
          /\ startCh' = [startCh EXCEPT ![NodeOf[j]] = Append(@, BatchOf(job[j].start, job[j].lost))]
      BY <1>6, <2>4 DEF SendStart, Queued
    <3>2. BatchOf(job[j].start, job[j].lost) \in Batch BY <2>2, BatchType
    <3>3. startCh[NodeOf[j]] \in Queue BY <1>0 DEF Types
    <3>4. Append(startCh[NodeOf[j]], BatchOf(job[j].start, job[j].lost)) \in Queue
      BY <3>1, <3>2, <3>3, QueuedType
    <3>5. startCh' \in [Node -> Queue] BY <3>1, <3>4 DEF Types
    <3> QED BY <1>6, <2>1, <3>5 DEF SendStart, Types, world, memory
  <2> QED BY <2>3, <2>4
<1>7. ASSUME NEW j \in Job, SendStop(j) PROVE Types'
  <2>1. job' \in [Job -> Work]
    <3>1. [NoWork EXCEPT !.pc = "release"] \in Work BY NoWorkType DEF Work, Pc
    <3> QED BY <1>7, <3>1 DEF SendStop, Types
  <2>2. job[j].stop \in SUBSET Channel /\ job[j].lost \in SUBSET Channel BY <1>0 DEF Work
  <2>3. CASE job[j].stop = {} BY <1>7, <2>1, <2>3 DEF SendStop, Queued, Types, world, memory
  <2>4. CASE job[j].stop # {}
    <3>1. /\ Len(stopCh[NodeOf[j]]) < ChanCap
          /\ stopCh' = [stopCh EXCEPT ![NodeOf[j]] = Append(@, BatchOf(job[j].stop, job[j].lost))]
      BY <1>7, <2>4 DEF SendStop, Queued
    <3>2. BatchOf(job[j].stop, job[j].lost) \in Batch BY <2>2, BatchType
    <3>3. stopCh[NodeOf[j]] \in Queue BY <1>0 DEF Types
    <3>4. Append(stopCh[NodeOf[j]], BatchOf(job[j].stop, job[j].lost)) \in Queue
      BY <3>1, <3>2, <3>3, QueuedType
    <3>5. stopCh' \in [Node -> Queue] BY <3>1, <3>4 DEF Types
    <3> QED BY <1>7, <2>1, <3>5 DEF SendStop, Types, world, memory
  <2> QED BY <2>3, <2>4
<1>8. ASSUME NEW j \in Job, Release(j) PROVE Types'
  <2>1. [NoWork EXCEPT !.pc = "done"] \in Work BY NoWorkType DEF Work, Pc
  <2>2. job' \in [Job -> Work] BY <1>8, <2>1 DEF Release, Types
  <2>3. lock' \in Node \cup {NoNode} BY <1>8 DEF Release, Types
  <2>4. events' \in 0 .. MaxEvents
    BY <1>8, PlanAssumption DEF Release, Event, Works, Types
  <2> QED BY <1>8, <2>2, <2>3, <2>4 DEF Release, Types, world, memory, queues
<1>9. ASSUME NEW j \in Job, End(j) PROVE Types'
  <2>1. job' \in [Job -> Work] BY <1>9, NoWorkType DEF End, Types
  <2>2. executing' \in [Node -> BOOLEAN] BY <1>9 DEF End, Types
  <2> QED BY <1>9, <2>1, <2>2 DEF End, Types, world, queues
<1>10. ASSUME NEW n \in Node, TakeStart(n) PROVE Types'
  <2>1. startCh[n] \in Queue BY DEF Types
  <2>2. Tail(startCh[n]) \in Queue /\ Requests(n, TRUE, Head(startCh[n])) \subseteq Request
    BY <1>10, <2>1, TakenType DEF TakeStart
  <2>3. startCh' \in [Node -> Queue] BY <1>10, <2>2 DEF TakeStart, Types
  <2>4. request' \subseteq Request BY <1>10, <2>2 DEF TakeStart, Types
  <2> QED BY <1>10, <2>3, <2>4 DEF TakeStart, Types, world, memory
<1>11. ASSUME NEW n \in Node, TakeStop(n) PROVE Types'
  <2>1. stopCh[n] \in Queue BY DEF Types
  <2>2. Tail(stopCh[n]) \in Queue /\ Requests(n, FALSE, Head(stopCh[n])) \subseteq Request
    BY <1>11, <2>1, TakenType DEF TakeStop
  <2>3. stopCh' \in [Node -> Queue] BY <1>11, <2>2 DEF TakeStop, Types
  <2>4. request' \subseteq Request BY <1>11, <2>2 DEF TakeStop, Types
  <2> QED BY <1>11, <2>3, <2>4 DEF TakeStop, Types, world, memory
<1>12. ASSUME NEW n \in Node, Kill(n) PROVE Types'
  <2>1. events' \in 0 .. MaxEvents BY <1>12, PlanAssumption DEF Kill, Event, Types
  <2> QED BY <1>12, <2>1, LostTypes DEF Kill
<1>13. ASSUME NEW r \in request, AskServer(r) PROVE Types'
  <2>1. r \in Request /\ r.channel \in Channel BY DEF Types, Request
  <2>2. recording' \subseteq Server \X Channel BY <1>13, <2>1 DEF AskServer, Types
  <2>3. events' \in 0 .. MaxEvents BY <1>13, PlanAssumption DEF AskServer, Types, Event, Works
  <2> QED BY <1>13, <2>2, <2>3 DEF AskServer, Types, world, memory, queues
<1>14. ASSUME NEW r \in request, Panic(r) PROVE Types'
  <2>1. r.node \in Node BY DEF Types, Request
  <2>2. events' \in 0 .. MaxEvents BY <1>14 DEF Panic, Works, Types
  <2> QED BY <1>14, <2>1, <2>2, LostTypes DEF Panic
<1>15. ASSUME NEW c \in Channel, DeleteChannel(c) PROVE Types'
  <2>1. events' \in 0 .. MaxEvents BY <1>15, PlanAssumption DEF DeleteChannel, Event, Types
  <2> QED BY <1>15, <2>1 DEF DeleteChannel, Types, memory, queues
<1>16. ASSUME NEW c \in Channel, NEW h \in 0 .. Hours - 1, EditPlan(c, h) PROVE Types'
  <2>1. events' \in 0 .. MaxEvents BY <1>16, PlanAssumption DEF EditPlan, Event, Types
  <2>2. plan[c] \in Plan BY DEF Types
  <2>3. [plan[c] EXCEPT ![h] = ~plan[c][h]] \in Plan BY <2>2 DEF Plan
  <2>4. plan' \in [Channel -> Plan] BY <1>16, <2>3 DEF EditPlan, Types
  <2> QED BY <1>16, <2>1, <2>4 DEF EditPlan, Types, memory, queues
<1>17. ASSUME Tick PROVE Types'
  <2>1. clock' \in StartTime .. MaxTime BY <1>17, PlanAssumption DEF Tick, Types
  <2> QED BY <1>17, <2>1 DEF Tick, Types, memory, queues
<1>18. ASSUME Expire PROVE Types'
  BY <1>18 DEF Expire, Types, world, memory, queues
<1>19. ASSUME UNCHANGED vars PROVE Types'
  BY <1>19 DEF vars, Types
<1> QED BY <1>1, <1>2, <1>3, <1>4, <1>5, <1>6, <1>7, <1>8, <1>9, <1>10, <1>11, <1>12,
           <1>13, <1>14, <1>15, <1>16, <1>17, <1>18, <1>19 DEF Next, DO

THEOREM PlanTypes == Spec => []Types
<1>1. Init => Types BY InitTypes
<1>2. Types /\ [Next]_vars => Types' BY NextTypes
<1> QED BY <1>1, <1>2, PTL DEF Spec

(* The type invariant that the runs check.                                 *)
THEOREM PlanTypeOK == Spec => []TypeOK
<1>1. Types => TypeOK
  BY DEF Types, TypeOK, Work, Pc, Plan, Queue
<1> QED BY <1>1, PlanTypes, PTL

-----------------------------------------------------------------------------
(* The lock.  A step that lets nobody in and leaves the lock alone keeps    *)
(* the invariant.                                                          *)
LEMMA NobodyEnters ==
  ASSUME LockInv, lock' = lock, \A j \in Job : Inside(j)' => Inside(j)
  PROVE  LockInv'
  BY DEF LockInv, Holding, LockExclusive

LEMMA InitLock == Init => LockInv
<1> SUFFICES ASSUME Init PROVE LockInv
  OBVIOUS
<1>1. \A j \in Job : ~Inside(j) BY DEF Init, Inside, NoWork
<1> QED BY <1>1 DEF LockInv, Holding, LockExclusive

(* The job that gets the lock finds it free, so nobody is inside: whoever   *)
(* is inside holds it in the name of a process.                            *)
LEMMA AcquireLock ==
  ASSUME Types, LockInv, NEW j \in Job, Acquire(j)
  PROVE  LockInv'
<1>1. CASE Free(NodeOf[j]) /\ lock' = NodeOf[j] /\ job' = [job EXCEPT ![j].pc = "plans"]
  <2>1. \A i \in Job : ~Inside(i)
    BY <1>1, PlanAssumption DEF Free, LockInv, Holding
  <2>2. \A i \in Job : Inside(i)' => i = j
    <3> SUFFICES ASSUME NEW i \in Job, i # j PROVE ~Inside(i)'
      OBVIOUS
    <3>1. job'[i] = job[i] BY <1>1 DEF Types
    <3> QED BY <2>1, <3>1 DEF Inside
  <2> QED BY <1>1, <2>2 DEF LockInv, Holding, LockExclusive
<1>2. ASSUME job' = [job EXCEPT ![j] = [NoWork EXCEPT !.pc = "done"]]
      PROVE  \A i \in Job : Inside(i)' => Inside(i)
  BY <1>2 DEF Types, Inside, NoWork
<1>3. CASE /\ Free(NodeOf[j]) /\ lock' \in {lock, NodeOf[j]}
           /\ job' = [job EXCEPT ![j] = [NoWork EXCEPT !.pc = "done"]]
  <2>1. \A i \in Job : ~Inside(i)
    BY <1>3, PlanAssumption DEF Free, LockInv, Holding
  <2>2. \A i \in Job : ~Inside(i)' BY <1>2, <1>3, <2>1
  <2> QED BY <2>2 DEF LockInv, Holding, LockExclusive
<1>4. CASE job' = [job EXCEPT ![j] = [NoWork EXCEPT !.pc = "done"]] /\ UNCHANGED lock
  BY <1>2, <1>4, NobodyEnters
<1> QED BY <1>1, <1>3, <1>4 DEF Acquire

(* The job that releases is the only one inside, and leaves.               *)
LEMMA ReleaseLock ==
  ASSUME Types, LockInv, NEW j \in Job, Release(j)
  PROVE  LockInv'
<1>1. Inside(j) BY DEF Release, Inside
<1>2. \A i \in Job : Inside(i) => i = j BY <1>1 DEF LockInv, LockExclusive
<1>3. \A i \in Job : ~Inside(i)'
  <2> SUFFICES ASSUME NEW i \in Job PROVE ~Inside(i)'
    OBVIOUS
  <2>1. CASE i = j BY <2>1 DEF Release, Types, Inside, NoWork
  <2>2. CASE i # j
    <3>1. job'[i] = job[i] BY <2>2 DEF Release, Types
    <3> QED BY <1>2, <2>2, <3>1 DEF Inside
  <2> QED BY <2>1, <2>2
<1> QED BY <1>3 DEF LockInv, Holding, LockExclusive

LEMMA NextLock == Types /\ LockInv /\ [Next]_vars => LockInv'
<1> SUFFICES ASSUME Types, LockInv, [Next]_vars PROVE LockInv'
  OBVIOUS
<1>1. ASSUME NEW j \in Job, Begin(j) PROVE LockInv'
  <2>1. \A i \in Job : Inside(i)' => Inside(i) BY <1>1 DEF Begin, Types, Inside, NoWork
  <2> QED BY <1>1, <2>1, NobodyEnters DEF Begin
<1>2. ASSUME NEW j \in Job, SetExecuting(j) PROVE LockInv'
  <2>1. \A i \in Job : Inside(i)' => Inside(i) BY <1>2 DEF SetExecuting, Types, Work, Inside
  <2> QED BY <1>2, <2>1, NobodyEnters DEF SetExecuting
<1>3. ASSUME NEW j \in Job, FetchPlans(j) PROVE LockInv'
  <2>1. \A i \in Job : i # j => job'[i] = job[i] BY <1>3 DEF FetchPlans, Types
  <2>2. Inside(j) BY <1>3 DEF FetchPlans, Inside
  <2>3. \A i \in Job : Inside(i)' => Inside(i) BY <2>1, <2>2 DEF Inside
  <2> QED BY <1>3, <2>3, NobodyEnters DEF FetchPlans
<1>4. ASSUME NEW j \in Job, FetchChannels(j) PROVE LockInv'
  <2>1. \A i \in Job : i # j => job'[i] = job[i] BY <1>4 DEF FetchChannels, Types
  <2>2. Inside(j) BY <1>4 DEF FetchChannels, Inside
  <2>3. \A i \in Job : Inside(i)' => Inside(i) BY <2>1, <2>2 DEF Inside
  <2> QED BY <1>4, <2>3, NobodyEnters DEF FetchChannels
<1>5. ASSUME NEW j \in Job, SendStart(j) PROVE LockInv'
  <2>1. \A i \in Job : i # j => job'[i] = job[i] BY <1>5 DEF SendStart, Types
  <2>2. Inside(j) BY <1>5 DEF SendStart, Inside
  <2>3. \A i \in Job : Inside(i)' => Inside(i) BY <2>1, <2>2 DEF Inside
  <2> QED BY <1>5, <2>3, NobodyEnters DEF SendStart
<1>6. ASSUME NEW j \in Job, SendStop(j) PROVE LockInv'
  <2>1. \A i \in Job : i # j => job'[i] = job[i] BY <1>6 DEF SendStop, Types
  <2>2. Inside(j) BY <1>6 DEF SendStop, Inside
  <2>3. \A i \in Job : Inside(i)' => Inside(i) BY <2>1, <2>2 DEF Inside
  <2> QED BY <1>6, <2>3, NobodyEnters DEF SendStop
<1>7. ASSUME NEW j \in Job, End(j) PROVE LockInv'
  <2>1. \A i \in Job : Inside(i)' => Inside(i) BY <1>7 DEF End, Types, Inside, NoWork
  <2> QED BY <1>7, <2>1, NobodyEnters DEF End
<1>8. ASSUME NEW n, Lost(n) PROVE LockInv'
  <2>1. \A i \in Job : Inside(i)' => Inside(i) BY <1>8 DEF Lost, Inside, NoWork
  <2> QED BY <1>8, <2>1, NobodyEnters DEF Lost
<1>9. ASSUME Expire PROVE LockInv'
  <2>1. job' = job BY <1>9 DEF Expire
  <2>2. \A i \in Job : ~Inside(i) BY <1>9 DEF Expire, LockInv, Holding
  <2>3. \A i \in Job : ~Inside(i)' BY <2>1, <2>2 DEF Inside
  <2> QED BY <2>3 DEF LockInv, Holding, LockExclusive
<1>10. ASSUME lock' = lock, job' = job PROVE LockInv'
  <2>1. \A i \in Job : Inside(i)' => Inside(i) BY <1>10 DEF Inside
  <2> QED BY <1>10, <2>1, NobodyEnters
<1>11. ASSUME NEW n \in Node, TakeStart(n) \/ TakeStop(n) PROVE LockInv'
  BY <1>10, <1>11 DEF TakeStart, TakeStop
<1>12. ASSUME NEW n \in Node, Kill(n) PROVE LockInv'
  BY <1>8, <1>12 DEF Kill
<1>13. ASSUME NEW r \in request, AskServer(r) PROVE LockInv'
  BY <1>10, <1>13 DEF AskServer
<1>14. ASSUME NEW r \in request, Panic(r) PROVE LockInv'
  BY <1>8, <1>14 DEF Panic
<1>15. ASSUME NEW c \in Channel, DeleteChannel(c) PROVE LockInv'
  BY <1>10, <1>15 DEF DeleteChannel
<1>16. ASSUME NEW c \in Channel, NEW h \in 0 .. Hours - 1, EditPlan(c, h) PROVE LockInv'
  BY <1>10, <1>16 DEF EditPlan
<1>17. ASSUME Tick PROVE LockInv'
  BY <1>10, <1>17 DEF Tick
<1>18. ASSUME UNCHANGED vars PROVE LockInv'
  BY <1>10, <1>18 DEF vars
<1>19. ASSUME NEW j \in Job, Begin(j) \/ DO(j) PROVE LockInv'
  BY <1>1, <1>2, <1>3, <1>4, <1>5, <1>6, <1>7, <1>19, AcquireLock, ReleaseLock DEF DO
<1> QED BY <1>9, <1>11, <1>12, <1>13, <1>14, <1>15, <1>16, <1>17, <1>18, <1>19 DEF Next

(* At most one computation, over all processes, is between taking and       *)
(* releasing the lock: VideoProjectLogic.DO around AcquireLock.             *)
THEOREM PlanLockExclusive == Spec => []LockExclusive
<1>1. Init => LockInv BY InitLock
<1>2. Types /\ LockInv /\ [Next]_vars => LockInv' BY NextLock
<1>3. LockInv => LockExclusive BY DEF LockInv
<1> QED BY <1>1, <1>2, <1>3, PlanTypes, PTL DEF Spec

-----------------------------------------------------------------------------
(* The ranges of a plan.  A set of naturals has a least element (from the    *)
(* library: < is well-founded), so a marked hour has a first hour of its    *)
(* run and a last one, whatever the number of hours.                       *)
LEMMA LeastElement ==
  ASSUME NEW T \in SUBSET Nat, T # {}
  PROVE  \E m \in T : \A k \in T : m <= k
<1> DEFINE R == {ss \in Nat \X Nat : ss[1] < ss[2]}
<1>1. IsWellFoundedOn(R, Nat)
  BY NatLessThanWellFounded DEF OpToRel
<1>2. \A i, j \in Nat : i < j => <<i, j>> \in R
  OBVIOUS
<1>3. PICK m \in T : \A k \in T : ~(<<k, m>> \in R)
  <2> HIDE DEF R
  <2> QED BY <1>1, WFMin
<1>4. \A k \in T : ~(k < m)
  BY <1>2, <1>3
<1> QED BY <1>4

(* The run of a marked hour begins somewhere.                              *)
LEMMA RunFrom ==
  ASSUME NEW marks \in [0 .. Hours - 1 -> BOOLEAN], NEW h \in 0 .. Hours - 1, marks[h]
  PROVE  \E a \in 0 .. h : Marked(marks, a, h + 1) /\ (a = 0 \/ ~marks[a - 1])
<1> DEFINE T == {a \in 0 .. h : Marked(marks, a, h + 1)}
<1>1. h \in T
  BY PlanAssumption DEF Marked
<1>2. PICK a \in T : \A k \in T : a <= k
  <2>1. T \in SUBSET Nat /\ T # {}
    BY <1>1
  <2> HIDE DEF T
  <2> QED BY <2>1, LeastElement
<1>3. ASSUME a # 0, marks[a - 1] PROVE FALSE
  <2>1. a - 1 \in 0 .. h
    BY <1>2, <1>3
  <2>2. \A k \in a - 1 .. h : k = a - 1 \/ k \in a .. h
    BY <2>1
  <2>3. Marked(marks, a - 1, h + 1)
    BY <1>2, <1>3, <2>2 DEF Marked
  <2>4. a <= a - 1
    BY <1>2, <2>1, <2>3
  <2> QED BY <1>2, <2>4
<1> QED BY <1>2, <1>3

(* It ends somewhere.                                                      *)
LEMMA RunUpTo ==
  ASSUME NEW marks \in [0 .. Hours - 1 -> BOOLEAN], NEW h \in 0 .. Hours - 1, marks[h]
  PROVE  \E b \in h + 1 .. Hours : Marked(marks, h, b) /\ (b = Hours \/ ~marks[b])
<1> DEFINE T == {n \in 0 .. Hours - h - 1 : Marked(marks, h, Hours - n)}
<1>0. Hours \in Nat
  BY PlanAssumption
<1>1. Hours - h - 1 \in T
  BY <1>0 DEF Marked
<1>2. PICK n \in T : \A k \in T : n <= k
  <2>1. T # {}
    BY <1>1
  <2>2. T \in SUBSET Nat
    BY <1>0
  <2> HIDE DEF T
  <2> QED BY <2>1, <2>2, LeastElement
<1> DEFINE b == Hours - n
<1>3. b \in h + 1 .. Hours /\ Marked(marks, h, b)
  BY <1>0, <1>2
<1>4. ASSUME b # Hours, marks[b] PROVE FALSE
  <2>1. n - 1 \in 0 .. Hours - h - 1 /\ Hours - (n - 1) = b + 1
    BY <1>0, <1>2, <1>4
  <2>2. \A k \in h .. b : k = b \/ k \in h .. b - 1
    BY <1>0, <1>3
  <2>3. Marked(marks, h, b + 1)
    BY <1>0, <1>3, <1>4, <2>2 DEF Marked
  <2>4. n <= n - 1
    BY <1>2, <2>1, <2>3
  <2> QED BY <1>2, <2>4
<1> QED BY <1>3, <1>4

(* So a marked hour lies in a range.                                       *)
LEMMA RunAround ==
  ASSUME NEW marks \in [0 .. Hours - 1 -> BOOLEAN], NEW h \in 0 .. Hours - 1, marks[h]
  PROVE  \E a \in 0 .. h, b \in h + 1 .. Hours : <<a * HourLen, b * HourLen>> \in GetTimeRanges(marks)
<1>0. Hours \in Nat
  BY PlanAssumption
<1>1. PICK a \in 0 .. h : Marked(marks, a, h + 1) /\ (a = 0 \/ ~marks[a - 1])
  BY RunFrom
<1>2. PICK b \in h + 1 .. Hours : Marked(marks, h, b) /\ (b = Hours \/ ~marks[b])
  BY RunUpTo
<1>3. \A k \in a .. b - 1 : k \in a .. h \/ k \in h .. b - 1
  BY <1>0, <1>1, <1>2
<1>4. Marked(marks, a, b)
  BY <1>0, <1>1, <1>2, <1>3 DEF Marked
<1> DEFINE x == <<a, b>>
<1>5. /\ x \in (0 .. Hours) \X (0 .. Hours) /\ x[1] = a /\ x[2] = b
      /\ x[1] < x[2]
  BY <1>0
<1>6. <<x[1] * HourLen, x[2] * HourLen>> \in GetTimeRanges(marks)
  BY <1>1, <1>2, <1>4, <1>5 DEF GetTimeRanges
<1> QED BY <1>5, <1>6

(* Instants and hours.                                                     *)
LEMMA DivMod ==
  ASSUME NEW t \in Nat, NEW p \in Nat \ {0}
  PROVE  t \div p \in Nat /\ t % p \in 0 .. p - 1 /\ t % p = t - (t \div p) * p
<1>1. t % p \in 0 .. p - 1
  BY SMT
<1>2. t % p = t - (t \div p) * p
  BY SMT
<1>3. t \div p \in Nat
  BY SMT
<1> QED BY <1>1, <1>2, <1>3

LEMMA HoursGrow ==
  ASSUME NEW i \in Int, NEW j \in Int, i <= j
  PROVE  i * HourLen <= j * HourLen /\ i * HourLen \in Int /\ j * HourLen \in Int
<1>1. PICK d \in Nat : j = i + d
  BY j - i \in Nat /\ j = i + (j - i)
<1>2. HourLen \in Nat
  BY PlanAssumption
<1>3. j * HourLen = i * HourLen + d * HourLen
  BY <1>1, <1>2
<1>4. d * HourLen >= 0
  BY <1>1, <1>2
<1> QED BY <1>2, <1>3, <1>4

(* An instant is before the start of an hour or not.                       *)
LEMMA BeforeHour ==
  ASSUME NEW q \in Nat, NEW r \in 0 .. HourLen - 1, NEW a \in Nat
  PROVE  /\ a * HourLen <= q * HourLen + r <=> a <= q
         /\ q * HourLen + r <= a * HourLen <=> q < a \/ (q = a /\ r = 0)
<1>0. HourLen \in Nat /\ r \in Nat /\ r < HourLen /\ (q + 1) * HourLen = q * HourLen + HourLen
  BY PlanAssumption
<1>1. ASSUME a <= q PROVE a * HourLen <= q * HourLen + r
  BY <1>0, <1>1, HoursGrow
<1>2. ASSUME a > q PROVE q * HourLen + HourLen <= a * HourLen
  BY <1>0, <1>2, HoursGrow
<1>3. ASSUME a < q PROVE a * HourLen + HourLen <= q * HourLen
  <2>1. (a + 1) * HourLen <= q * HourLen
    BY <1>3, HoursGrow
  <2>2. (a + 1) * HourLen = a * HourLen + HourLen
    BY <1>0
  <2> QED BY <2>1, <2>2
<1>4. a * HourLen \in Nat /\ q * HourLen \in Nat
  BY <1>0
<1> QED
  <2> DEFINE A == a * HourLen
             Q == q * HourLen
  <2>1. a = q => A = Q
    OBVIOUS
  <2>2. A \in Nat /\ Q \in Nat /\ HourLen \in Nat /\ r \in Nat /\ r < HourLen
    BY <1>0, <1>4
  <2>3. (a <= q => A <= Q + r) /\ (a > q => Q + HourLen <= A) /\ (a < q => A + HourLen <= Q)
    BY <1>1, <1>2, <1>3
  <2> HIDE DEF A, Q
  <2>4. A <= Q + r <=> a <= q
    BY <2>1, <2>2, <2>3
  <2>5. Q + r <= A <=> q < a \/ (q = a /\ r = 0)
    <3>1. CASE a = q
      BY <2>1, <2>2, <3>1
    <3>2. CASE a > q
      BY <2>2, <2>3, <3>2
    <3>3. CASE a < q
      BY <2>2, <2>3, <3>3
    <3> QED BY <3>1, <3>2, <3>3
  <2> QED BY <2>4, <2>5 DEF A, Q

(* GetTimeRanges and InRange for any marks and any instant of the day.     *)
LEMMA RangesCover ==
  ASSUME NEW marks \in [0 .. Hours - 1 -> BOOLEAN], NEW t \in 0 .. Hours * HourLen - 1
  PROVE  InRange(marks, t) <=>
           \/ marks[t \div HourLen]
           \/ t % HourLen = 0 /\ t > 0 /\ marks[t \div HourLen - 1]
<1> DEFINE q == t \div HourLen
           r == t % HourLen
<1>1. Hours \in Nat /\ HourLen \in Nat \ {0} /\ t \in Nat
  BY PlanAssumption
<1>2. q \in Nat /\ r \in 0 .. HourLen - 1 /\ r = t - q * HourLen
  BY <1>1, DivMod
<1> HIDE DEF q, r
<1>3. t = q * HourLen + r
  BY <1>1, <1>2
<1>4. q \in 0 .. Hours - 1
  <2>1. t < Hours * HourLen
    BY <1>1
  <2>2. ~(Hours * HourLen <= q * HourLen + r)
    BY <1>1, <1>2, <1>3, <2>1
  <2>3. ~(Hours <= q)
    BY <1>1, <1>2, <2>2, BeforeHour
  <2> QED BY <1>1, <1>2, <2>3
<1>5. ASSUME InRange(marks, t), ~marks[q] PROVE r = 0 /\ t > 0 /\ marks[q - 1]
  <2>1. PICK x \in (0 .. Hours) \X (0 .. Hours) :
           /\ x[1] < x[2] /\ Marked(marks, x[1], x[2])
           /\ x[1] * HourLen <= t /\ t <= x[2] * HourLen
    BY <1>5 DEF InRange, GetTimeRanges
  <2> DEFINE a == x[1]
             b == x[2]
  <2>2. a \in Nat /\ b \in Nat /\ a < b /\ Marked(marks, a, b)
    BY <1>1, <2>1
  <2>3. a * HourLen <= q * HourLen + r /\ q * HourLen + r <= b * HourLen
    BY <1>3, <2>1
  <2> HIDE DEF a, b
  <2>4. a <= q /\ (q < b \/ (q = b /\ r = 0))
    BY <1>2, <2>2, <2>3, BeforeHour
  <2>5. ~(q < b)
    BY <1>2, <1>5, <2>2, <2>4 DEF Marked
  <2>6. marks[q - 1] /\ q >= 1
    BY <1>2, <2>2, <2>4, <2>5 DEF Marked
  <2>7. t > 0
    <3>1. 1 * HourLen <= q * HourLen
      BY <1>2, <2>6, HoursGrow
    <3> QED BY <1>1, <1>2, <1>3, <3>1
  <2> QED BY <2>4, <2>5, <2>6, <2>7
<1>6. ASSUME NEW h \in 0 .. Hours - 1, marks[h], h <= q, q < h + 1 \/ (q = h + 1 /\ r = 0)
      PROVE  InRange(marks, t)
  <2>1. PICK a \in 0 .. h, b \in h + 1 .. Hours :
           <<a * HourLen, b * HourLen>> \in GetTimeRanges(marks)
    BY <1>6, RunAround
  <2>2. a \in Nat /\ b \in Nat /\ a <= q /\ (q < b \/ (q = b /\ r = 0))
    BY <1>1, <1>2, <1>6, <2>1
  <2>3. a * HourLen <= t /\ t <= b * HourLen
    BY <1>2, <1>3, <2>2, BeforeHour
  <2> DEFINE x == <<a * HourLen, b * HourLen>>
  <2>4. x \in GetTimeRanges(marks) /\ x[1] <= t /\ t <= x[2]
    BY <2>1, <2>3
  <2> QED BY <2>4 DEF InRange
<1>7. ASSUME marks[q] PROVE InRange(marks, t)
  <2>1. q <= q /\ q < q + 1
    BY <1>2
  <2> QED BY <1>4, <1>6, <1>7, <2>1
<1>8. ASSUME r = 0, t > 0, marks[q - 1] PROVE InRange(marks, t)
  <2>1. q # 0
    BY <1>1, <1>2, <1>3, <1>8
  <2>2. q - 1 \in 0 .. Hours - 1 /\ q - 1 <= q /\ q = (q - 1) + 1
    BY <1>1, <1>2, <1>4, <2>1
  <2> QED BY <1>6, <1>8, <2>2
<1> QED BY <1>5, <1>7, <1>8 DEF q, r

(* The ranges that do compares the time with cover every instant of the     *)
(* marked hours, and besides at most the instant at which a marked hour     *)
(* ends, for any length of day and hour and any plan.                      *)
THEOREM PlanInstants == Spec => []PlannedInstants
<1>1. TypeOK => PlannedInstants
  <2> SUFFICES ASSUME TypeOK, NEW c \in Channel, NEW t \in 0 .. Hours * HourLen - 1
               PROVE  /\ plan[c][t \div HourLen] => InRange(plan[c], t)
                      /\ InRange(plan[c], t) =>
                           \/ plan[c][t \div HourLen]
                           \/ t % HourLen = 0 /\ t > 0 /\ plan[c][t \div HourLen - 1]
    BY DEF PlannedInstants
  <2>1. plan[c] \in [0 .. Hours - 1 -> BOOLEAN] BY DEF TypeOK
  <2> QED BY <2>1, RangesCover
<1> QED BY <1>1, PlanTypeOK, PTL
=============================================================================
