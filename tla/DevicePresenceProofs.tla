------------------------ MODULE DevicePresenceProofs ------------------------
(***************************************************************************)
(* Proofs about DevicePresence, for any set of devices, any channel        *)
(* capacity and any time-outs.                                             *)
(***************************************************************************)
EXTENDS DevicePresence, SequenceTheorems, TLAPS

HandlerType == {IdleHandler} \cup BusyHandler
WriterType  == {IdleWriter} \cup BusyWriter

-----------------------------------------------------------------------------
(* The helpers.                                                            *)

(* xmap.Set and xmap.Remove keep one entry per device.                     *)
LEMMA PutOp ==
  ASSUME NEW S, NEW map \in SUBSET S, NEW v \in S, Keyed(map)
  PROVE  Put(map, v) \subseteq S /\ Keyed(Put(map, v))
  BY DEF Put, Keyed

LEMMA DropOp ==
  ASSUME NEW S, NEW map \in SUBSET S, NEW d, Keyed(map)
  PROVE  Drop(map, d) \subseteq S /\ Keyed(Drop(map, d))
  BY DEF Drop, Keyed

(* A send appends to a channel that is not full.                           *)
LEMMA SendOp ==
  ASSUME NEW S, NEW ch \in Seq(S), NEW v \in S, Len(ch) < ChanCap
  PROVE  Append(ch, v) \in Seq(S) /\ Len(Append(ch, v)) <= ChanCap
  <1>1. Append(ch, v) \in Seq(S) /\ Len(Append(ch, v)) = Len(ch) + 1
    OBVIOUS
  <1>2. Len(ch) \in Nat /\ ChanCap \in Nat
    BY PresenceAssumption
  <1> QED BY <1>1, <1>2

(* A receive takes the head of a channel.                                  *)
LEMMA ReceiveOp ==
  ASSUME NEW S, NEW ch \in Seq(S), ch # <<>>, Len(ch) <= ChanCap
  PROVE  /\ Head(ch) \in S
         /\ Tail(ch) \in Seq(S)
         /\ Len(Tail(ch)) <= ChanCap
  <1>1. Head(ch) \in S /\ Tail(ch) \in Seq(S) /\ Len(Tail(ch)) = Len(ch) - 1
    BY HeadTailProperties
  <1>2. Len(ch) \in Nat /\ ChanCap \in Nat
    BY PresenceAssumption
  <1> QED BY <1>1, <1>2

(* A handler whose pc is not "idle" is busy, and moving it keeps its type. *)
LEMMA HandlerOp ==
  ASSUME handler \in [Handler -> HandlerType], NEW h \in Handler,
         handler[h].pc # "idle"
  PROVE  /\ handler[h] \in BusyHandler
         /\ \A p \in HandlerPc :
              [handler EXCEPT ![h].pc = p] \in [Handler -> HandlerType]
         /\ [handler EXCEPT ![h] = IdleHandler] \in [Handler -> HandlerType]
  <1>1. handler[h] \in BusyHandler
    BY DEF HandlerType, IdleHandler
  <1>2. ASSUME NEW p \in HandlerPc
        PROVE  [handler EXCEPT ![h].pc = p] \in [Handler -> HandlerType]
    <2>1. [handler[h] EXCEPT !.pc = p] \in BusyHandler
      BY <1>1 DEF BusyHandler
    <2> QED BY <2>1 DEF HandlerType
  <1>3. [handler EXCEPT ![h] = IdleHandler] \in [Handler -> HandlerType]
    BY DEF HandlerType
  <1> QED BY <1>1, <1>2, <1>3

-----------------------------------------------------------------------------
(* Well-formedness.                                                        *)

LEMMA InitTypeOK == Init => TypeOK
  <1> SUFFICES ASSUME Init PROVE TypeOK
    OBVIOUS
  <1>1. /\ row \in [Device -> Row]
        /\ handler \in [Handler -> {IdleHandler} \cup BusyHandler]
        /\ writer \in [Writer -> {IdleWriter} \cup BusyWriter]
        /\ granted \in [Device -> SUBSET Nat]
        /\ aliases \in [Device -> SUBSET Device]
    BY DEF Init, NoRow, Row
  <1>2. beat \in Beat /\ flush \in Flush
    BY DEF Init, IdleBeat, Beat, IdleFlush, Flush
  <1>3. /\ Keyed(reachable) /\ Keyed(watch) /\ Keyed(report)
        /\ Len(catalogCh) <= ChanCap /\ Len(watchCh) <= ChanCap /\ Len(reportCh) <= ChanCap
    BY PresenceAssumption DEF Init, Keyed
  <1>4. /\ catalogCh \in Seq(CatalogReq)
        /\ watchCh \in Seq(WatchReq)
        /\ reportCh \in Seq(ReportReq)
    BY DEF Init
  <1> QED BY <1>1, <1>2, <1>3, <1>4, PresenceAssumption DEF Init, TypeOK

(* The steps of the SIP handlers.                                          *)
LEMMA HandlerTypeOK ==
  ASSUME TypeOK, NEW h \in Handler, HandlerStep(h)
  PROVE  TypeOK'
  <1> DEFINE r == handler[h]
  <1>0. handler \in [Handler -> HandlerType]
    BY DEF TypeOK, HandlerType
  <1>1. r.pc # "idle"
    BY DEF HandlerStep, RegisterUpsert, UnregisterCatalog, UnregisterWatch,
       RegisteredCatalog, RegisteredWatch, KeepaliveReport, KeepaliveProbe,
       KeepaliveCatalog, KeepaliveRead, KeepaliveWatch
  <1>2. /\ r \in BusyHandler
        /\ \A p \in HandlerPc : [handler EXCEPT ![h].pc = p] \in [Handler -> HandlerType]
        /\ [handler EXCEPT ![h] = IdleHandler] \in [Handler -> HandlerType]
    BY <1>0, <1>1, HandlerOp
  <1>3. r.dev \in Device /\ r.from \in Device /\ r.now \in Nat /\ r.expire \in Nat
    BY <1>2 DEF BusyHandler
  <1>4. /\ \A on \in BOOLEAN : [dev |-> r.dev, online |-> on] \in CatalogReq
        /\ \A on \in BOOLEAN : [dev |-> r.from, online |-> on] \in CatalogReq
        /\ \A n, e \in Nat : [dev |-> r.dev, now |-> n, expire |-> e] \in WatchReq
        /\ \A on \in BOOLEAN : [dev |-> r.dev, online |-> on] \in ReportReq
    BY <1>3 DEF CatalogReq, WatchReq, ReportReq
  <1>5. CASE RegisterUpsert(h)
    <2>1. [known |-> TRUE, online |-> r.expire > r.now, expire |-> r.expire] \in Row
      BY <1>3 DEF Row
    <2>3. row' \in [Device -> Row]
      BY <1>5, <2>1, <1>3 DEF RegisterUpsert, TypeOK
    <2>4. granted' \in [Device -> SUBSET Nat]
      BY <1>5, <1>3 DEF RegisterUpsert, TypeOK
    <2>2. handler' \in [Handler -> HandlerType]
      BY <1>5, <1>2 DEF RegisterUpsert, Goto, Finish, HandlerPc
    <2> QED BY <1>5, <2>2, <2>3, <2>4 DEF RegisterUpsert, TypeOK, HandlerType, mapVars,
            chanVars, procVars
  <1>6. CASE UnregisterCatalog(h) \/ RegisteredCatalog(h) \/ KeepaliveCatalog(h)
    <2>1. catalogCh' \in Seq(CatalogReq) /\ Len(catalogCh') <= ChanCap
      BY <1>6, <1>4, <1>3, SendOp DEF UnregisterCatalog, RegisteredCatalog,
         KeepaliveCatalog, Send, TypeOK
    <2>2. handler' \in [Handler -> HandlerType]
      BY <1>6, <1>2 DEF UnregisterCatalog, RegisteredCatalog, KeepaliveCatalog, Goto,
         HandlerPc
    <2>3. UNCHANGED <<clock, row, mapVars, watchCh, reportCh, procVars, requests,
                      restarts, granted, aliases>>
      BY <1>6 DEF UnregisterCatalog, RegisteredCatalog, KeepaliveCatalog
    <2> QED BY <2>1, <2>2, <2>3 DEF TypeOK, HandlerType, mapVars, procVars
  <1>7. CASE UnregisterWatch(h) \/ RegisteredWatch(h) \/ KeepaliveWatch(h)
    <2>1. watchCh' \in Seq(WatchReq) /\ Len(watchCh') <= ChanCap
      BY <1>7, <1>4, <1>3, SendOp DEF UnregisterWatch, RegisteredWatch,
         KeepaliveWatch, WatchMsg, Send, TypeOK
    <2>2. handler' \in [Handler -> HandlerType]
      BY <1>7, <1>2 DEF UnregisterWatch, RegisteredWatch, KeepaliveWatch, Finish
    <2>3. UNCHANGED <<clock, row, mapVars, catalogCh, reportCh, procVars, requests,
                      restarts, granted, aliases>>
      BY <1>7 DEF UnregisterWatch, RegisteredWatch, KeepaliveWatch
    <2> QED BY <2>1, <2>2, <2>3 DEF TypeOK, HandlerType, mapVars, procVars
  <1>8. CASE KeepaliveReport(h)
    <2>1. reportCh' \in Seq(ReportReq) /\ Len(reportCh') <= ChanCap
      BY <1>8, <1>4, SendOp DEF KeepaliveReport, Send, TypeOK
    <2>2. handler' \in [Handler -> HandlerType]
      BY <1>8, <1>2 DEF KeepaliveReport, Goto, HandlerPc
    <2> QED BY <1>8, <2>1, <2>2 DEF KeepaliveReport, TypeOK, HandlerType, mapVars,
            procVars
  <1>9. CASE KeepaliveProbe(h)
    <2>1. handler' \in [Handler -> HandlerType]
      BY <1>9, <1>2 DEF KeepaliveProbe, AfterProbe, Goto, HandlerPc
    <2> QED BY <1>9, <2>1 DEF KeepaliveProbe, TypeOK, HandlerType, mapVars,
            chanVars, procVars
  <1>10. CASE KeepaliveRead(h)
    <2>1. ASSUME NEW e \in watch,
                 handler' = [handler EXCEPT ![h].pc = "kaWatch", ![h].expire = e.expire]
          PROVE  handler' \in [Handler -> HandlerType]
      <3>1. e.expire \in Nat
        BY DEF TypeOK, WatchReq
      <3>2. [r EXCEPT !.pc = "kaWatch", !.expire = e.expire] \in BusyHandler
        BY <1>2, <3>1 DEF BusyHandler, HandlerPc
      <3> QED BY <1>0, <2>1, <3>2 DEF HandlerType
    <2>2. handler' \in [Handler -> HandlerType]
      BY <1>10, <1>2, <2>1 DEF KeepaliveRead, Goto, HandlerPc
    <2> QED BY <1>10, <2>2 DEF KeepaliveRead, TypeOK, HandlerType, mapVars,
            chanVars, procVars
  <1> QED BY <1>5, <1>6, <1>7, <1>8, <1>9, <1>10 DEF HandlerStep

(* A SIP request arrives.                                                  *)
LEMMA RequestTypeOK ==
  ASSUME TypeOK, NEW h \in Handler, NEW d \in Device,
         (\E e \in Expires : Register(h, d, e)) \/ \E f \in Device : Keepalive(h, d, f)
  PROVE  TypeOK'
  <1>1. CASE \E e \in Expires : Register(h, d, e)
    <2>1. PICK e \in Expires : Register(h, d, e)
      BY <1>1
    <2>2. [pc |-> "register", dev |-> d, from |-> d, now |-> clock, expire |-> clock + e]
            \in BusyHandler
      BY PresenceAssumption DEF TypeOK, BusyHandler, HandlerPc
    <2>3. handler' \in [Handler -> {IdleHandler} \cup BusyHandler]
      BY <2>1, <2>2 DEF Register, TypeOK
    <2> QED BY <2>1, <2>3 DEF Register, TypeOK, mapVars, chanVars, procVars
  <1>2. CASE \E f \in Device : Keepalive(h, d, f)
    <2>0. PICK f \in Device : Keepalive(h, d, f)
      BY <1>2
    <2>1. row[d].expire \in Nat
      BY DEF TypeOK, Row
    <2>2. [pc |-> "kaReport", dev |-> d, from |-> f, now |-> clock, expire |-> row[d].expire]
            \in BusyHandler
      BY <2>1 DEF TypeOK, BusyHandler, HandlerPc
    <2>3. handler' \in [Handler -> {IdleHandler} \cup BusyHandler]
      BY <2>0, <2>2 DEF Keepalive, TypeOK
    <2>4. aliases' \in [Device -> SUBSET Device]
      BY <2>0 DEF Keepalive, TypeOK
    <2> QED BY <2>0, <2>3, <2>4 DEF Keepalive, TypeOK, mapVars, chanVars, procVars
  <1> QED BY <1>1, <1>2

(* The receiving goroutines.                                               *)
LEMMA ReceiveTypeOK ==
  ASSUME TypeOK, CatalogReceive \/ WatchReceive \/ ReportReceive
  PROVE  TypeOK'
  <1>1. CASE CatalogReceive
    <2>1. /\ Head(catalogCh) \in CatalogReq
          /\ catalogCh' \in Seq(CatalogReq) /\ Len(catalogCh') <= ChanCap
      BY <1>1, ReceiveOp DEF CatalogReceive, TypeOK
    <2>3. /\ Put(reachable, Head(catalogCh)) \subseteq CatalogReq
          /\ Keyed(Put(reachable, Head(catalogCh)))
      BY <2>1, PutOp DEF TypeOK
    <2>4. /\ Drop(reachable, Head(catalogCh).dev) \subseteq CatalogReq
          /\ Keyed(Drop(reachable, Head(catalogCh).dev))
      BY <2>1, DropOp DEF TypeOK
    <2>2. reachable' \subseteq CatalogReq /\ Keyed(reachable')
      BY <1>1, <2>3, <2>4 DEF CatalogReceive
    <2> QED BY <1>1, <2>1, <2>2 DEF CatalogReceive, TypeOK, procVars, Keyed
  <1>2. CASE WatchReceive
    <2>1. /\ Head(watchCh) \in WatchReq
          /\ watchCh' \in Seq(WatchReq) /\ Len(watchCh') <= ChanCap
      BY <1>2, ReceiveOp DEF WatchReceive, TypeOK
    <2>2. watch' \subseteq WatchReq /\ Keyed(watch')
      BY <1>2, <2>1, PutOp DEF WatchReceive, TypeOK
    <2> QED BY <1>2, <2>1, <2>2 DEF WatchReceive, TypeOK, procVars, Keyed
  <1>3. CASE ReportReceive
    <2>1. /\ Head(reportCh) \in ReportReq
          /\ reportCh' \in Seq(ReportReq) /\ Len(reportCh') <= ChanCap
      BY <1>3, ReceiveOp DEF ReportReceive, TypeOK
    <2>2. report' \subseteq ReportReq /\ Keyed(report')
      BY <1>3, <2>1, PutOp DEF ReportReceive, TypeOK
    <2> QED BY <1>3, <2>1, <2>2 DEF ReportReceive, TypeOK, procVars, Keyed
  <1> QED BY <1>1, <1>2, <1>3

(* The heartbeat loop.                                                     *)
LEMMA BeatTypeOK ==
  ASSUME TypeOK, BeatTick \/ BeatExamine \/ BeatReport
  PROVE  TypeOK'
  <1>0. beat \in Beat /\ beat.todo \subseteq WatchReq /\ IdleBeat \in Beat
    BY DEF TypeOK, Beat, IdleBeat
  <1>1. CASE BeatTick
    <2>1. beat' \in Beat
      BY <1>1 DEF BeatTick, Beat, TypeOK
    <2> QED BY <1>1, <2>1 DEF BeatTick, TypeOK, mapVars, chanVars
  <1>2. CASE BeatExamine
    <2>1. PICK e \in beat.todo :
            \/ /\ watch' = Drop(watch, e.dev)
               /\ beat' = [beat EXCEPT !.todo = beat.todo \ {e}, !.offline = {e.dev}]
            \/ /\ \/ beat' = IdleBeat
                  \/ beat' = [beat EXCEPT !.todo = beat.todo \ {e}]
               /\ watch' = watch
      BY <1>2 DEF BeatExamine
    <2>2. e \in WatchReq /\ e.dev \in Device
      BY <1>0 DEF WatchReq
    <2>3. beat' \in Beat
      BY <1>0, <2>1, <2>2 DEF Beat
    <2>5. Drop(watch, e.dev) \subseteq WatchReq /\ Keyed(Drop(watch, e.dev))
      BY DropOp DEF TypeOK
    <2>4. watch' \subseteq WatchReq /\ Keyed(watch')
      BY <2>1, <2>5 DEF TypeOK
    <2> QED BY <1>2, <2>3, <2>4 DEF BeatExamine, TypeOK, chanVars
  <1>3. CASE BeatReport
    <2>1. PICK d \in beat.offline : Send(reportCh, [dev |-> d, online |-> FALSE])
      BY <1>3 DEF BeatReport
    <2>2. [dev |-> d, online |-> FALSE] \in ReportReq
      BY <1>0, <2>1 DEF Beat, ReportReq
    <2>3. reportCh' \in Seq(ReportReq) /\ Len(reportCh') <= ChanCap
      BY <2>1, <2>2, SendOp DEF Send, TypeOK
    <2>4. beat' \in Beat
      BY <1>0, <1>3 DEF BeatReport, Beat
    <2> QED BY <1>3, <2>3, <2>4 DEF BeatReport, TypeOK, mapVars
  <1> QED BY <1>1, <1>2, <1>3

(* The flush of the reports and the writers it starts.                     *)
LEMMA FlushTypeOK ==
  ASSUME TypeOK, FlushTick \/ FlushClear
  PROVE  TypeOK'
  <1>0. IdleFlush \in Flush
    BY DEF IdleFlush, Flush
  <1>1. CASE FlushTick
    <2>1. /\ Ids(report, TRUE) \subseteq Device /\ Ids(report, FALSE) \subseteq Device
      BY DEF Ids, TypeOK, ReportReq
    <2>2. flush' \in Flush
      BY <1>1, <2>1 DEF FlushTick, Flush
    <2>3. \A ids \in SUBSET Device, on \in BOOLEAN : Started(ids, on) \in BusyWriter
      BY DEF Started, BusyWriter
    <2>4. flush'.up \subseteq Device /\ flush'.down \subseteq Device
      BY <2>2 DEF Flush
    <2>5. writer' \in [Writer -> {IdleWriter} \cup BusyWriter]
      <3>1. PICK u, v \in Writer :
              writer' = [w \in Writer |->
                 IF flush'.up # {} /\ w = u THEN Started(flush'.up, TRUE)
                 ELSE IF flush'.down # {} /\ w = v THEN Started(flush'.down, FALSE)
                 ELSE writer[w]]
        BY <1>1 DEF FlushTick
      <3>2. \A w \in Writer : writer[w] \in {IdleWriter} \cup BusyWriter
        BY DEF TypeOK
      <3>3. /\ Started(flush'.up, TRUE) \in BusyWriter
            /\ Started(flush'.down, FALSE) \in BusyWriter
        BY <2>3, <2>4
      <3> QED BY <3>1, <3>2, <3>3
    <2> QED BY <1>1, <2>2, <2>5 DEF FlushTick, TypeOK, mapVars, chanVars
  <1>2. CASE FlushClear
    BY <1>0, <1>2 DEF FlushClear, TypeOK, Keyed, chanVars
  <1> QED BY <1>1, <1>2

LEMMA WriterTypeOK ==
  ASSUME TypeOK, NEW w \in Writer, WriterCatalog(w) \/ WriterRow(w)
  PROVE  TypeOK'
  <1>0. writer[w] \in BusyWriter
    BY DEF WriterCatalog, WriterRow, TypeOK, IdleWriter
  <1>1. CASE WriterCatalog(w)
    <2>1. PICK d \in writer[w].todo :
            /\ Send(catalogCh, [dev |-> d, online |-> FALSE])
            /\ writer' = [writer EXCEPT ![w].todo = @ \ {d},
                                        ![w].pc = IF writer[w].todo = {d} THEN "row" ELSE @]
      BY <1>1 DEF WriterCatalog
    <2>2. [dev |-> d, online |-> FALSE] \in CatalogReq
      BY <1>0, <2>1 DEF BusyWriter, CatalogReq, TypeOK
    <2>3. catalogCh' \in Seq(CatalogReq) /\ Len(catalogCh') <= ChanCap
      BY <2>1, <2>2, SendOp DEF Send, TypeOK
    <2>4. writer' \in [Writer -> {IdleWriter} \cup BusyWriter]
      BY <1>0, <2>1 DEF BusyWriter, TypeOK
    <2> QED BY <1>1, <2>3, <2>4 DEF WriterCatalog, TypeOK, mapVars
  <1>2. CASE WriterRow(w)
    <2>4. writer[w].online \in BOOLEAN
      BY <1>0 DEF BusyWriter
    <2>1. ASSUME NEW d \in Device
          PROVE  [row[d] EXCEPT !.online = writer[w].online] \in Row
      <3>1. row[d] \in Row
        BY DEF TypeOK
      <3> QED BY <2>4, <3>1 DEF Row
    <2>2. row' \in [Device -> Row]
      BY <1>2, <2>1 DEF WriterRow, TypeOK
    <2>3. writer' \in [Writer -> {IdleWriter} \cup BusyWriter]
      BY <1>2 DEF WriterRow, TypeOK
    <2> QED BY <1>2, <2>2, <2>3 DEF WriterRow, TypeOK, mapVars, chanVars
  <1> QED BY <1>1, <1>2

(* The clock, the back office, and the restart that keeps the database     *)
(* alone.                                                                  *)
LEMMA EnvironmentTypeOK ==
  ASSUME TypeOK, Tick \/ Restart \/ \E d \in Device : DeleteDevice(d)
  PROVE  TypeOK'
  <1>1. CASE Tick
    BY <1>1, PresenceAssumption DEF Tick, TypeOK, mapVars, chanVars, procVars
  <1>2. CASE Restart
    <2>1. beat' \in Beat /\ flush' \in Flush
      BY <1>2 DEF Restart, IdleBeat, Beat, IdleFlush, Flush
    <2>2. /\ catalogCh' \in Seq(CatalogReq) /\ Len(catalogCh') <= ChanCap
          /\ watchCh' \in Seq(WatchReq) /\ Len(watchCh') <= ChanCap
          /\ reportCh' \in Seq(ReportReq) /\ Len(reportCh') <= ChanCap
      BY <1>2, PresenceAssumption DEF Restart
    <2> QED BY <1>2, <2>1, <2>2 DEF Restart, TypeOK, Keyed
  <1>3. CASE \E d \in Device : DeleteDevice(d)
    <2>1. row' \in [Device -> Row]
      BY <1>3 DEF DeleteDevice, NoRow, Row, TypeOK
    <2> QED BY <1>3, <2>1 DEF DeleteDevice, TypeOK, mapVars, chanVars, procVars
  <1> QED BY <1>1, <1>2, <1>3

LEMMA StepTypeOK == TypeOK /\ [Next]_vars => TypeOK'
  <1> SUFFICES ASSUME TypeOK, [Next]_vars PROVE TypeOK'
    OBVIOUS
  <1>1. CASE UNCHANGED vars
    BY <1>1 DEF vars, TypeOK, Keyed
  <1>2. CASE Next
    BY <1>2, RequestTypeOK, HandlerTypeOK, ReceiveTypeOK, BeatTypeOK, FlushTypeOK,
       WriterTypeOK, EnvironmentTypeOK DEF Next
  <1> QED BY <1>1, <1>2

(* The state of the presence service is well formed whatever the devices,  *)
(* handlers and loops do: a map never holds two entries of a device, a     *)
(* channel never more than its capacity.                                   *)
THEOREM TypeCorrect == Spec => []TypeOK
  BY InitTypeOK, StepTypeOK, PTL DEF Spec

-----------------------------------------------------------------------------
(* Registrations are not prolonged.                                        *)

Answering == {"register", "unregCatalog", "unregWatch"}

(* WatchWithinGrant is not inductive: a keepalive takes the expiry from the*)
(* row long before it sends it, and a REGISTER grants one long before the  *)
(* heartbeat loop hears of it.  So the row, which never borrows, and the   *)
(* handlers on their way are covered as well; no handler works with a time *)
(* still to come, and one that borrows is on record under the other id.    *)
WatchInv ==
  /\ \A m \in watch : Covered(m.dev, m.expire)
  /\ \A i \in 1 .. Len(watchCh) : Covered(watchCh[i].dev, watchCh[i].expire)
  /\ \A d \in Device : Owned(d, row[d].expire)
  /\ \A h \in Handler : handler[h] # IdleHandler =>
       /\ handler[h].now <= clock
       /\ handler[h].from # handler[h].dev => handler[h].from \in aliases[handler[h].dev]
       /\ handler[h].pc \notin Answering => Covered(handler[h].dev, handler[h].expire)

Granting == HandlerPc \ Answering

(* Nothing on its way to the row says that d is online.                    *)
Quiet(d) ==
  /\ \A h \in Handler : handler[h].pc = "kaReport" => handler[h].dev # d
  /\ \A m \in report : m.dev = d => ~m.online
  /\ \A i \in 1 .. Len(reportCh) : reportCh[i].dev = d => ~reportCh[i].online
  /\ \A w \in Writer : writer[w] # IdleWriter /\ writer[w].online => d \notin writer[w].ids

(* The service has heard of d from a REGISTER or from a device that has.   *)
Introduced(d) == granted[d] # {} \/ Named(d)

(* What is in flight without a granted registration, besides what          *)
(* OnlyGrantedOnline says: no handler is past the grant.                   *)
GrantInv ==
  /\ \A d \in Device : granted[d] = {} =>
       /\ ~row[d].online
       /\ \A h \in Handler : handler[h].pc \in Granting => handler[h].dev # d
       /\ Quiet(d)
  /\ \A i \in 1 .. Len(catalogCh) : catalogCh[i].online => Introduced(catalogCh[i].dev)
  /\ \A m \in reachable : Introduced(m.dev)

(* What a send and a receive leave in a channel.                           *)
LEMMA AppendElems ==
  ASSUME NEW S, NEW ch \in Seq(S), NEW v \in S,
         NEW i \in 1 .. Len(Append(ch, v))
  PROVE  Append(ch, v)[i] = v \/ \E j \in 1 .. Len(ch) : Append(ch, v)[i] = ch[j]
  <1>1. Len(Append(ch, v)) = Len(ch) + 1 /\ Len(ch) \in Nat
    OBVIOUS
  <1>2. CASE i = Len(ch) + 1
    BY <1>2
  <1>3. CASE i \in 1 .. Len(ch)
    BY <1>3
  <1> QED BY <1>1, <1>2, <1>3

LEMMA TailElems ==
  ASSUME NEW S, NEW ch \in Seq(S), ch # <<>>
  PROVE  /\ \E j \in 1 .. Len(ch) : Head(ch) = ch[j]
         /\ \A i \in 1 .. Len(Tail(ch)) : \E j \in 1 .. Len(ch) : Tail(ch)[i] = ch[j]
  <1>1. /\ Len(ch) \in Nat \ {0}
        /\ Len(Tail(ch)) = Len(ch) - 1
        /\ Head(ch) = ch[1]
        /\ \A i \in 1 .. Len(Tail(ch)) : Tail(ch)[i] = ch[i + 1]
    BY HeadTailProperties, EmptySeq
  <1>2. \E j \in 1 .. Len(ch) : Head(ch) = ch[j]
    BY <1>1
  <1>3. ASSUME NEW i \in 1 .. Len(Tail(ch))
        PROVE  \E j \in 1 .. Len(ch) : Tail(ch)[i] = ch[j]
    <2>1. i + 1 \in 1 .. Len(ch)
      BY <1>1
    <2> QED BY <1>1, <2>1
  <1> QED BY <1>2, <1>3

(* The same in the state a step leads to.                                  *)
OwnedNext(d, t) == t <= clock' \/ t \in granted'[d]
CoveredNext(d, t) ==
  OwnedNext(d, t) \/ (aliases'[d] # {} /\ \E x \in Device : t \in granted'[x])
IntroducedNext(d) ==
  granted'[d] # {} \/ \E x \in Device : granted'[x] # {} /\ d \in aliases'[x]

(* Time does not run backwards.                                            *)
LEMMA ClockRuns ==
  ASSUME TypeOK, Next
  PROVE  clock \in Nat /\ clock' \in Nat /\ clock <= clock'
  <1>1. clock \in Nat /\ (clock' = clock \/ clock' = clock + 1)
    BY DEF TypeOK, Next, Register, Keepalive, HandlerStep, RegisterUpsert,
       UnregisterCatalog, UnregisterWatch, RegisteredCatalog, RegisteredWatch,
       KeepaliveReport, KeepaliveProbe, KeepaliveCatalog, KeepaliveRead,
       KeepaliveWatch, CatalogReceive, WatchReceive, ReportReceive, BeatTick,
       BeatExamine, BeatReport, FlushTick, FlushClear, WriterCatalog, WriterRow,
       DeleteDevice, Tick, Restart
  <1> QED BY <1>1

(* A grant is never taken back.                                            *)
LEMMA GrantStays ==
  ASSUME TypeOK, Next, NEW d \in Device
  PROVE  granted[d] \subseteq granted'[d]
  <1>1. granted \in [Device -> SUBSET Nat]
    BY DEF TypeOK
  <1>2. \/ granted' = granted
        \/ \E h \in Handler :
             granted' = [granted EXCEPT ![handler[h].dev] = @ \cup {handler[h].expire}]
    BY DEF Next, Register, Keepalive, HandlerStep, RegisterUpsert, UnregisterCatalog,
       UnregisterWatch, RegisteredCatalog, RegisteredWatch, KeepaliveReport,
       KeepaliveProbe, KeepaliveCatalog, KeepaliveRead, KeepaliveWatch,
       CatalogReceive, WatchReceive, ReportReceive, BeatTick, BeatExamine, BeatReport,
       FlushTick, FlushClear, WriterCatalog, WriterRow, DeleteDevice, Tick, Restart
  <1> QED BY <1>1, <1>2

(* Nor is a name a device went by, but for a restart.                      *)
LEMMA AliasesStay ==
  ASSUME TypeOK, Next, ~Restart, NEW d \in Device
  PROVE  aliases[d] \subseteq aliases'[d]
  <1>1. aliases \in [Device -> SUBSET Device]
    BY DEF TypeOK
  <1>2. CASE \E h \in Handler, x, f \in Device : Keepalive(h, x, f)
    <2>1. PICK h \in Handler, x \in Device, f \in Device : Keepalive(h, x, f)
      BY <1>2
    <2> QED BY <1>1, <2>1 DEF Keepalive
  <1>3. CASE \E h \in Handler : HandlerStep(h)
    BY <1>3 DEF HandlerStep, RegisterUpsert, UnregisterCatalog,
       UnregisterWatch, RegisteredCatalog, RegisteredWatch, KeepaliveReport,
       KeepaliveProbe, KeepaliveCatalog, KeepaliveRead, KeepaliveWatch
  <1>4. CASE ~((\E h \in Handler, x, f \in Device : Keepalive(h, x, f))
               \/ \E h \in Handler : HandlerStep(h))
    BY <1>4 DEF Next, Register, CatalogReceive, WatchReceive, ReportReceive, BeatTick,
       BeatExamine, BeatReport, FlushTick, FlushClear, WriterCatalog, WriterRow,
       DeleteDevice, Tick
  <1> QED BY <1>2, <1>3, <1>4

(* So what a device owns stays its own, and as long as the service runs    *)
(* what is covered stays covered and who is introduced stays so.           *)
LEMMA OwnedStays ==
  ASSUME TypeOK, Next, NEW d \in Device, NEW t \in Nat, Owned(d, t)
  PROVE  OwnedNext(d, t)
  BY ClockRuns, GrantStays DEF Owned, OwnedNext

LEMMA CoveredStays ==
  ASSUME TypeOK, Next, ~Restart, NEW d \in Device, NEW t \in Nat, Covered(d, t)
  PROVE  CoveredNext(d, t)
  <1>1. CASE Owned(d, t)
    BY <1>1, OwnedStays DEF CoveredNext
  <1>2. CASE Borrowed(d, t)
    BY <1>2, GrantStays, AliasesStay DEF Borrowed, CoveredNext
  <1> QED BY <1>1, <1>2 DEF Covered

LEMMA IntroducedStays ==
  ASSUME TypeOK, Next, ~Restart, NEW d \in Device, Introduced(d)
  PROVE  IntroducedNext(d)
  BY GrantStays, AliasesStay DEF Introduced, Named, IntroducedNext

(* Who changes what: the heartbeat map and its channel, ...                *)
LEMMA WatchFrame ==
  ASSUME Next
  PROVE  /\ \/ watch' \subseteq watch
            \/ watchCh # <<>> /\ watch' \subseteq watch \cup {Head(watchCh)}
         /\ \/ watchCh' = watchCh
            \/ watchCh' = <<>>
            \/ watchCh # <<>> /\ watchCh' = Tail(watchCh)
            \/ \E h \in Handler :
                 /\ handler[h].pc \in {"regWatch", "kaWatch"}
                 /\ watchCh' = Append(watchCh, WatchMsg(handler[h]))
            \/ \E h \in Handler :
                 /\ handler[h].pc = "unregWatch"
                 /\ watchCh' = Append(watchCh, [dev |-> handler[h].dev, now |-> 0, expire |-> 0])
  <1> USE DEF mapVars, chanVars, Send
  <1>1. CASE \E h \in Handler : HandlerStep(h)
    <2>1. watch' = watch
      BY <1>1 DEF HandlerStep, RegisterUpsert, UnregisterCatalog, UnregisterWatch,
         RegisteredCatalog, RegisteredWatch, KeepaliveReport, KeepaliveProbe,
         KeepaliveCatalog, KeepaliveRead, KeepaliveWatch
    <2>2. PICK h \in Handler : HandlerStep(h)
      BY <1>1
    <2>3. CASE RegisteredWatch(h) \/ KeepaliveWatch(h)
      BY <2>1, <2>3 DEF RegisteredWatch, KeepaliveWatch
    <2>4. CASE UnregisterWatch(h)
      BY <2>1, <2>4 DEF UnregisterWatch
    <2>5. CASE ~(RegisteredWatch(h) \/ KeepaliveWatch(h) \/ UnregisterWatch(h))
      <3>1. watchCh' = watchCh
        BY <2>2, <2>5 DEF HandlerStep, RegisterUpsert, UnregisterCatalog,
           RegisteredCatalog, KeepaliveReport, KeepaliveProbe, KeepaliveCatalog,
           KeepaliveRead
      <3> QED BY <2>1, <3>1
    <2> QED BY <2>3, <2>4, <2>5
  <1>2. CASE WatchReceive
    BY <1>2 DEF WatchReceive, Put
  <1>3. CASE BeatExamine
    BY <1>3 DEF BeatExamine, Drop
  <1>4. CASE Restart
    BY <1>4 DEF Restart
  <1>5. CASE ~((\E h \in Handler : HandlerStep(h)) \/ WatchReceive \/ BeatExamine \/ Restart)
    <2>1. watch' = watch /\ watchCh' = watchCh
      BY <1>5 DEF Next, Register, Keepalive, CatalogReceive, ReportReceive, BeatTick,
         BeatReport, FlushTick, FlushClear, WriterCatalog, WriterRow, DeleteDevice,
         Tick
    <2> QED BY <2>1
  <1> QED BY <1>1, <1>2, <1>3, <1>4, <1>5

(* ... the rows and the grants, ...                                        *)
LEMMA RowFrame ==
  ASSUME TypeOK, Next
  PROVE  \/ \E h \in Handler : RegisterUpsert(h)
         \/ \E w \in Writer : WriterRow(w)
         \/ \E x \in Device : DeleteDevice(x)
         \/ row' = row /\ granted' = granted
  <1>1. CASE \E h \in Handler : HandlerStep(h)
    BY <1>1 DEF HandlerStep, UnregisterCatalog, UnregisterWatch,
       RegisteredCatalog, RegisteredWatch, KeepaliveReport, KeepaliveProbe,
       KeepaliveCatalog, KeepaliveRead, KeepaliveWatch
  <1>2. CASE ~\E h \in Handler : HandlerStep(h)
    BY <1>2 DEF Next, Register, Keepalive, CatalogReceive, WatchReceive,
       ReportReceive, BeatTick, BeatExamine, BeatReport, FlushTick, FlushClear,
       WriterCatalog, Tick, Restart
  <1> QED BY <1>1, <1>2

(* ... and the handlers: one that is busy after a step has just started, or*)
(* is where it was, or has taken a step of its own.                        *)
LEMMA HandlerFrame ==
  ASSUME TypeOK, Next, NEW k \in Handler, handler'[k] # IdleHandler
  PROVE  \/ \E d \in Device, e \in Expires :
              handler'[k] = [pc |-> "register", dev |-> d, from |-> d, now |-> clock,
                             expire |-> clock + e]
         \/ \E d \in Device, f \in Device :
              /\ Accepts(d)
              /\ handler'[k] = [pc |-> "kaReport", dev |-> d, from |-> f, now |-> clock,
                                expire |-> row[d].expire]
              /\ aliases'[d] = aliases[d] \cup ({f} \ {d})
         \/ handler'[k] = handler[k]
         \/ HandlerStep(k)
  <1>0. handler \in [Handler -> HandlerType]
    BY DEF TypeOK, HandlerType
  <1>1. CASE \E h \in Handler, d \in Device, e \in Expires : Register(h, d, e)
    BY <1>0, <1>1 DEF Register
  <1>2. CASE \E h \in Handler, d, f \in Device : Keepalive(h, d, f)
    <2>1. PICK h \in Handler, d \in Device, f \in Device : Keepalive(h, d, f)
      BY <1>2
    <2>2. aliases'[d] = aliases[d] \cup ({f} \ {d})
      BY <2>1 DEF Keepalive, TypeOK
    <2>3. CASE h = k
      BY <1>0, <2>1, <2>2, <2>3 DEF Keepalive
    <2>4. CASE h # k
      BY <1>0, <2>1, <2>4 DEF Keepalive
    <2> QED BY <2>3, <2>4
  <1>3. CASE \E h \in Handler : HandlerStep(h)
    <2>1. PICK h \in Handler : HandlerStep(h)
      BY <1>3
    <2>2. CASE h # k
      BY <1>0, <2>1, <2>2 DEF HandlerStep, RegisterUpsert, UnregisterCatalog,
         UnregisterWatch, RegisteredCatalog, RegisteredWatch, KeepaliveReport,
         KeepaliveProbe, KeepaliveCatalog, KeepaliveRead, KeepaliveWatch, Goto, Finish
    <2> QED BY <2>1, <2>2
  <1>4. CASE Restart
    BY <1>4 DEF Restart
  <1>5. CASE CatalogReceive \/ WatchReceive \/ ReportReceive \/ BeatTick \/ BeatExamine
             \/ BeatReport \/ FlushTick \/ FlushClear \/ Tick
             \/ (\E w \in Writer : WriterCatalog(w) \/ WriterRow(w))
             \/ \E x \in Device : DeleteDevice(x)
    BY <1>5 DEF CatalogReceive, WatchReceive, ReportReceive, BeatTick, BeatExamine,
       BeatReport, FlushTick, FlushClear, WriterCatalog, WriterRow, DeleteDevice, Tick
  <1> QED BY <1>1, <1>2, <1>3, <1>4, <1>5 DEF Next

LEMMA InitWatchInv == Init => WatchInv
  BY PresenceAssumption DEF Init, NoRow, WatchInv, Owned, IdleHandler

(* The entries and requests of the heartbeat loop stay covered.            *)
LEMMA StepWatch ==
  ASSUME TypeOK, WatchInv, Next
  PROVE  /\ \A m \in watch' : CoveredNext(m.dev, m.expire)
         /\ \A i \in 1 .. Len(watchCh') : CoveredNext(watchCh'[i].dev, watchCh'[i].expire)
  <1>0. CASE Restart
    BY <1>0 DEF Restart
  <1> SUFFICES ASSUME ~Restart
               PROVE  /\ \A m \in watch' : CoveredNext(m.dev, m.expire)
                      /\ \A i \in 1 .. Len(watchCh') :
                           CoveredNext(watchCh'[i].dev, watchCh'[i].expire)
    BY <1>0
  <1> DEFINE Fine(m) == m \in WatchReq /\ CoveredNext(m.dev, m.expire)
  <1>1. \A m \in WatchReq : Covered(m.dev, m.expire) => Fine(m)
    BY CoveredStays DEF WatchReq
  <1>2. /\ watchCh \in Seq(WatchReq)
        /\ \A i \in 1 .. Len(watchCh) : watchCh[i] \in WatchReq
        /\ \A i \in 1 .. Len(watchCh) : Fine(watchCh[i])
    BY <1>1 DEF TypeOK, WatchInv
  <1>3. watchCh # <<>> => Fine(Head(watchCh))
    BY <1>2, TailElems
  <1>4. \A m \in watch : Fine(m)
    BY <1>1 DEF TypeOK, WatchInv
  <1>5. \A m \in watch' : Fine(m)
    BY <1>3, <1>4, WatchFrame
  <1>6. ASSUME NEW m \in WatchReq, Fine(m), watchCh' = Append(watchCh, m),
               NEW i \in 1 .. Len(watchCh')
        PROVE  Fine(watchCh'[i])
    BY <1>2, <1>6, AppendElems
  <1>7. ASSUME NEW h \in Handler, handler[h].pc \in {"regWatch", "kaWatch"},
               watchCh' = Append(watchCh, WatchMsg(handler[h])),
               NEW i \in 1 .. Len(watchCh')
        PROVE  Fine(watchCh'[i])
    <2>1. handler[h] \in BusyHandler
      BY <1>7 DEF TypeOK, IdleHandler
    <2>2. WatchMsg(handler[h]) \in WatchReq
      BY <2>1 DEF BusyHandler, WatchMsg, WatchReq
    <2>3. Covered(handler[h].dev, handler[h].expire)
      BY <1>7 DEF WatchInv, Answering, IdleHandler
    <2>4. Fine(WatchMsg(handler[h]))
      BY <1>1, <2>2, <2>3 DEF WatchMsg
    <2> QED BY <1>6, <1>7, <2>2, <2>4
  <1>8. ASSUME NEW h \in Handler, handler[h].pc = "unregWatch",
               watchCh' = Append(watchCh, [dev |-> handler[h].dev, now |-> 0, expire |-> 0]),
               NEW i \in 1 .. Len(watchCh')
        PROVE  Fine(watchCh'[i])
    <2> DEFINE m == [dev |-> handler[h].dev, now |-> 0, expire |-> 0]
    <2>1. handler[h] \in BusyHandler
      BY <1>8 DEF TypeOK, IdleHandler
    <2>2. m \in WatchReq
      BY <2>1 DEF BusyHandler, WatchReq
    <2>3. Covered(m.dev, m.expire)
      BY DEF Covered, Owned, TypeOK
    <2> QED BY <1>1, <1>6, <1>8, <2>2, <2>3
  <1>9. ASSUME NEW i \in 1 .. Len(watchCh')
        PROVE  Fine(watchCh'[i])
    <2>1. CASE watchCh' = watchCh
      BY <1>2, <2>1
    <2>2. CASE watchCh' = <<>>
      BY <2>2
    <2>3. CASE watchCh # <<>> /\ watchCh' = Tail(watchCh)
      BY <1>2, <2>3, TailElems
    <2> QED BY <1>7, <1>8, <2>1, <2>2, <2>3, WatchFrame
  <1> QED BY <1>5, <1>9

(* The expiry of a row stays its own: it is granted  when it is written, or *)
(* at its end already.                                                     *)
LEMMA StepRow ==
  ASSUME TypeOK, WatchInv, Next, NEW d \in Device
  PROVE  OwnedNext(d, row'[d].expire)
  <1>0. row[d] \in Row /\ row \in [Device -> Row] /\ Owned(d, row[d].expire)
    BY DEF TypeOK, WatchInv
  <1>1. row[d].expire \in Nat /\ OwnedNext(d, row[d].expire)
    BY <1>0, OwnedStays DEF Row
  <1>2. CASE row' = row
    BY <1>1, <1>2
  <1>3. CASE \E w \in Writer : WriterRow(w)
    <2>1. row'[d].expire = row[d].expire
      BY <1>0, <1>3 DEF WriterRow, Row
    <2> QED BY <1>1, <2>1
  <1>4. ASSUME NEW h \in Handler, RegisterUpsert(h), row' # row
        PROVE  OwnedNext(d, row'[d].expire)
    <2> DEFINE r == handler[h]
    <2>1. r \in BusyHandler /\ r.now <= clock
      BY <1>4 DEF RegisterUpsert, TypeOK, WatchInv, IdleHandler
    <2>2. r.expire \in Nat /\ r.now \in Nat /\ clock \in Nat
      BY <2>1 DEF BusyHandler, TypeOK
    <2>3. /\ clock' = clock
          /\ row' = [row EXCEPT ![r.dev] =
               [known |-> TRUE, online |-> r.expire > r.now, expire |-> r.expire]]
          /\ r.expire > r.now => granted' = [granted EXCEPT ![r.dev] = @ \cup {r.expire}]
      BY <1>4 DEF RegisterUpsert, mapVars, chanVars, procVars
    <2>4. CASE d = r.dev
      <3>1. row'[d].expire = r.expire
        BY <1>0, <2>3, <2>4
      <3>2. CASE r.expire > r.now
        <4>1. r.expire \in granted'[d]
          BY <2>3, <2>4, <3>2 DEF TypeOK
        <4> QED BY <3>1, <4>1 DEF OwnedNext
      <3>3. CASE r.expire <= r.now
        BY <2>1, <2>2, <2>3, <3>1, <3>3 DEF OwnedNext
      <3> QED BY <2>2, <3>2, <3>3
    <2>5. CASE d # r.dev
      BY <1>0, <1>1, <2>3, <2>5
    <2> QED BY <2>4, <2>5
  <1>5. CASE \E x \in Device : DeleteDevice(x)
    <2>1. row'[d] = row[d] \/ row'[d].expire = 0
      BY <1>0, <1>5 DEF DeleteDevice, NoRow
    <2>2. OwnedNext(d, 0)
      BY ClockRuns DEF OwnedNext
    <2> QED BY <1>1, <2>1, <2>2
  <1> QED BY <1>2, <1>3, <1>4, <1>5, RowFrame

(* A handler that is past the grant works with a covered expiry.           *)
LEMMA StepHandler ==
  ASSUME TypeOK, WatchInv, Next, NEW k \in Handler, handler'[k] # IdleHandler
  PROVE  /\ handler'[k].now <= clock'
         /\ handler'[k].from # handler'[k].dev =>
              handler'[k].from \in aliases'[handler'[k].dev]
         /\ handler'[k].pc \notin Answering => CoveredNext(handler'[k].dev, handler'[k].expire)
  <1> DEFINE r == handler[k]
  <1>0. /\ handler \in [Handler -> HandlerType]
        /\ clock \in Nat /\ clock' \in Nat /\ clock <= clock'
    BY ClockRuns DEF TypeOK, HandlerType
  <1>r. ~Restart
    BY DEF Restart
  <1>1. ASSUME r \in BusyHandler
        PROVE  /\ r.dev \in Device /\ r.now \in Nat /\ r.expire \in Nat
               /\ r.now <= clock'
               /\ r.from # r.dev => r.from \in aliases[r.dev] /\ r.from \in aliases'[r.dev]
               /\ r.pc \notin Answering => CoveredNext(r.dev, r.expire)
    <2>1. r.dev \in Device /\ r.now \in Nat /\ r.expire \in Nat /\ r # IdleHandler
      BY <1>1 DEF BusyHandler, IdleHandler
    <2>2. /\ r.now <= clock
          /\ r.from # r.dev => r.from \in aliases[r.dev]
          /\ r.pc \notin Answering => Covered(r.dev, r.expire)
      BY <2>1 DEF WatchInv
    <2> QED BY <1>0, <1>r, <2>1, <2>2, CoveredStays, AliasesStay
  <1>2. CASE \E d \in Device, e \in Expires :
               handler'[k] = [pc |-> "register", dev |-> d, from |-> d, now |-> clock,
                              expire |-> clock + e]
    BY <1>0, <1>2 DEF Answering
  <1>3. ASSUME NEW d \in Device, NEW f \in Device,
               handler'[k] = [pc |-> "kaReport", dev |-> d, from |-> f, now |-> clock,
                              expire |-> row[d].expire],
               aliases'[d] = aliases[d] \cup ({f} \ {d})
        PROVE  /\ handler'[k].now <= clock'
               /\ handler'[k].from # handler'[k].dev =>
                    handler'[k].from \in aliases'[handler'[k].dev]
               /\ CoveredNext(handler'[k].dev, handler'[k].expire)
    <2>1. row[d].expire \in Nat /\ Owned(d, row[d].expire)
      BY DEF TypeOK, Row, WatchInv
    <2>2. CoveredNext(d, row[d].expire)
      BY <2>1, OwnedStays DEF CoveredNext
    <2> QED BY <1>0, <1>3, <2>2
  <1>4. CASE handler'[k] = r
    <2>1. r \in BusyHandler
      BY <1>0, <1>4 DEF HandlerType
    <2> QED BY <1>1, <1>4, <2>1
  <1>5. CASE HandlerStep(k)
    <2>1. r.pc # "idle"
      BY <1>5 DEF HandlerStep, RegisterUpsert, UnregisterCatalog, UnregisterWatch,
         RegisteredCatalog, RegisteredWatch, KeepaliveReport, KeepaliveProbe,
         KeepaliveCatalog, KeepaliveRead, KeepaliveWatch
    <2>2. r \in BusyHandler
      BY <1>0, <2>1 DEF HandlerType, IdleHandler
    <2>3. /\ r.dev \in Device /\ r.now \in Nat /\ r.expire \in Nat
          /\ r.now <= clock'
          /\ r.from # r.dev => r.from \in aliases[r.dev] /\ r.from \in aliases'[r.dev]
          /\ r.pc \notin Answering => CoveredNext(r.dev, r.expire)
      BY <1>1, <2>2
    <2>4. \A p \in HandlerPc :
            handler' = [handler EXCEPT ![k].pc = p] =>
              /\ handler'[k].dev = r.dev
              /\ handler'[k].from = r.from
              /\ handler'[k].now = r.now
              /\ handler'[k].expire = r.expire
              /\ handler'[k].pc = p
      BY <1>0, <2>2 DEF BusyHandler
    <2>5. CASE RegisterUpsert(k)
      <3>1. CASE r.expire > r.now /\ Goto(k, "regSleep")
                 /\ granted' = [granted EXCEPT ![r.dev] = @ \cup {r.expire}]
        <4>1. CoveredNext(r.dev, r.expire)
          BY <2>3, <3>1 DEF CoveredNext, OwnedNext, TypeOK
        <4> QED BY <2>3, <2>4, <3>1, <4>1 DEF Goto, HandlerPc
      <3>2. CASE Goto(k, "unregCatalog")
        BY <2>3, <2>4, <3>2 DEF Goto, HandlerPc, Answering
      <3>3. CASE Finish(k)
        BY <1>0, <3>3 DEF Finish
      <3> QED BY <2>5, <3>1, <3>2, <3>3 DEF RegisterUpsert
    <2>6. CASE UnregisterCatalog(k)
      BY <2>3, <2>4, <2>6 DEF UnregisterCatalog, Goto, HandlerPc, Answering
    <2>7. CASE UnregisterWatch(k) \/ RegisteredWatch(k) \/ KeepaliveWatch(k)
      BY <1>0, <2>7 DEF UnregisterWatch, RegisteredWatch, KeepaliveWatch, Finish
    <2>8. CASE RegisteredCatalog(k) \/ KeepaliveReport(k) \/ KeepaliveProbe(k)
               \/ KeepaliveCatalog(k)
      <3>1. r.pc \notin Answering
        BY <2>8 DEF RegisteredCatalog, KeepaliveReport, KeepaliveProbe,
           KeepaliveCatalog, Answering
      <3>2. \E p \in HandlerPc : handler' = [handler EXCEPT ![k].pc = p]
        BY <2>8 DEF RegisteredCatalog, KeepaliveReport, KeepaliveProbe,
           KeepaliveCatalog, Goto, AfterProbe, HandlerPc
      <3> QED BY <2>3, <2>4, <3>1, <3>2
    <2>9. CASE KeepaliveRead(k)
      <3>1. r.pc \notin Answering
        BY <2>9 DEF KeepaliveRead, Answering
      <3>2. CASE Goto(k, "kaWatch")
        BY <2>3, <2>4, <3>1, <3>2 DEF Goto, HandlerPc
      <3>3. ASSUME NEW e \in watch, e.dev = r.from,
                   handler' = [handler EXCEPT ![k].pc = "kaWatch", ![k].expire = e.expire]
            PROVE  /\ handler'[k].now <= clock'
                   /\ handler'[k].from # handler'[k].dev =>
                        handler'[k].from \in aliases'[handler'[k].dev]
                   /\ CoveredNext(handler'[k].dev, handler'[k].expire)
        <4>1. handler'[k] = [r EXCEPT !.pc = "kaWatch", !.expire = e.expire]
          BY <1>0, <3>3
        <4>2. /\ handler'[k].dev = r.dev /\ handler'[k].from = r.from
              /\ handler'[k].now = r.now /\ handler'[k].expire = e.expire
          BY <2>2, <4>1 DEF BusyHandler
        <4>3. e.expire \in Nat /\ Covered(r.from, e.expire) /\ r.from \in Device
          BY <2>2, <3>3 DEF TypeOK, WatchReq, WatchInv, BusyHandler
        <4>4. Covered(r.dev, e.expire)
          BY <2>3, <4>3 DEF Covered, Owned, Borrowed
        <4>5. CoveredNext(r.dev, e.expire)
          BY <1>r, <2>3, <4>3, <4>4, CoveredStays
        <4> QED BY <2>3, <4>2, <4>5
      <3> QED BY <2>9, <3>2, <3>3 DEF KeepaliveRead
    <2> QED BY <1>5, <2>5, <2>6, <2>7, <2>8, <2>9 DEF HandlerStep
  <1> QED BY <1>2, <1>3, <1>4, <1>5, HandlerFrame

LEMMA StepWatchInv == TypeOK /\ WatchInv /\ [Next]_vars => WatchInv'
  <1> SUFFICES ASSUME TypeOK, WatchInv, [Next]_vars PROVE WatchInv'
    OBVIOUS
  <1>1. CASE UNCHANGED vars
    BY <1>1 DEF vars, WatchInv, Covered, Owned, Borrowed
  <1>2. CASE Next
    <2>1. \A d \in Device : OwnedNext(d, row'[d].expire)
      BY <1>2, StepRow
    <2>2. \A h \in Handler : handler'[h] # IdleHandler =>
            /\ handler'[h].now <= clock'
            /\ handler'[h].from # handler'[h].dev =>
                 handler'[h].from \in aliases'[handler'[h].dev]
            /\ handler'[h].pc \notin Answering =>
                 CoveredNext(handler'[h].dev, handler'[h].expire)
      BY <1>2, StepHandler
    <2> QED BY <1>2, <2>1, <2>2, StepWatch DEF WatchInv, Covered, Owned, Borrowed,
           CoveredNext, OwnedNext
  <1> QED BY <1>1, <1>2

LEMMA WatchInvSuffices == TypeOK /\ WatchInv => WatchWithinGrant
  BY SMTT(60) DEF WatchInv, WatchWithinGrant, Elems, TypeOK, Answering, IdleHandler

(* No expiry that the heartbeat loop supervises, or is about to, reaches   *)
(* beyond what a REGISTER granted, whatever the keepalives copy from the   *)
(* map and the rows.                                                       *)
THEOREM RegistrationNotProlonged == Spec => []WatchWithinGrant
  BY InitTypeOK, StepTypeOK, InitWatchInv, StepWatchInv, WatchInvSuffices, PTL DEF Spec

-----------------------------------------------------------------------------
(* Only what was granted is online.                                        *)

LEMMA InitGrantInv == Init => GrantInv
  BY DEF Init, NoRow, GrantInv, Quiet, IdleHandler, IdleWriter, Granting, HandlerPc

(* The row of a device without a grant stays offline.                      *)
LEMMA StepRowOffline ==
  ASSUME TypeOK, GrantInv, Next, NEW d \in Device, granted'[d] = {}
  PROVE  ~row'[d].online
  <1>0. /\ granted[d] = {} /\ ~row[d].online
        /\ row \in [Device -> Row] /\ row[d] \in Row
        /\ granted \in [Device -> SUBSET Nat]
    BY GrantStays DEF GrantInv, TypeOK
  <1>1. CASE \E h \in Handler : RegisterUpsert(h)
    <2>1. PICK h \in Handler : RegisterUpsert(h)
      BY <1>1
    <2> DEFINE r == handler[h]
    <2>2. CASE r.dev = d /\ r.expire > r.now
               /\ granted' = [granted EXCEPT ![r.dev] = @ \cup {r.expire}]
      BY <1>0, <2>2
    <2>3. CASE row' = [row EXCEPT ![r.dev] =
                 [known |-> TRUE, online |-> r.expire > r.now, expire |-> r.expire]]
               /\ (r.dev # d \/ ~(r.expire > r.now))
      BY <1>0, <2>3
    <2>4. CASE row' = row
      BY <1>0, <2>4
    <2> QED BY <2>1, <2>2, <2>3, <2>4 DEF RegisterUpsert
  <1>2. CASE \E w \in Writer : WriterRow(w)
    <2>1. PICK w \in Writer : WriterRow(w)
      BY <1>2
    <2>2. d \in writer[w].ids => ~writer[w].online
      BY <1>0, <2>1 DEF WriterRow, GrantInv, Quiet, IdleWriter
    <2>3. \/ row'[d] = row[d]
          \/ d \in writer[w].ids /\ row'[d] = [row[d] EXCEPT !.online = writer[w].online]
      <3>1. CASE row' = [x \in Device |->
                   IF x \in writer[w].ids /\ row[x].known
                   THEN [row[x] EXCEPT !.online = writer[w].online] ELSE row[x]]
        BY <3>1
      <3>2. CASE row' = row
        BY <3>2
      <3> QED BY <2>1, <3>1, <3>2 DEF WriterRow
    <2> QED BY <1>0, <2>2, <2>3 DEF Row
  <1>3. CASE row' = row
    BY <1>0, <1>3
  <1>4. CASE \E x \in Device : DeleteDevice(x)
    BY <1>0, <1>4 DEF DeleteDevice, NoRow
  <1> QED BY <1>1, <1>2, <1>3, <1>4, RowFrame

(* No handler gets past the grant for it: a keepalive is not accepted.     *)
LEMMA StepNoHandler ==
  ASSUME TypeOK, WatchInv, GrantInv, Next, NEW d \in Device, granted'[d] = {},
         NEW k \in Handler, handler'[k].pc \in Granting
  PROVE  handler'[k].dev # d
  <1> DEFINE r == handler[k]
  <1>0. /\ granted[d] = {}
        /\ granted \in [Device -> SUBSET Nat]
        /\ handler \in [Handler -> HandlerType]
        /\ r.pc \in Granting => r.dev # d
    BY GrantStays DEF GrantInv, TypeOK, HandlerType
  <1>1. handler'[k] # IdleHandler
    BY DEF Granting, HandlerPc, IdleHandler
  <1>2. CASE \E x \in Device, e \in Expires :
               handler'[k] = [pc |-> "register", dev |-> x, from |-> x, now |-> clock,
                              expire |-> clock + e]
    BY <1>2 DEF Granting, Answering
  <1>3. CASE \E x \in Device, f \in Device :
               /\ Accepts(x)
               /\ handler'[k] = [pc |-> "kaReport", dev |-> x, from |-> f, now |-> clock,
                                 expire |-> row[x].expire]
    <2>1. row[d].expire \in Nat /\ row[d].expire <= clock /\ ~row[d].online /\ clock \in Nat
      BY <1>0 DEF WatchInv, Owned, GrantInv, TypeOK, Row
    <2>2. ~Accepts(d)
      BY <2>1, PresenceAssumption DEF Accepts
    <2> QED BY <1>3, <2>2
  <1>4. CASE handler'[k] = r
    BY <1>0, <1>4
  <1>5. CASE HandlerStep(k)
    <2>1. r \in BusyHandler
      BY <1>0, <1>5 DEF HandlerType, IdleHandler, HandlerStep, RegisterUpsert,
         UnregisterCatalog, UnregisterWatch, RegisteredCatalog, RegisteredWatch,
         KeepaliveReport, KeepaliveProbe, KeepaliveCatalog, KeepaliveRead, KeepaliveWatch
    <2>2. CASE r.pc \in Granting
      <3>1. \/ \E p : handler' = [handler EXCEPT ![k].pc = p]
            \/ handler' = [handler EXCEPT ![k] = IdleHandler]
            \/ \E e : handler' = [handler EXCEPT ![k].pc = "kaWatch", ![k].expire = e]
        BY <1>5 DEF HandlerStep, RegisterUpsert, UnregisterCatalog, UnregisterWatch,
           RegisteredCatalog, RegisteredWatch, KeepaliveReport, KeepaliveProbe,
           KeepaliveCatalog, KeepaliveRead, KeepaliveWatch, Goto, Finish
      <3>2. handler'[k].dev = r.dev
        BY <1>0, <1>1, <2>1, <3>1 DEF BusyHandler
      <3> QED BY <1>0, <2>2, <3>2
    <2>3. CASE RegisterUpsert(k)
      <3>1. CASE r.expire > r.now
                 /\ granted' = [granted EXCEPT ![r.dev] = @ \cup {r.expire}]
                 /\ Goto(k, "regSleep")
        <4>1. r.dev # d
          BY <1>0, <3>1
        <4> QED BY <1>0, <2>1, <3>1, <4>1 DEF Goto, BusyHandler
      <3>2. CASE Goto(k, "unregCatalog")
        BY <1>0, <2>1, <3>2 DEF Goto, BusyHandler, Granting, Answering
      <3>3. CASE Finish(k)
        BY <1>0, <1>1, <3>3 DEF Finish
      <3> QED BY <2>3, <3>1, <3>2, <3>3 DEF RegisterUpsert
    <2>4. CASE UnregisterCatalog(k)
      BY <1>0, <2>1, <2>4 DEF UnregisterCatalog, Goto, BusyHandler, Granting, Answering
    <2>5. CASE UnregisterWatch(k)
      BY <1>0, <1>1, <2>5 DEF UnregisterWatch, Finish
    <2> QED BY <1>5, <2>1, <2>2, <2>3, <2>4, <2>5 DEF HandlerStep, Granting,
            BusyHandler, Answering, RegisteredCatalog, RegisteredWatch,
            KeepaliveReport, KeepaliveProbe, KeepaliveCatalog, KeepaliveRead,
            KeepaliveWatch, HandlerPc
  <1> QED BY <1>1, <1>2, <1>3, <1>4, <1>5, HandlerFrame

(* Nothing says online on the way to the row: neither the reports ...      *)
LEMMA StepReports ==
  ASSUME TypeOK, Next, NEW d \in Device, Quiet(d)
  PROVE  /\ \A m \in report' : m.dev = d => ~m.online
         /\ \A i \in 1 .. Len(reportCh') : reportCh'[i].dev = d => ~reportCh'[i].online
  <1> DEFINE Fine(m) == m.dev = d => ~m.online
  <1>0. /\ reportCh \in Seq(ReportReq)
        /\ \A m \in report : Fine(m)
        /\ \A i \in 1 .. Len(reportCh) : Fine(reportCh[i])
        /\ \A h \in Handler : handler[h].pc = "kaReport" => handler[h].dev # d
    BY DEF Quiet, TypeOK
  <1>1. ASSUME NEW m \in ReportReq, Fine(m), reportCh' = Append(reportCh, m),
               NEW i \in 1 .. Len(reportCh')
        PROVE  Fine(reportCh'[i])
    BY <1>0, <1>1, AppendElems
  <1>2. CASE \E h \in Handler : KeepaliveReport(h)
    <2>1. PICK h \in Handler : KeepaliveReport(h)
      BY <1>2
    <2> DEFINE m == [dev |-> handler[h].dev, online |-> TRUE]
    <2>2. handler[h] \in BusyHandler /\ handler[h].pc = "kaReport"
      BY <2>1 DEF KeepaliveReport, TypeOK, IdleHandler
    <2>3. m \in ReportReq /\ Fine(m)
      BY <1>0, <2>2 DEF ReportReq, BusyHandler
    <2>4. reportCh' = Append(reportCh, m) /\ report' = report
      BY <2>1 DEF KeepaliveReport, Send, mapVars
    <2> QED BY <1>0, <1>1, <2>3, <2>4
  <1>3. CASE BeatReport
    <2>1. PICK x \in beat.offline :
            /\ reportCh' = Append(reportCh, [dev |-> x, online |-> FALSE])
            /\ report' = report
      BY <1>3 DEF BeatReport, Send, mapVars
    <2>2. [dev |-> x, online |-> FALSE] \in ReportReq
      BY DEF TypeOK, Beat, ReportReq
    <2> QED BY <1>0, <1>1, <2>1, <2>2
  <1>4. CASE ReportReceive
    <2>1. Fine(Head(reportCh))
      BY <1>0, <1>4, TailElems DEF ReportReceive
    <2>2. \A m \in report' : Fine(m)
      BY <1>0, <1>4, <2>1 DEF ReportReceive, Put
    <2>3. ASSUME NEW i \in 1 .. Len(reportCh') PROVE Fine(reportCh'[i])
      BY <1>0, <1>4, TailElems DEF ReportReceive
    <2> QED BY <2>2, <2>3
  <1>5. CASE FlushClear \/ Restart
    <2>1. report' = {} /\ (reportCh' = reportCh \/ reportCh' = <<>>)
      BY <1>5 DEF FlushClear, Restart, chanVars
    <2> QED BY <1>0, <2>1
  <1>6. CASE ~((\E h \in Handler : KeepaliveReport(h)) \/ BeatReport \/ ReportReceive
               \/ FlushClear \/ Restart)
    <2>1. report' = report /\ reportCh' = reportCh
      BY <1>6 DEF Next, Register, Keepalive, HandlerStep, RegisterUpsert,
         UnregisterCatalog, UnregisterWatch, RegisteredCatalog, RegisteredWatch,
         KeepaliveProbe, KeepaliveCatalog, KeepaliveRead, KeepaliveWatch,
         CatalogReceive, WatchReceive, BeatTick, BeatExamine, FlushTick,
         WriterCatalog, WriterRow, DeleteDevice, Tick, mapVars, chanVars
    <2> QED BY <1>0, <2>1
  <1> QED BY <1>2, <1>3, <1>4, <1>5, <1>6

(* ... nor the writers.                                                    *)
LEMMA StepWriters ==
  ASSUME TypeOK, Next, NEW d \in Device, Quiet(d),
         NEW w \in Writer, writer'[w] # IdleWriter, writer'[w].online
  PROVE  d \notin writer'[w].ids
  <1>0. /\ writer \in [Writer -> WriterType]
        /\ \A m \in report : m.dev = d => ~m.online
        /\ writer[w] # IdleWriter /\ writer[w].online => d \notin writer[w].ids
    BY DEF Quiet, TypeOK, WriterType
  <1>1. CASE FlushTick
    <2>1. PICK u, v \in Writer :
            writer' = [x \in Writer |->
              IF flush'.up # {} /\ x = u THEN Started(flush'.up, TRUE)
              ELSE IF flush'.down # {} /\ x = v THEN Started(flush'.down, FALSE)
              ELSE writer[x]]
      BY <1>1 DEF FlushTick
    <2>2. d \notin flush'.up
      BY <1>0, <1>1 DEF FlushTick, Ids
    <2>3. \/ writer'[w] = Started(flush'.up, TRUE)
          \/ writer'[w] = Started(flush'.down, FALSE)
          \/ writer'[w] = writer[w]
      BY <2>1
    <2> QED BY <1>0, <2>2, <2>3 DEF Started
  <1>2. CASE \E x \in Writer : WriterCatalog(x)
    <2>1. PICK x \in Writer : WriterCatalog(x)
      BY <1>2
    <2>2. writer[x] \in BusyWriter
      BY <1>0, <2>1 DEF WriterCatalog, WriterType, IdleWriter
    <2>3. \/ writer'[w] = writer[w]
          \/ /\ writer'[w].online = writer[w].online
             /\ writer'[w].ids = writer[w].ids
             /\ writer[w] \in BusyWriter
      <3>1. PICK t, p : writer' = [writer EXCEPT ![x].todo = t, ![x].pc = p]
        BY <2>1 DEF WriterCatalog
      <3>2. CASE x # w
        BY <1>0, <3>1, <3>2
      <3>3. CASE x = w
        <4>1. writer'[w] = [[writer[w] EXCEPT !.todo = t] EXCEPT !.pc = p]
          BY <1>0, <3>1, <3>3
        <4> QED BY <2>2, <3>3, <4>1 DEF BusyWriter
      <3> QED BY <3>2, <3>3
    <2>4. writer[w] \in BusyWriter => writer[w] # IdleWriter
      BY DEF BusyWriter, IdleWriter
    <2> QED BY <1>0, <2>3, <2>4
  <1>3. CASE \E x \in Writer : WriterRow(x)
    BY <1>0, <1>3 DEF WriterRow
  <1>4. CASE Restart
    BY <1>4 DEF Restart
  <1>5. CASE ~(FlushTick \/ Restart \/ \E x \in Writer : WriterCatalog(x) \/ WriterRow(x))
    <2>1. writer' = writer
      BY <1>5 DEF Next, Register, Keepalive, HandlerStep, RegisterUpsert,
         UnregisterCatalog, UnregisterWatch, RegisteredCatalog, RegisteredWatch,
         KeepaliveReport, KeepaliveProbe, KeepaliveCatalog, KeepaliveRead,
         KeepaliveWatch, CatalogReceive, WatchReceive, ReportReceive, BeatTick,
         BeatExamine, BeatReport, FlushClear, DeleteDevice, Tick, procVars
    <2> QED BY <1>0, <2>1
  <1> QED BY <1>1, <1>2, <1>3, <1>4, <1>5

(* And nothing makes an id reachable that was not introduced.              *)
LEMMA StepCatalog ==
  ASSUME TypeOK, WatchInv, GrantInv, Next
  PROVE  /\ \A m \in reachable' : IntroducedNext(m.dev)
         /\ \A i \in 1 .. Len(catalogCh') :
              catalogCh'[i].online => IntroducedNext(catalogCh'[i].dev)
  <1>r. CASE Restart
    BY <1>r DEF Restart
  <1> SUFFICES ASSUME ~Restart
               PROVE  /\ \A m \in reachable' : IntroducedNext(m.dev)
                      /\ \A i \in 1 .. Len(catalogCh') :
                           catalogCh'[i].online => IntroducedNext(catalogCh'[i].dev)
    BY <1>r
  <1> DEFINE Fine(m) == m.online => IntroducedNext(m.dev)
  <1>d. catalogCh \in Seq(CatalogReq)
    BY DEF TypeOK
  <1>e. \A i \in 1 .. Len(catalogCh) : catalogCh[i] \in CatalogReq
    BY <1>d
  <1>f. \A m \in CatalogReq : m.dev \in Device
    BY DEF CatalogReq
  <1>0. /\ catalogCh \in Seq(CatalogReq)
        /\ \A i \in 1 .. Len(catalogCh) : catalogCh[i] \in CatalogReq
        /\ \A m \in CatalogReq : m.dev \in Device
    BY <1>d, <1>e, <1>f
  <1>a. \A m \in reachable : IntroducedNext(m.dev)
    BY <1>0, IntroducedStays DEF GrantInv, TypeOK
  <1>b. \A i \in 1 .. Len(catalogCh) : Fine(catalogCh[i])
    BY <1>0, IntroducedStays DEF GrantInv
  <1>c. ASSUME NEW h \in Handler, handler[h].pc \in Granting
        PROVE  IntroducedNext(handler[h].dev) /\ IntroducedNext(handler[h].from)
    <2>1. handler[h] \in BusyHandler
      BY <1>c DEF TypeOK, IdleHandler, Granting, HandlerPc
    <2>2. /\ handler[h].dev \in Device /\ handler[h].from \in Device
          /\ handler[h] # IdleHandler
      BY <2>1 DEF BusyHandler, IdleHandler
    <2>3. granted[handler[h].dev] # {}
      BY <1>c, <2>2 DEF GrantInv
    <2>4. handler[h].from # handler[h].dev => handler[h].from \in aliases[handler[h].dev]
      BY <2>2 DEF WatchInv
    <2>5. Introduced(handler[h].dev) /\ Introduced(handler[h].from)
      BY <2>2, <2>3, <2>4 DEF Introduced, Named
    <2> QED BY <2>2, <2>5, IntroducedStays
  <1>1. ASSUME NEW m \in CatalogReq, Fine(m), catalogCh' = Append(catalogCh, m),
               NEW i \in 1 .. Len(catalogCh')
        PROVE  Fine(catalogCh'[i])
    BY <1>0, <1>b, <1>1, AppendElems
  <1>2. CASE \E h \in Handler : UnregisterCatalog(h) \/ RegisteredCatalog(h) \/ KeepaliveCatalog(h)
    <2>1. PICK h \in Handler : UnregisterCatalog(h) \/ RegisteredCatalog(h) \/ KeepaliveCatalog(h)
      BY <1>2
    <2>2. handler[h] \in BusyHandler
      BY <2>1 DEF UnregisterCatalog, RegisteredCatalog, KeepaliveCatalog, TypeOK, IdleHandler
    <2>3. PICK on \in BOOLEAN, d \in {handler[h].dev, handler[h].from} :
            /\ on => handler[h].pc \in Granting
            /\ catalogCh' = Append(catalogCh, [dev |-> d, online |-> on])
            /\ reachable' = reachable
      <3>1. CASE UnregisterCatalog(h)
        BY <3>1 DEF UnregisterCatalog, Send, mapVars
      <3>2. CASE RegisteredCatalog(h)
        BY <3>2 DEF RegisteredCatalog, Send, mapVars, Granting, HandlerPc, Answering
      <3>3. CASE KeepaliveCatalog(h)
        BY <3>3 DEF KeepaliveCatalog, Send, mapVars, Granting, HandlerPc, Answering
      <3> QED BY <2>1, <3>1, <3>2, <3>3
    <2> DEFINE m == [dev |-> d, online |-> on]
    <2>4. m \in CatalogReq
      BY <2>2 DEF BusyHandler, CatalogReq
    <2>5. Fine(m)
      BY <1>c, <2>3
    <2> QED BY <1>a, <1>1, <2>3, <2>4, <2>5
  <1>3. CASE \E w \in Writer : WriterCatalog(w)
    <2>1. PICK w \in Writer : WriterCatalog(w)
      BY <1>3
    <2>2. writer[w] \in BusyWriter
      BY <2>1 DEF WriterCatalog, TypeOK, IdleWriter
    <2>3. PICK x \in writer[w].todo :
            /\ catalogCh' = Append(catalogCh, [dev |-> x, online |-> FALSE])
            /\ reachable' = reachable
      BY <2>1 DEF WriterCatalog, Send, mapVars
    <2>4. [dev |-> x, online |-> FALSE] \in CatalogReq
      BY <2>2 DEF BusyWriter, CatalogReq, TypeOK
    <2> QED BY <1>a, <1>1, <2>3, <2>4
  <1>4. CASE CatalogReceive
    <2>1. Fine(Head(catalogCh))
      BY <1>0, <1>b, <1>4, TailElems DEF CatalogReceive
    <2>2. \A m \in reachable' : IntroducedNext(m.dev)
      BY <1>a, <1>4, <2>1 DEF CatalogReceive, Put, Drop
    <2>3. ASSUME NEW i \in 1 .. Len(catalogCh') PROVE Fine(catalogCh'[i])
      BY <1>0, <1>b, <1>4, TailElems DEF CatalogReceive
    <2> QED BY <2>2, <2>3
  <1>6. CASE ~((\E h \in Handler : UnregisterCatalog(h) \/ RegisteredCatalog(h)
                                   \/ KeepaliveCatalog(h))
               \/ (\E w \in Writer : WriterCatalog(w)) \/ CatalogReceive)
    <2>1. reachable' = reachable /\ catalogCh' = catalogCh
      BY <1>6 DEF Next, Register, Keepalive, HandlerStep, RegisterUpsert,
         UnregisterWatch, RegisteredWatch, KeepaliveReport, KeepaliveProbe,
         KeepaliveRead, KeepaliveWatch, WatchReceive, ReportReceive, BeatTick,
         BeatExamine, BeatReport, FlushTick, FlushClear, WriterRow, DeleteDevice,
         Tick, mapVars, chanVars
    <2> QED BY <1>a, <1>b, <2>1
  <1> QED BY <1>2, <1>3, <1>4, <1>6

LEMMA StepGrantInv == TypeOK /\ WatchInv /\ GrantInv /\ [Next]_vars => GrantInv'
  <1> SUFFICES ASSUME TypeOK, WatchInv, GrantInv, [Next]_vars PROVE GrantInv'
    OBVIOUS
  <1>1. CASE UNCHANGED vars
    BY <1>1 DEF vars, GrantInv, Quiet, Introduced, Named
  <1>2. ASSUME Next, NEW d \in Device, granted'[d] = {}
        PROVE  /\ ~row'[d].online
               /\ \A h \in Handler : handler'[h].pc \in Granting => handler'[h].dev # d
               /\ Quiet(d)'
    <2>1. granted[d] = {} /\ Quiet(d)
      BY <1>2, GrantStays DEF GrantInv
    <2>2. \A h \in Handler : handler'[h].pc \in Granting => handler'[h].dev # d
      BY <1>2, StepNoHandler
    <2>3. "kaReport" \in Granting
      BY DEF Granting, HandlerPc, Answering
    <2>4. Quiet(d)'
      BY <1>2, <2>1, <2>2, <2>3, StepReports, StepWriters DEF Quiet
    <2> QED BY <1>2, <2>2, <2>4, StepRowOffline
  <1>3. ASSUME Next
        PROVE  /\ \A i \in 1 .. Len(catalogCh') :
                    catalogCh'[i].online => IntroducedNext(catalogCh'[i].dev)
               /\ \A m \in reachable' : IntroducedNext(m.dev)
    BY <1>3, StepCatalog
  <1> QED BY <1>1, <1>2, <1>3 DEF GrantInv, Introduced, Named, IntroducedNext

LEMMA GrantInvSuffices == TypeOK /\ WatchInv /\ GrantInv => OnlyGrantedOnline
  <1> SUFFICES ASSUME TypeOK, WatchInv, GrantInv, NEW d \in Device, granted[d] = {}
               PROVE  /\ ~row[d].online /\ ~OnlineInFlight(d)
                      /\ ReachableInFlight(d) => Named(d)
    BY DEF OnlyGrantedOnline
  <1>1. ~row[d].online /\ Quiet(d)
    BY DEF GrantInv
  <1>2. ~OnlineInFlight(d)
    BY <1>1 DEF OnlineInFlight, Quiet, Elems, TypeOK
  <1>3. ASSUME NEW h \in Handler, handler[h].pc \in {"regSleep", "kaProbe", "kaCatalog"},
               handler[h].from = d
        PROVE  Named(d)
    <2>1. handler[h] \in BusyHandler /\ handler[h].pc \in Granting
      BY <1>3 DEF TypeOK, IdleHandler, Granting, HandlerPc, Answering
    <2>2. handler[h].dev \in Device /\ handler[h] # IdleHandler
      BY <2>1 DEF BusyHandler, IdleHandler
    <2>3. granted[handler[h].dev] # {}
      BY <2>1, <2>2 DEF GrantInv
    <2>4. d \in aliases[handler[h].dev]
      BY <1>3, <2>2, <2>3 DEF WatchInv
    <2> QED BY <2>2, <2>3, <2>4 DEF Named
  <1>4. (\E m \in Elems(catalogCh) : m.dev = d /\ m.online) => Named(d)
    BY DEF GrantInv, Introduced, Elems
  <1>5. Holds(reachable, d) => Named(d)
    BY DEF GrantInv, Introduced, Holds
  <1> QED BY <1>1, <1>2, <1>3, <1>4, <1>5 DEF ReachableInFlight

(* A device that no REGISTER granted a registration is never recorded      *)
(* online, and is reachable only when a keepalive of a registered one named*)
(* it: the unauthenticated keepalive of its own gets it nowhere.           *)
THEOREM OnlyRegisteredOnline == Spec => []OnlyGrantedOnline
  BY InitTypeOK, StepTypeOK, InitWatchInv, StepWatchInv, InitGrantInv, StepGrantInv,
     GrantInvSuffices, PTL DEF Spec

-----------------------------------------------------------------------------
(* The dead stay dead.                                                     *)

LEMMA QuietMeans ==
  ASSUME TypeOK, NEW d \in Device
  PROVE  ~OnlineInFlight(d) <=> Quiet(d)
  BY DEF OnlineInFlight, Quiet, Elems, TypeOK

(* A REGISTER of d writes its row.                                         *)
Reregisters(d) ==
  \E h \in Handler :
    handler[h].pc = "register" /\ handler[h].dev = d /\ RegisterUpsert(h)

LEMMA StepDeadRow ==
  ASSUME TypeOK, Next, NEW d \in Device, Dead(d), Quiet(d), ~Reregisters(d)
  PROVE  ~row'[d].online /\ row'[d].expire <= clock' + KeepaliveMargin
  <1>0. /\ row \in [Device -> Row] /\ row[d] \in Row
        /\ ~row[d].online
        /\ row[d].expire \in Nat
        /\ row[d].expire <= clock + KeepaliveMargin
    BY DEF TypeOK, Dead, Row
  <1>1. row[d].expire <= clock' + KeepaliveMargin
    BY <1>0, ClockRuns, PresenceAssumption
  <1>2. CASE \E h \in Handler : RegisterUpsert(h)
    <2>1. PICK h \in Handler : RegisterUpsert(h)
      BY <1>2
    <2>2. handler[h].dev # d
      BY <2>1 DEF Reregisters, RegisterUpsert
    <2>3. row'[d] = row[d]
      BY <1>0, <2>1, <2>2 DEF RegisterUpsert
    <2> QED BY <1>0, <1>1, <2>3
  <1>3. CASE \E w \in Writer : WriterRow(w)
    <2>1. PICK w \in Writer : WriterRow(w)
      BY <1>3
    <2>2. writer[w] # IdleWriter
      BY <2>1 DEF WriterRow, IdleWriter
    <2>3. CASE row' = row
      BY <1>0, <1>1, <2>3
    <2>4. CASE row' = [x \in Device |->
                 IF x \in writer[w].ids /\ row[x].known
                 THEN [row[x] EXCEPT !.online = writer[w].online] ELSE row[x]]
      <3>1. CASE d \in writer[w].ids
        <4>1. ~writer[w].online
          BY <2>2, <3>1 DEF Quiet
        <4>2. row'[d] = row[d] \/ row'[d] = [row[d] EXCEPT !.online = writer[w].online]
          BY <1>0, <2>4, <3>1
        <4> QED BY <1>0, <1>1, <4>1, <4>2 DEF Row
      <3>2. CASE d \notin writer[w].ids
        BY <1>0, <1>1, <2>4, <3>2
      <3> QED BY <3>1, <3>2
    <2> QED BY <2>1, <2>3, <2>4 DEF WriterRow
  <1>4. CASE row' = row
    BY <1>0, <1>1, <1>4
  <1>5. CASE \E x \in Device : DeleteDevice(x)
    <2>1. row'[d] = row[d] \/ (row'[d].expire = 0 /\ ~row'[d].online)
      BY <1>0, <1>5 DEF DeleteDevice, NoRow
    <2>2. 0 <= clock' + KeepaliveMargin
      BY ClockRuns, PresenceAssumption
    <2> QED BY <1>0, <1>1, <2>1, <2>2
  <1> QED BY <1>2, <1>3, <1>4, <1>5, RowFrame

(* A keepalive of a dead device is not accepted.                           *)
LEMMA StepDeadHandler ==
  ASSUME TypeOK, Next, NEW d \in Device, Dead(d), Quiet(d),
         NEW k \in Handler, handler'[k].pc = "kaReport"
  PROVE  handler'[k].dev # d
  <1>0. /\ handler \in [Handler -> HandlerType]
        /\ handler'[k] # IdleHandler
        /\ handler[k].pc = "kaReport" => handler[k].dev # d
    BY DEF TypeOK, HandlerType, IdleHandler, Quiet
  <1>1. ~Accepts(d)
    <2>1. row[d].expire \in Nat /\ clock \in Nat
      BY DEF TypeOK, Row
    <2> QED BY <2>1, PresenceAssumption DEF Accepts, Dead
  <1>2. CASE HandlerStep(k)
    <2>1. handler[k] \in BusyHandler
      BY <1>0, <1>2 DEF HandlerType, IdleHandler, HandlerStep, RegisterUpsert,
         UnregisterCatalog, UnregisterWatch, RegisteredCatalog, RegisteredWatch,
         KeepaliveReport, KeepaliveProbe, KeepaliveCatalog, KeepaliveRead, KeepaliveWatch
    <2>2. \/ \E p \in HandlerPc \ {"kaReport"} : handler' = [handler EXCEPT ![k].pc = p]
          \/ handler' = [handler EXCEPT ![k] = IdleHandler]
          \/ \E e : handler' = [handler EXCEPT ![k].pc = "kaWatch", ![k].expire = e]
      BY <1>2 DEF HandlerStep, RegisterUpsert, UnregisterCatalog, UnregisterWatch,
         RegisteredCatalog, RegisteredWatch, KeepaliveReport, KeepaliveProbe,
         KeepaliveCatalog, KeepaliveRead, KeepaliveWatch, Goto, Finish, AfterProbe,
         HandlerPc
    <2>3. ASSUME NEW p \in HandlerPc \ {"kaReport"},
                 handler' = [handler EXCEPT ![k].pc = p]
          PROVE  handler'[k].pc = p
      BY <1>0, <2>1, <2>3 DEF BusyHandler
    <2>4. handler' # [handler EXCEPT ![k] = IdleHandler]
      BY <1>0
    <2>5. ASSUME NEW e, handler' = [handler EXCEPT ![k].pc = "kaWatch", ![k].expire = e]
          PROVE  handler'[k].pc = "kaWatch"
      BY <1>0, <2>1, <2>5 DEF BusyHandler
    <2> QED BY <2>2, <2>3, <2>4, <2>5
  <1>3. CASE \E x \in Device, e \in Expires :
               handler'[k] = [pc |-> "register", dev |-> x, from |-> x, now |-> clock,
                              expire |-> clock + e]
    BY <1>3
  <1>4. CASE \E x \in Device, f \in Device :
               /\ Accepts(x)
               /\ handler'[k] = [pc |-> "kaReport", dev |-> x, from |-> f, now |-> clock,
                                 expire |-> row[x].expire]
    BY <1>1, <1>4
  <1>5. CASE handler'[k] = handler[k]
    BY <1>0, <1>5
  <1> QED BY <1>0, <1>2, <1>3, <1>4, <1>5, HandlerFrame

LEMMA StepDeadQuiet ==
  ASSUME TypeOK, Next, NEW d \in Device, Dead(d)
  PROVE  ~OnlineInFlight(d)'
  <1>1. Quiet(d)
    BY QuietMeans DEF Dead
  <1>2. TypeOK'
    BY StepTypeOK
  <1>3. Quiet(d)'
    BY <1>1, StepDeadHandler, StepReports, StepWriters DEF Quiet
  <1> QED BY <1>2, <1>3 DEF OnlineInFlight, Quiet, Elems, TypeOK

LEMMA StepDead ==
  ASSUME TypeOK, Next, NEW d \in Device, Dead(d), ~Reregisters(d)
  PROVE  Dead(d)'
  <1>1. Quiet(d)
    BY QuietMeans DEF Dead
  <1>2. ~row'[d].online /\ row'[d].expire <= clock' + KeepaliveMargin
    BY <1>1, StepDeadRow
  <1> QED BY <1>2, StepDeadQuiet DEF Dead

(* A device that was deleted, or is offline at the end of its registration,*)
(* with nothing in flight that says otherwise, comes back through a        *)
(* REGISTER and no other way.                                              *)
THEOREM DeadStayDead == Spec => NoResurrection
  <1> DEFINE Kept == \A d \in Device : Dead(d) =>
       \/ Dead(d)'
       \/ \E h \in Handler : handler[h].pc = "register" /\ handler[h].dev = d
                             /\ RegisterUpsert(h)
  <1>1. TypeOK /\ Next => Kept
    BY StepDead DEF Reregisters
  <1> HIDE DEF Kept
  <1>2. TypeOK /\ [Next]_vars => [Kept]_vars
    BY <1>1
  <1>3. NoResurrection <=> [][Kept]_vars
    BY DEF NoResurrection, Kept
  <1> QED BY <1>2, <1>3, TypeCorrect, PTL DEF Spec

-----------------------------------------------------------------------------
(* The life of devices.                                                    *)

(* A REGISTER is granted: the row is written with an expiry to come.       *)
Granted(h) ==
  /\ RegisterUpsert(h)
  /\ handler[h].expire > handler[h].now
  /\ row' = [row EXCEPT ![handler[h].dev] =
       [known |-> TRUE, online |-> TRUE, expire |-> handler[h].expire]]
  /\ granted' = [granted EXCEPT ![handler[h].dev] = @ \cup {handler[h].expire}]

(* The other outcomes of an upsert leave the device offline, at the end of *)
(* its registration, or change nothing.                                    *)
LEMMA UpsertKinds ==
  ASSUME TypeOK, WatchInv, NEW h \in Handler, RegisterUpsert(h), ~Granted(h)
  PROVE  /\ granted' = granted
         /\ \/ row' = row
            \/ \E t \in Nat :
                 /\ t <= clock
                 /\ row' = [row EXCEPT ![handler[h].dev] =
                      [known |-> TRUE, online |-> FALSE, expire |-> t]]
  <1> DEFINE r == handler[h]
  <1>1. r \in BusyHandler /\ r.now <= clock
    BY DEF RegisterUpsert, TypeOK, WatchInv, IdleHandler
  <1>2. r.expire \in Nat /\ r.now \in Nat /\ clock \in Nat
    BY <1>1 DEF BusyHandler, TypeOK
  <1>3. CASE row' = row /\ granted' = granted
    BY <1>3
  <1>4. CASE /\ row' = [row EXCEPT ![r.dev] =
                  [known |-> TRUE, online |-> r.expire > r.now, expire |-> r.expire]]
             /\ granted' = IF r.expire > r.now
                           THEN [granted EXCEPT ![r.dev] = @ \cup {r.expire}]
                           ELSE granted
    <2>1. CASE r.expire > r.now
      <3>1. (r.expire > r.now) = TRUE
        BY <2>1
      <3>2. Granted(h)
        BY <1>4, <3>1 DEF Granted
      <3> QED BY <3>2
    <2>2. CASE ~(r.expire > r.now)
      <3>1. (r.expire > r.now) = FALSE /\ r.expire <= clock
        BY <1>1, <1>2, <2>2
      <3> QED BY <1>2, <1>4, <3>1
    <2> QED BY <2>1, <2>2
  <1> QED BY <1>3, <1>4 DEF RegisterUpsert

(* Nothing else grants.                                                    *)
LEMMA GrantFrame ==
  ASSUME TypeOK, WatchInv, Next, \A h \in Handler : ~Granted(h)
  PROVE  granted' = granted
  <1>1. CASE \E h \in Handler : RegisterUpsert(h)
    BY <1>1, UpsertKinds
  <1>2. CASE \E w \in Writer : WriterRow(w)
    BY <1>2 DEF WriterRow
  <1>3. CASE \E x \in Device : DeleteDevice(x)
    BY <1>3 DEF DeleteDevice
  <1> QED BY <1>1, <1>2, <1>3, RowFrame

(* The dead stay dead when no REGISTER of theirs is granted, also when one *)
(* of theirs is turned down or ends the registration.                      *)
LEMMA StepStaysDead ==
  ASSUME TypeOK, WatchInv, Next, NEW d \in Device, Dead(d),
         \A h \in Handler : Granted(h) => handler[h].dev # d
  PROVE  Dead(d)'
  <1>1. CASE ~Reregisters(d)
    BY <1>1, StepDead
  <1>2. CASE Reregisters(d)
    <2>1. PICK h \in Handler : handler[h].dev = d /\ RegisterUpsert(h)
      BY <1>2 DEF Reregisters
    <2>2. ~Granted(h)
      BY <2>1
    <2>3. /\ row \in [Device -> Row] /\ row[d] \in Row /\ row[d].expire \in Nat
          /\ clock \in Nat /\ clock' \in Nat /\ clock <= clock'
          /\ KeepaliveMargin \in Nat
          /\ ~row[d].online /\ row[d].expire <= clock + KeepaliveMargin
      BY ClockRuns, PresenceAssumption DEF TypeOK, Row, Dead
    <2>4. \/ row' = row
          \/ \E t \in Nat : /\ t <= clock
                            /\ row' = [row EXCEPT ![d] =
                                 [known |-> TRUE, online |-> FALSE, expire |-> t]]
      BY <2>1, <2>2, UpsertKinds
    <2>5. ~row'[d].online /\ row'[d].expire <= clock' + KeepaliveMargin
      BY <2>3, <2>4
    <2> QED BY <2>5, StepDeadQuiet DEF Dead
  <1> QED BY <1>1, <1>2

(* Whoever is recorded online by a writer is alive.                        *)
LEMMA StepOnline ==
  ASSUME TypeOK, WatchInv, GrantInv, Next, \A h \in Handler : ~Granted(h)
  PROVE  \E on \in BOOLEAN, D \in SUBSET Device :
           /\ on => \A d \in D : granted[d] # {} /\ ~Dead(d)
           /\ \A d \in Device : row'[d].online = IF d \in D THEN on ELSE row[d].online
  <1>0. row \in [Device -> Row] /\ \A d \in Device : row[d].online \in BOOLEAN
    BY DEF TypeOK, Row
  <1> DEFINE Recorded(on, D) ==
        /\ on => \A d \in D : granted[d] # {} /\ ~Dead(d)
        /\ \A d \in Device : row'[d].online = IF d \in D THEN on ELSE row[d].online
  <1> SUFFICES \E on \in BOOLEAN, D \in SUBSET Device : Recorded(on, D)
    OBVIOUS
  <1>1. CASE row' = row
    <2>1. Recorded(FALSE, {})
      BY <1>1
    <2>2. FALSE \in BOOLEAN /\ {} \in SUBSET Device
      OBVIOUS
    <2> HIDE DEF Recorded
    <2> QED BY <2>1, <2>2
  <1>2. ASSUME NEW d \in Device, ~row'[d].online, row'[d].online \in BOOLEAN,
               \A x \in Device : x # d => row'[x] = row[x]
        PROVE  \E on \in BOOLEAN, D \in SUBSET Device : Recorded(on, D)
    <2>1. Recorded(FALSE, {d})
      BY <1>2
    <2> QED BY <2>1
  <1>3. CASE \E h \in Handler : RegisterUpsert(h)
    <2>1. PICK h \in Handler : RegisterUpsert(h)
      BY <1>3
    <2>2. handler[h] \in BusyHandler
      BY <2>1 DEF RegisterUpsert, TypeOK, IdleHandler
    <2>3. handler[h].dev \in Device
      BY <2>2 DEF BusyHandler
    <2>4. ASSUME NEW t \in Nat, row' = [row EXCEPT ![handler[h].dev] =
                   [known |-> TRUE, online |-> FALSE, expire |-> t]]
          PROVE  \E on \in BOOLEAN, D \in SUBSET Device : Recorded(on, D)
      <3>1. ~row'[handler[h].dev].online /\ row'[handler[h].dev].online \in BOOLEAN
        BY <1>0, <2>3, <2>4
      <3>2. \A x \in Device : x # handler[h].dev => row'[x] = row[x]
        BY <1>0, <2>4
      <3> QED BY <1>2, <2>3, <3>1, <3>2
    <2> QED BY <1>1, <2>1, <2>4, UpsertKinds
  <1>4. CASE \E w \in Writer : WriterRow(w)
    <2>1. PICK w \in Writer : WriterRow(w)
      BY <1>4
    <2>2. writer[w] \in BusyWriter /\ writer[w] # IdleWriter
      BY <2>1 DEF WriterRow, TypeOK, IdleWriter
    <2> DEFINE D == {d \in Device : d \in writer[w].ids /\ row[d].known}
    <2>3. writer[w].online \in BOOLEAN
      BY <2>2 DEF BusyWriter
    <2>4. CASE row' = [d \in Device |->
                 IF d \in writer[w].ids /\ row[d].known
                 THEN [row[d] EXCEPT !.online = writer[w].online] ELSE row[d]]
      <3>1. ASSUME NEW d \in D, writer[w].online
            PROVE  granted[d] # {} /\ ~Dead(d)
        <4>1. ~Quiet(d)
          BY <2>2, <3>1 DEF Quiet
        <4>2. granted[d] # {}
          BY <4>1 DEF GrantInv
        <4>3. ~Dead(d)
          BY <4>1, QuietMeans DEF Dead
        <4> QED BY <4>2, <4>3
      <3>2. ASSUME NEW d \in Device
            PROVE  row'[d].online = IF d \in D THEN writer[w].online ELSE row[d].online
        <4>1. CASE d \in D
          <5>1. row'[d] = [row[d] EXCEPT !.online = writer[w].online]
            BY <2>4, <4>1
          <5> QED BY <1>0, <4>1, <5>1 DEF Row
        <4>2. CASE d \notin D
          BY <2>4, <4>2
        <4> QED BY <4>1, <4>2
      <3>3. Recorded(writer[w].online, D)
        BY <3>1, <3>2
      <3> QED BY <2>3, <3>3
    <2> QED BY <1>1, <2>1, <2>4 DEF WriterRow
  <1>5. CASE \E x \in Device : DeleteDevice(x)
    <2>1. PICK x \in Device : DeleteDevice(x)
      BY <1>5
    <2>2. row' = [row EXCEPT ![x] = NoRow]
      BY <2>1 DEF DeleteDevice
    <2>3. ~row'[x].online /\ row'[x].online \in BOOLEAN
      BY <1>0, <2>2 DEF NoRow
    <2>4. \A y \in Device : y # x => row'[y] = row[y]
      BY <1>0, <2>2
    <2> QED BY <1>2, <2>3, <2>4
  <1> QED BY <1>1, <1>3, <1>4, <1>5, RowFrame

(* A grant leaves every other device as it was, and its own online.        *)
LEMMA GrantEffect ==
  ASSUME TypeOK, NEW h \in Handler, Granted(h)
  PROVE  /\ handler[h].dev \in Device
         /\ row'[handler[h].dev].online = TRUE /\ granted'[handler[h].dev] # {}
         /\ \A d \in Device : d # handler[h].dev =>
              /\ row'[d] = row[d] /\ granted'[d] = granted[d]
              /\ Dead(d)' <=> Dead(d)
         /\ reachable' = reachable /\ aliases' = aliases
  <1> DEFINE r == handler[h]
  <1>1. r \in BusyHandler
    BY DEF Granted, RegisterUpsert, TypeOK, IdleHandler
  <1>2. /\ r.dev \in Device
        /\ row \in [Device -> Row] /\ granted \in [Device -> SUBSET Nat]
        /\ handler \in [Handler -> HandlerType]
    BY <1>1 DEF BusyHandler, TypeOK, HandlerType
  <1>3. row'[r.dev].online = TRUE /\ granted'[r.dev] # {}
    BY <1>2 DEF Granted
  <1>4. /\ reachable' = reachable /\ aliases' = aliases /\ clock' = clock
        /\ report' = report /\ reportCh' = reportCh /\ writer' = writer
    BY DEF Granted, RegisterUpsert, mapVars, chanVars, procVars
  <1>5. \A k \in Handler : \/ handler'[k] = handler[k]
                           \/ handler'[k].pc # "kaReport" /\ handler[k].pc # "kaReport"
    <2>1. r.pc = "register"
      BY DEF Granted, RegisterUpsert
    <2>2. \E p \in {"regSleep", "unregCatalog"} : handler' = [handler EXCEPT ![h].pc = p]
          \/ handler' = [handler EXCEPT ![h] = IdleHandler]
      BY DEF Granted, RegisterUpsert, Goto, Finish
    <2>3. handler'[h].pc # "kaReport"
      BY <1>1, <1>2, <2>2 DEF BusyHandler, IdleHandler
    <2>4. \A k \in Handler : k # h => handler'[k] = handler[k]
      BY <1>2, <2>2
    <2> QED BY <2>1, <2>3, <2>4
  <1>6. ASSUME NEW d \in Device, d # r.dev
        PROVE  /\ row'[d] = row[d] /\ granted'[d] = granted[d]
               /\ Dead(d)' <=> Dead(d)
    <2>1. row'[d] = row[d] /\ granted'[d] = granted[d]
      BY <1>2, <1>6 DEF Granted
    <2>2. OnlineInFlight(d)' <=> OnlineInFlight(d)
      BY <1>4, <1>5 DEF OnlineInFlight, Elems
    <2> QED BY <1>4, <2>1, <2>2 DEF Dead
  <1> QED BY <1>2, <1>3, <1>4, <1>6

(* What a device's phase says, and how it changes: but for a grant, nobody *)
(* comes to life, and who dies is offline.                                 *)
LEMMA StepPhase ==
  ASSUME TypeOK, WatchInv, Next, NEW d \in Device,
         \A h \in Handler : ~Granted(h)
  PROVE  \/ Phase(d)' = Phase(d)
         \/ Phase(d) = "alive" /\ Phase(d)' = "dead" /\ ~row'[d].online
  <1>1. granted' = granted
    BY GrantFrame
  <1>2. Dead(d) => Dead(d)'
    BY StepStaysDead
  <1>3. Dead(d)' => ~row'[d].online
    BY DEF Dead
  <1>4. Phase(d)' = IF granted'[d] = {} THEN "unknown" ELSE IF Dead(d)' THEN "dead" ELSE "alive"
    BY DEF Phase
  <1> QED BY <1>1, <1>2, <1>3, <1>4 DEF Phase

(* The catalog loop's receiver adds a device that was introduced, or takes *)
(* one out.                                                                *)
LEMMA ReachedReceive ==
  ASSUME TypeOK, GrantInv, CatalogReceive
  PROVE  \E d \in Device :
           \/ Introduced(d) /\ Reached' = Reached \cup {d}
           \/ Reached' = Reached \ {d}
  <1> DEFINE m == Head(catalogCh)
  <1>1. catalogCh \in Seq(CatalogReq) /\ catalogCh # <<>>
    BY DEF TypeOK, CatalogReceive
  <1>2. PICK i \in 1 .. Len(catalogCh) : m = catalogCh[i]
    BY <1>1, TailElems
  <1>3. m \in CatalogReq
    BY <1>1, <1>2
  <1>4. m.dev \in Device
    BY <1>3 DEF CatalogReq
  <1>5. CASE m.online
    <2>1. Introduced(m.dev)
      BY <1>2, <1>4, <1>5 DEF GrantInv
    <2>2. reachable' = {e \in reachable : e.dev # m.dev} \cup {m}
      BY <1>5 DEF CatalogReceive, Put
    <2>3. Reached' = Reached \cup {m.dev}
      BY <2>2 DEF Reached
    <2> QED BY <1>4, <2>1, <2>3
  <1>6. CASE ~m.online
    <2>1. reachable' = {e \in reachable : e.dev # m.dev}
      BY <1>6 DEF CatalogReceive, Drop
    <2>2. Reached' = Reached \ {m.dev}
      BY <2>1 DEF Reached
    <2> QED BY <1>4, <2>2
  <1> QED BY <1>5, <1>6

LEMMA ReachedFrame ==
  ASSUME Next, ~CatalogReceive, ~Restart
  PROVE  reachable' = reachable
  <1>1. CASE \E h \in Handler : HandlerStep(h)
    BY <1>1 DEF HandlerStep, RegisterUpsert, UnregisterCatalog, UnregisterWatch,
       RegisteredCatalog, RegisteredWatch, KeepaliveReport, KeepaliveProbe,
       KeepaliveCatalog, KeepaliveRead, KeepaliveWatch, mapVars
  <1>2. CASE ~\E h \in Handler : HandlerStep(h)
    BY <1>2 DEF Next, Register, Keepalive, WatchReceive, ReportReceive, BeatTick,
       BeatExamine, BeatReport, FlushTick, FlushClear, WriterCatalog, WriterRow,
       DeleteDevice, Tick, mapVars
  <1> QED BY <1>1, <1>2

LEMMA InUnion ==
  ASSUME NEW F, NEW y
  PROVE  y \in UNION {F[x] : x \in Device} <=> \E x \in Device : y \in F[x]
  OBVIOUS

(* A keepalive is one of a living device, and changes nobody's phase.      *)
LEMMA LifeNames ==
  ASSUME TypeOK, WatchInv, GrantInv,
         NEW h \in Handler, NEW d \in Device, NEW f \in Device, Keepalive(h, d, f)
  PROVE  Life!Name(f) \/ UNCHANGED Life!lifeVars
  <1>1. /\ row' = row /\ clock' = clock /\ granted' = granted /\ reachable' = reachable
        /\ report' = report /\ reportCh' = reportCh /\ writer' = writer
        /\ handler \in [Handler -> HandlerType] /\ aliases \in [Device -> SUBSET Device]
    BY DEF Keepalive, mapVars, chanVars, procVars, TypeOK, HandlerType
  <1>2. ~Dead(d) /\ granted[d] # {}
    <2>1. row[d].expire \in Nat /\ clock \in Nat
      BY DEF TypeOK, Row
    <2>2. ~Dead(d)
      BY <2>1, PresenceAssumption DEF Keepalive, Accepts, Dead
    <2>3. row[d].online \/ row[d].expire > clock
      BY <2>1, PresenceAssumption DEF Keepalive, Accepts
    <2>4. granted[d] # {}
      BY <2>1, <2>3 DEF WatchInv, Owned, GrantInv
    <2> QED BY <2>2, <2>4
  <1>3. \A k \in Handler : \/ handler'[k] = handler[k]
                           \/ handler'[k].dev = d /\ handler[k].pc # "kaReport"
    BY <1>1 DEF Keepalive, IdleHandler
  <1>4. Dead(d)' <=> Dead(d)
    <2>1. OnlineInFlight(d) => OnlineInFlight(d)'
      BY <1>1, <1>3 DEF OnlineInFlight, Elems
    <2> QED BY <1>1, <1>2, <2>1 DEF Dead
  <1>5. ASSUME NEW x \in Device, x # d
        PROVE  Dead(x)' <=> Dead(x)
    <2>1. OnlineInFlight(x)' <=> OnlineInFlight(x)
      BY <1>1, <1>3, <1>5 DEF OnlineInFlight, Elems
    <2> QED BY <1>1, <2>1 DEF Dead
  <1>6. \A x \in Device : Phase(x)' = Phase(x)
    BY <1>1, <1>4, <1>5 DEF Phase
  <1>7. /\ [x \in Device |-> Phase(x)'] = [x \in Device |-> Phase(x)]
        /\ [x \in Device |-> row'[x].online] = [x \in Device |-> row[x].online]
        /\ Reached' = Reached
    BY <1>1, <1>6 DEF Reached
  <1>8. Life!Alive # {}
    BY <1>2 DEF Life!Alive, Phase
  <1>9. \/ aliases' = aliases
        \/ UNION {aliases'[x] : x \in Device} = (UNION {aliases[x] : x \in Device}) \cup {f}
    <2>1. CASE f = d
      BY <1>1, <2>1 DEF Keepalive
    <2>2. CASE f # d
      <3>1. /\ aliases'[d] = aliases[d] \cup {f}
            /\ \A x \in Device : x # d => aliases'[x] = aliases[x]
        BY <1>1, <2>2 DEF Keepalive
      <3>2. ASSUME NEW y
            PROVE  (\E x \in Device : y \in aliases'[x])
                     <=> (\E x \in Device : y \in aliases[x]) \/ y = f
        BY <3>1
      <3>3. \A y : y \in UNION {aliases'[x] : x \in Device}
                    <=> y \in (UNION {aliases[x] : x \in Device}) \cup {f}
        BY <3>2, InUnion
      <3> QED BY <3>3
    <2> QED BY <2>1, <2>2
  <1>10. CASE aliases' = aliases
    BY <1>7, <1>10 DEF Life!lifeVars
  <1>11. CASE UNION {aliases'[x] : x \in Device} = (UNION {aliases[x] : x \in Device}) \cup {f}
    <2>1. Life!Name(f)
      BY <1>7, <1>8, <1>11 DEF Life!Name
    <2> QED BY <2>1
  <1> QED BY <1>9, <1>10, <1>11

LEMMA AliasFrame ==
  ASSUME Next, ~Restart, ~\E h \in Handler, d, f \in Device : Keepalive(h, d, f)
  PROVE  aliases' = aliases
  <1>1. CASE \E h \in Handler : HandlerStep(h)
    BY <1>1 DEF HandlerStep, RegisterUpsert, UnregisterCatalog, UnregisterWatch,
       RegisteredCatalog, RegisteredWatch, KeepaliveReport, KeepaliveProbe,
       KeepaliveCatalog, KeepaliveRead, KeepaliveWatch
  <1>2. CASE ~\E h \in Handler : HandlerStep(h)
    BY <1>2 DEF Next, Register, CatalogReceive, WatchReceive, ReportReceive, BeatTick,
       BeatExamine, BeatReport, FlushTick, FlushClear, WriterCatalog, WriterRow,
       DeleteDevice, Tick
  <1> QED BY <1>1, <1>2

(* A step that grants nothing, names nobody and leaves the catalog map     *)
(* alone records devices, or lets them die, or neither.                    *)
LEMMA LifeAges ==
  ASSUME TypeOK, WatchInv, Next, \A h \in Handler : ~Granted(h)
  PROVE  Life!Age
  <1> DEFINE D == {d \in Device : Phase(d)' # Phase(d)}
  <1>1. ASSUME NEW d \in Device
        PROVE  \/ Phase(d)' = Phase(d)
               \/ Phase(d) = "alive" /\ Phase(d)' = "dead" /\ ~row'[d].online
    BY StepPhase
  <1>2. D \in SUBSET {d \in Life!Alive : ~[x \in Device |-> row'[x].online][d]}
    BY <1>1 DEF Life!Alive
  <1>3. [d \in Device |-> Phase(d)'] =
          [d \in Device |-> IF d \in D THEN "dead" ELSE [x \in Device |-> Phase(x)][d]]
    BY <1>1
  <1> QED BY <1>2, <1>3 DEF Life!Age

LEMMA LifeReports ==
  ASSUME TypeOK, WatchInv, GrantInv, Next, reachable' = reachable, aliases' = aliases,
         \A h \in Handler : ~Granted(h)
  PROVE  Life!Report
  <1>1. PICK on \in BOOLEAN, D \in SUBSET Device :
          /\ on => \A d \in D : granted[d] # {} /\ ~Dead(d)
          /\ \A d \in Device : row'[d].online = IF d \in D THEN on ELSE row[d].online
    BY StepOnline
  <1>2. on => D \subseteq Life!Alive
    BY <1>1 DEF Life!Alive, Phase
  <1>3. [d \in Device |-> row'[d].online] =
          [d \in Device |-> IF d \in D THEN on ELSE [x \in Device |-> row[x].online][d]]
    BY <1>1
  <1>4. Reached' = Reached
    BY DEF Reached
  <1> QED BY <1>2, <1>3, <1>4, LifeAges DEF Life!Report

LEMMA LifeRegisters ==
  ASSUME TypeOK, NEW h \in Handler, Granted(h)
  PROVE  \E d \in Device : Life!Register(d)
  <1>0. PICK d \in Device : d = handler[h].dev
    BY GrantEffect
  <1>1. row'[d].online = TRUE /\ Phase(d)' = "alive"
    <2>1. row'[d].online = TRUE /\ granted'[d] # {}
      BY <1>0, GrantEffect
    <2>2. ~Dead(d)'
      BY <2>1 DEF Dead
    <2> QED BY <2>1, <2>2 DEF Phase
  <1>2. \A x \in Device : x # d => Phase(x)' = Phase(x) /\ row'[x].online = row[x].online
    BY <1>0, GrantEffect DEF Phase
  <1>3. Reached' = Reached /\ aliases' = aliases
    BY GrantEffect DEF Reached
  <1>4. [x \in Device |-> Phase(x)'] = [[x \in Device |-> Phase(x)] EXCEPT ![d] = "alive"]
    BY <1>1, <1>2
  <1>5. [x \in Device |-> row'[x].online]
          = [[x \in Device |-> row[x].online] EXCEPT ![d] = TRUE]
    BY <1>1, <1>2
  <1>6. Life!Register(d)
    BY <1>3, <1>4, <1>5 DEF Life!Register
  <1> QED BY <1>6

LEMMA LifeReceives ==
  ASSUME TypeOK, GrantInv, CatalogReceive
  PROVE  \E d \in Device : Life!Reach(d) \/ Life!Forget(d)
  <1>1. /\ row' = row /\ clock' = clock /\ granted' = granted /\ handler' = handler
        /\ report' = report /\ reportCh' = reportCh /\ writer' = writer
        /\ aliases' = aliases
    BY DEF CatalogReceive, procVars
  <1>2. \A x \in Device : Dead(x)' <=> Dead(x)
    BY <1>1 DEF Dead, OnlineInFlight, Elems
  <1>3. \A x \in Device : Phase(x)' = Phase(x)
    BY <1>1, <1>2 DEF Phase
  <1>4. /\ [x \in Device |-> Phase(x)'] = [x \in Device |-> Phase(x)]
        /\ [x \in Device |-> row'[x].online] = [x \in Device |-> row[x].online]
    BY <1>1, <1>3
  <1>5. PICK d \in Device : \/ Introduced(d) /\ Reached' = Reached \cup {d}
                           \/ Reached' = Reached \ {d}
    BY ReachedReceive
  <1>6. Introduced(d) => d \in Life!Met \cup UNION {aliases[x] : x \in Device}
    BY DEF Introduced, Named, Life!Met, Phase
  <1> QED BY <1>1, <1>4, <1>5, <1>6 DEF Life!Reach, Life!Forget

(* Every step of handlers, loops and writers is one in the life of devices, *)
(* or none.                                                                *)
LEMMA LifeSteps ==
  TypeOK /\ WatchInv /\ GrantInv /\ [Next]_vars => [Life!Next]_(Life!lifeVars)
  <1> SUFFICES ASSUME TypeOK, WatchInv, GrantInv, [Next]_vars
               PROVE  Life!Next \/ UNCHANGED Life!lifeVars
    OBVIOUS
  <1>1. CASE UNCHANGED vars
    <2>1. \A d \in Device : Phase(d)' = Phase(d)
      BY <1>1 DEF vars, Phase, Dead, OnlineInFlight, Elems
    <2> QED BY <1>1, <2>1 DEF vars, Life!lifeVars, Reached
  <1>2. CASE \E h \in Handler : Granted(h)
    BY <1>2, LifeRegisters DEF Life!Next
  <1>3. CASE CatalogReceive
    BY <1>3, LifeReceives DEF Life!Next
  <1>4. CASE Restart /\ \A h \in Handler : ~Granted(h)
    <2>1. /\ row' = row /\ Reached' = {}
          /\ UNION {aliases'[d] : d \in Device} = {}
      BY <1>4 DEF Restart, Reached
    <2>2. Life!Age
      BY <1>4, LifeAges DEF Next
    <2> QED BY <2>1, <2>2 DEF Life!Restart, Life!Next
  <1>5. CASE \E h \in Handler, d, f \in Device : Keepalive(h, d, f)
    <2>1. PICK h \in Handler, d \in Device, f \in Device : Keepalive(h, d, f)
      BY <1>5
    <2> QED BY <2>1, LifeNames DEF Life!Next
  <1>6. CASE /\ Next /\ (\A h \in Handler : ~Granted(h)) /\ ~CatalogReceive /\ ~Restart
             /\ ~\E h \in Handler, d, f \in Device : Keepalive(h, d, f)
    BY <1>6, ReachedFrame, AliasFrame, LifeReports DEF Life!Next
  <1> QED BY <1>1, <1>2, <1>3, <1>4, <1>5, <1>6

LEMMA InitLife == Init => Life!Init
  BY DEF Init, NoRow, Life!Init, Phase, Reached

(* The presence of devices follows their life as DeviceLife states it: only *)
(* a granted REGISTER brings a device to life, the dead and the unknown are *)
(* never recorded online, however late a report is written, and who never  *)
(* registered is not reachable.                                            *)
THEOREM PresenceFollowsLife == Spec => FollowsLife
  BY InitLife, LifeSteps, InitTypeOK, StepTypeOK, InitWatchInv, StepWatchInv,
     InitGrantInv, StepGrantInv, PTL DEF Spec, FollowsLife, Life!Spec

=============================================================================
