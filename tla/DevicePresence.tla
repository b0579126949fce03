--------------------------- MODULE DevicePresence ---------------------------
(***************************************************************************)
(* Presence of GB28181 devices in the VSS service: REGISTER and keepalive  *)
(* handlers, the heartbeat loop, the loop that batches online/offline      *)
(* reports into the database, and the catalog loop whose map is the        *)
(* service's notion of a reachable device.                                 *)
(*                                                                         *)
(* The parties share three bounded Go channels (SipCatalogLoop,            *)
(* SipHeartbeatLoop, SetDeviceOnline), three maps fed from them            *)
(* (SipCatalogLoopMap, SipHeartbeatLoopMap, DeviceOnlineStateUpdateMap)    *)
(* and the devices table.  Every shared access is an action of its own,    *)
(* so that the handlers' goroutines interleave with the loops the way the  *)
(* code lets them.                                                         *)
(*                                                                         *)
(* Assumed: a query of the devices table returns the row as it is.  The    *)
(* database service answers from its row cache, which may lag behind by    *)
(* up to a minute after a late query or a raw statement (OrmCache).        *)
(***************************************************************************)
EXTENDS Integers, Sequences, FiniteSets

CONSTANTS
  Device,            \* GB28181 device ids
  Handler,           \* goroutines that may run a SIP handler at a time
  Writer,            \* goroutines that may run setDevice at a time
  Expires,           \* values of the Expires header of a REGISTER, 0 = unregister
  HeartbeatTimeout,  \* Config.Sip.HeartbeatTimeout, seconds
  RegisterGrace,     \* the literal 10 of heartbeat_offline_loop.go
  KeepaliveMargin,   \* the literal 5 of keepalive.go
  ChanCap,           \* capacity of the channels (100 in service_context.go)
  StartTime,         \* Unix time at which the service starts
  MaxTime,           \* bound: last second of the model's clock
  MaxRequests,       \* bound: SIP requests received in a behaviour
  MaxRestarts        \* bound: restarts of the VSS process in a behaviour

ASSUME PresenceAssumption ==
  /\ Expires \subseteq Nat
  /\ HeartbeatTimeout \in Nat \ {0}
  /\ RegisterGrace \in Nat
  /\ KeepaliveMargin \in Nat
  /\ ChanCap \in Nat \ {0}
  /\ StartTime \in Nat
  /\ StartTime > HeartbeatTimeout + RegisterGrace   \* Unix seconds
  /\ MaxTime \in Nat
  /\ MaxRequests \in Nat
  /\ MaxRestarts \in Nat

VARIABLES
  clock,      \* Unix seconds
  row,        \* devices table: known, online, expire of each device
  reachable,  \* SipCatalogLoopMap, a set of catalog entries, one per device
  watch,      \* SipHeartbeatLoopMap, a set of heartbeat entries, one per device
  report,     \* DeviceOnlineStateUpdateMap, a set of reports, one per device
  catalogCh,  \* SipCatalogLoop
  watchCh,    \* SipHeartbeatLoop
  reportCh,   \* SetDeviceOnline
  handler,    \* what each SIP handler goroutine is doing
  beat,       \* the goroutine of HeartbeatOfflineLogic.proc
  flush,      \* the goroutine of SetDeviceOnlineStateLogic.proc
  writer,     \* the setDevice goroutines
  requests,   \* SIP requests received so far
  restarts,   \* restarts so far
  granted,    \* history: registration expiries granted to each device
  aliases     \* history: the other ids that stood in the From header of a
              \* device's accepted keepalives since the service started

chanVars == <<catalogCh, watchCh, reportCh>>
mapVars  == <<reachable, watch, report>>
procVars == <<beat, flush, writer>>
vars == <<clock, row, reachable, watch, report, catalogCh, watchCh, reportCh,
          handler, beat, flush, writer, requests, restarts, granted, aliases>>

-----------------------------------------------------------------------------
Row        == [known : BOOLEAN, online : BOOLEAN, expire : Nat]
CatalogReq == [dev : Device, online : BOOLEAN]
WatchReq   == [dev : Device, now : Nat, expire : Nat]
ReportReq  == [dev : Device, online : BOOLEAN]

NoRow == [known |-> FALSE, online |-> FALSE, expire |-> 0]

IdleHandler == [pc |-> "idle"]
HandlerPc ==
  {"register", "unregCatalog", "unregWatch", "regSleep", "regWatch",
   "kaReport", "kaProbe", "kaCatalog", "kaRead", "kaWatch"}
BusyHandler == [pc : HandlerPc, dev : Device, from : Device, now : Nat, expire : Nat]

IdleBeat == [todo |-> {}, now |-> 0, offline |-> {}]
Beat     == [todo : SUBSET WatchReq, now : Nat, offline : SUBSET Device]

IdleFlush == [pc |-> "idle", up |-> {}, down |-> {}]
Flush     == [pc : {"idle", "clear"}, up : SUBSET Device, down : SUBSET Device]

IdleWriter == [pc |-> "idle"]
BusyWriter == [pc : {"catalog", "row"}, todo : SUBSET Device,
               ids : SUBSET Device, online : BOOLEAN]

\* Init: nothing is known, no goroutine is at work.
Init ==
  /\ clock = StartTime
  /\ row = [d \in Device |-> NoRow]
  /\ reachable = {} /\ watch = {} /\ report = {}
  /\ catalogCh = <<>> /\ watchCh = <<>> /\ reportCh = <<>>
  /\ handler = [h \in Handler |-> IdleHandler]
  /\ beat = IdleBeat
  /\ flush = IdleFlush
  /\ writer = [w \in Writer |-> IdleWriter]
  /\ requests = 0 /\ restarts = 0
  /\ granted = [d \in Device |-> {}]
  /\ aliases = [d \in Device |-> {}]

-----------------------------------------------------------------------------
(* xmap: Set replaces the entry of the same key, Remove deletes it.        *)
PutBeside(map, v) == map \cup {v}                            \* mutant
Put(map, v)   == {e \in map : e.dev # v.dev} \cup {v}
DropNothing(map, d) == map                                  \* mutant
Drop(map, d)  == {e \in map : e.dev # d}
Holds(map, d) == \E e \in map : e.dev = d

(* A send on a Go channel blocks while the channel is full.                *)
Send(ch, v) == Len(ch) < ChanCap /\ ch' = Append(ch, v)

Goto(h, pc) == handler' = [handler EXCEPT ![h].pc = pc]
Finish(h)   == handler' = [handler EXCEPT ![h] = IdleHandler]

(* The heartbeat request of a REGISTER or keepalive handler r.             *)
ProlongingWatchMsg(r) ==                                    \* mutant
  [dev |-> r.dev, now |-> r.now, expire |-> r.now + HeartbeatTimeout]
WatchMsg(r) == [dev |-> r.dev, now |-> r.now, expire |-> r.expire]

-----------------------------------------------------------------------------
(* RegisterLogic.DO: authenticated REGISTER of d, which is the id of its   *)
(* From header.  The time is read before the row is written.               *)
Register(h, d, e) ==
  /\ handler[h] = IdleHandler
  /\ requests < MaxRequests /\ clock < MaxTime
  /\ requests' = requests + 1
  /\ handler' = [handler EXCEPT ![h] =
       [pc |-> "register", dev |-> d, from |-> d, now |-> clock, expire |-> clock + e]]
  /\ UNCHANGED <<clock, row, mapVars, chanVars, procVars, restarts, granted, aliases>>

(* DeviceUpsert: 1 or 0 for online according to the Expires header.  When  *)
(* the RPC fails the handler answers with the error and sends nothing.     *)
RegisterUpsert(h) ==
  LET r == handler[h]
      on == r.expire > r.now
  IN /\ r.pc = "register"
     /\ \/ /\ row' = [row EXCEPT ![r.dev] =
                [known |-> TRUE, online |-> on, expire |-> r.expire]]
           /\ granted' = IF on
                THEN [granted EXCEPT ![r.dev] = @ \cup {r.expire}]
                ELSE granted
           /\ Goto(h, IF on THEN "regSleep" ELSE "unregCatalog")
        \/ Finish(h) /\ UNCHANGED <<row, granted>>
     /\ UNCHANGED <<clock, mapVars, chanVars, procVars, requests, restarts, aliases>>

(* expire = 0: drop the catalog task ...                                   *)
UnregisterCatalog(h) ==
  LET r == handler[h]
  IN /\ r.pc = "unregCatalog"
     /\ Send(catalogCh, [dev |-> r.dev, online |-> FALSE])
     /\ Goto(h, "unregWatch")
     /\ UNCHANGED <<clock, row, mapVars, watchCh, reportCh, procVars, requests,
                    restarts, granted, aliases>>

(* ... and hand the heartbeat loop a request that carries only the ID.     *)
UnregisterWatch(h) ==
  LET r == handler[h]
  IN /\ r.pc = "unregWatch"
     /\ Send(watchCh, [dev |-> r.dev, now |-> 0, expire |-> 0])
     /\ Finish(h)
     /\ UNCHANGED <<clock, row, mapVars, catalogCh, reportCh, procVars, requests,
                    restarts, granted, aliases>>

(* expire > 0: the answer is sent; a goroutine sleeps a second, creates the*)
(* catalog task, queries catalog and device info (queues whose consumer    *)
(* never blocks) ...                                                       *)
RegisteredCatalog(h) ==
  LET r == handler[h]
  IN /\ r.pc = "regSleep"
     /\ clock > r.now
     /\ Send(catalogCh, [dev |-> r.dev, online |-> TRUE])
     /\ Goto(h, "regWatch")
     /\ UNCHANGED <<clock, row, mapVars, watchCh, reportCh, procVars, requests,
                    restarts, granted, aliases>>

(* ... and starts the supervision of the registration.                     *)
RegisteredWatch(h) ==
  LET r == handler[h]
  IN /\ r.pc = "regWatch"
     /\ Send(watchCh, WatchMsg(r))
     /\ Finish(h)
     /\ UNCHANGED <<clock, row, mapVars, catalogCh, reportCh, procVars, requests,
                    restarts, granted, aliases>>

-----------------------------------------------------------------------------
(* KeepaliveLogic.DO knows a device by two ids, which nothing compares: the*)
(* DeviceID of the body, d, and the id of the SIP From header, f.  The row,*)
(* the online report and the supervision go by d; the look-up in the two   *)
(* maps and the catalog task go by f.                                      *)
(*                                                                         *)
(* The row of d is read; an unknown device, or one that is offline with its*)
(* registration at its end, gets no further.                               *)
AcceptsKnown(d) == row[d].known                             \* mutant
AcceptsAtExpiry(d) ==                                       \* mutant
  row[d].known /\ (row[d].online \/ row[d].expire >= clock + KeepaliveMargin)
Accepts(d) ==
  row[d].known /\ (row[d].online \/ row[d].expire > clock + KeepaliveMargin)

Keepalive(h, d, f) ==
  /\ handler[h] = IdleHandler
  /\ requests < MaxRequests
  /\ Accepts(d)
  /\ requests' = requests + 1
  /\ handler' = [handler EXCEPT ![h] =
       [pc |-> "kaReport", dev |-> d, from |-> f, now |-> clock,
        expire |-> row[d].expire]]
  /\ aliases' = [aliases EXCEPT ![d] = @ \cup ({f} \ {d})]
  /\ UNCHANGED <<clock, row, mapVars, chanVars, procVars, restarts, granted>>

(* SetDeviceOnline <- online                                               *)
KeepaliveReport(h) ==
  LET r == handler[h]
  IN /\ r.pc = "kaReport"
     /\ Send(reportCh, [dev |-> r.dev, online |-> TRUE])
     /\ Goto(h, "kaProbe")
     /\ UNCHANGED <<clock, row, mapVars, catalogCh, watchCh, procVars, requests,
                    restarts, granted, aliases>>

(* SipCatalogLoopMap.Get: a sender without catalog task gets one.          *)
WaitForCatalog(d) == IF Holds(reachable, d) THEN "kaRead" ELSE "kaProbe"  \* mutant
AfterProbe(d) == IF Holds(reachable, d) THEN "kaRead" ELSE "kaCatalog"

KeepaliveProbe(h) ==
  LET r == handler[h]
  IN /\ r.pc = "kaProbe"
     /\ Goto(h, AfterProbe(r.from))
     /\ UNCHANGED <<clock, row, mapVars, chanVars, procVars, requests, restarts,
                    granted, aliases>>

KeepaliveCatalog(h) ==
  LET r == handler[h]
  IN /\ r.pc = "kaCatalog"
     /\ Send(catalogCh, [dev |-> r.from, online |-> TRUE])
     /\ Goto(h, "kaRead")
     /\ UNCHANGED <<clock, row, mapVars, watchCh, reportCh, procVars, requests,
                    restarts, granted, aliases>>

(* SipHeartbeatLoopMap.Get: the expiry under which the sender is supervised*)
(* wins over the expiry read from the row.                                 *)
KeepaliveRead(h) ==
  LET r == handler[h]
  IN /\ r.pc = "kaRead"
     /\ \/ /\ ~Holds(watch, r.from)
           /\ Goto(h, "kaWatch")
        \/ \E e \in watch :
             /\ e.dev = r.from
             /\ handler' = [handler EXCEPT ![h].pc = "kaWatch", ![h].expire = e.expire]
     /\ UNCHANGED <<clock, row, mapVars, chanVars, procVars, requests, restarts,
                    granted, aliases>>

KeepaliveWatch(h) ==
  LET r == handler[h]
  IN /\ r.pc = "kaWatch"
     /\ Send(watchCh, WatchMsg(r))
     /\ Finish(h)
     /\ UNCHANGED <<clock, row, mapVars, catalogCh, reportCh, procVars, requests,
                    restarts, granted, aliases>>

-----------------------------------------------------------------------------
(* The receiving goroutines of the three loops: each moves the oldest      *)
(* message of its channel into its map.                                    *)
CatalogReceive ==
  /\ catalogCh # <<>>
  /\ reachable' = IF Head(catalogCh).online
                  THEN Put(reachable, Head(catalogCh))
                  ELSE Drop(reachable, Head(catalogCh).dev)
  /\ catalogCh' = Tail(catalogCh)
  /\ UNCHANGED <<clock, row, watch, report, watchCh, reportCh, handler, procVars,
                 requests, restarts, granted, aliases>>

WatchReceive ==
  /\ watchCh # <<>>
  /\ watch' = Put(watch, Head(watchCh))
  /\ watchCh' = Tail(watchCh)
  /\ UNCHANGED <<clock, row, reachable, report, catalogCh, reportCh, handler,
                 procVars, requests, restarts, granted, aliases>>

ReportReceive ==
  /\ reportCh # <<>>
  /\ report' = Put(report, Head(reportCh))
  /\ reportCh' = Tail(reportCh)
  /\ UNCHANGED <<clock, row, reachable, watch, catalogCh, watchCh, handler,
                 procVars, requests, restarts, granted, aliases>>

-----------------------------------------------------------------------------
(* HeartbeatOfflineLogic.proc: on a tick the entries are copied ...        *)
Stale(e, now) ==
  \/ now - e.expire > RegisterGrace
  \/ now - e.now >= HeartbeatTimeout

BeatTick ==
  /\ beat = IdleBeat
  /\ watch # {}
  /\ beat' = [todo |-> watch, now |-> clock, offline |-> {}]
  /\ UNCHANGED <<clock, row, mapVars, chanVars, handler, flush, writer, requests,
                 restarts, granted, aliases>>

(* ... and looked at one after the other: a stale one is removed by its ID *)
BeatExamine ==
  /\ beat.offline = {}
  /\ \E e \in beat.todo :
       LET rest == beat.todo \ {e} IN
       IF Stale(e, beat.now)
       THEN /\ watch' = Drop(watch, e.dev)
            /\ beat' = [beat EXCEPT !.todo = rest, !.offline = {e.dev}]
       ELSE /\ beat' = IF rest = {} THEN IdleBeat ELSE [beat EXCEPT !.todo = rest]
            /\ UNCHANGED watch
  /\ UNCHANGED <<clock, row, reachable, report, chanVars, handler, flush, writer,
                 requests, restarts, granted, aliases>>

(* and the device reported offline, which may block the loop.              *)
BeatReport ==
  /\ \E d \in beat.offline : Send(reportCh, [dev |-> d, online |-> FALSE])
  /\ beat' = IF beat.todo = {} THEN IdleBeat ELSE [beat EXCEPT !.offline = {}]
  /\ UNCHANGED <<clock, row, mapVars, catalogCh, watchCh, handler, flush, writer,
                 requests, restarts, granted, aliases>>

-----------------------------------------------------------------------------
(* SetDeviceOnlineStateLogic.proc: on a tick the reports are copied and    *)
(* one goroutine is started for the devices reported online and one for    *)
(* those reported offline, when there are any ...                          *)
AllIds(reports, on) == {e.dev : e \in reports}                  \* mutant
Ids(reports, on) == {e.dev : e \in {f \in reports : f.online = on}}

Started(ids, on) ==
  [pc |-> IF on THEN "row" ELSE "catalog",
   todo |-> IF on THEN {} ELSE ids, ids |-> ids, online |-> on]

FlushTick ==
  /\ flush = IdleFlush
  /\ flush' = [pc |-> "clear", up |-> Ids(report, TRUE), down |-> Ids(report, FALSE)]
  /\ \E u, v \in Writer :
       /\ writer[u] = IdleWriter /\ writer[v] = IdleWriter
       /\ u # v \/ flush'.up = {} \/ flush'.down = {}
       /\ writer' = [w \in Writer |->
            IF flush'.up # {} /\ w = u THEN Started(flush'.up, TRUE)
            ELSE IF flush'.down # {} /\ w = v THEN Started(flush'.down, FALSE)
            ELSE writer[w]]
  /\ UNCHANGED <<clock, row, mapVars, chanVars, handler, beat, requests, restarts,
                 granted, aliases>>

(* ... and the map is cleared, whatever it holds by then.                  *)
FlushClear ==
  /\ flush.pc = "clear"
  /\ flush' = IdleFlush
  /\ report' = {}
  /\ UNCHANGED <<clock, row, reachable, watch, chanVars, handler, beat, writer,
                 requests, restarts, granted, aliases>>

(* setDevice(ids, 0) drops the catalog task of each device ...             *)
WriterCatalog(w) ==
  LET t == writer[w]
  IN /\ t.pc = "catalog"
     /\ \E d \in t.todo :
          /\ Send(catalogCh, [dev |-> d, online |-> FALSE])
          /\ writer' = [writer EXCEPT ![w].todo = @ \ {d},
                                      ![w].pc = IF t.todo = {d} THEN "row" ELSE @]
     /\ UNCHANGED <<clock, row, mapVars, watchCh, reportCh, handler, beat, flush,
                    requests, restarts, granted, aliases>>

(* ... and DeviceUpdate writes the column online of the rows that exist;   *)
(* the RPC may fail, which is only logged.                                 *)
WriterRow(w) ==
  LET t == writer[w]
  IN /\ t.pc = "row"
     /\ writer' = [writer EXCEPT ![w] = IdleWriter]
     /\ \/ row' = [d \in Device |->
                     IF d \in t.ids /\ row[d].known
                     THEN [row[d] EXCEPT !.online = t.online] ELSE row[d]]
        \/ UNCHANGED row
     /\ UNCHANGED <<clock, mapVars, chanVars, handler, beat, flush, requests,
                    restarts, granted, aliases>>

-----------------------------------------------------------------------------
(* A second passes.  The catalog loop sweeps its map once a second; what it*)
(* may send goes to a queue whose consumer never blocks, and changes nothing*)
(* here.                                                                   *)
Tick ==
  /\ clock < MaxTime
  /\ clock' = clock + 1
  /\ UNCHANGED <<row, mapVars, chanVars, handler, procVars, requests, restarts,
                 granted, aliases>>

(* The back office deletes a device; nobody tells the VSS service, whose   *)
(* loops, handlers and writers go on with what they hold of it.            *)
DeleteDevice(d) ==
  /\ row[d].known
  /\ row' = [row EXCEPT ![d] = NoRow]
  /\ UNCHANGED <<clock, mapVars, chanVars, handler, procVars, requests, restarts,
                 granted, aliases>>

(* The VSS process restarts: only the database survives.                   *)
Restart ==
  /\ restarts < MaxRestarts
  /\ restarts' = restarts + 1
  /\ reachable' = {} /\ watch' = {} /\ report' = {}
  /\ catalogCh' = <<>> /\ watchCh' = <<>> /\ reportCh' = <<>>
  /\ handler' = [h \in Handler |-> IdleHandler]
  /\ beat' = IdleBeat
  /\ flush' = IdleFlush
  /\ writer' = [w \in Writer |-> IdleWriter]
  /\ aliases' = [d \in Device |-> {}]
  /\ UNCHANGED <<clock, row, requests, granted>>

HandlerStep(h) ==
  \/ RegisterUpsert(h)
  \/ UnregisterCatalog(h)
  \/ UnregisterWatch(h)
  \/ RegisteredCatalog(h)
  \/ RegisteredWatch(h)
  \/ KeepaliveReport(h)
  \/ KeepaliveProbe(h)
  \/ KeepaliveCatalog(h)
  \/ KeepaliveRead(h)
  \/ KeepaliveWatch(h)

Next ==
  \/ \E h \in Handler, d \in Device, e \in Expires : Register(h, d, e)
  \/ \E h \in Handler, d, f \in Device : Keepalive(h, d, f)
  \/ \E h \in Handler : HandlerStep(h)
  \/ CatalogReceive \/ WatchReceive \/ ReportReceive
  \/ BeatTick \/ BeatExamine \/ BeatReport
  \/ FlushTick \/ FlushClear
  \/ \E w \in Writer : WriterCatalog(w) \/ WriterRow(w)
  \/ Tick
  \/ \E d \in Device : DeleteDevice(d)
  \/ Restart

Spec == Init /\ [][Next]_vars

(* Goroutines that can run do run and time passes; requests and restarts   *)
(* are up to the environment.                                              *)
Fairness ==
  /\ \A h \in Handler : WF_vars(HandlerStep(h))
  /\ WF_vars(CatalogReceive) /\ WF_vars(WatchReceive) /\ WF_vars(ReportReceive)
  /\ WF_vars(BeatTick) /\ WF_vars(BeatExamine) /\ WF_vars(BeatReport)
  /\ WF_vars(FlushTick) /\ WF_vars(FlushClear)
  /\ \A w \in Writer : WF_vars(WriterCatalog(w) \/ WriterRow(w))
  /\ WF_vars(Tick)

FairSpec == Spec /\ Fairness

-----------------------------------------------------------------------------
(* One entry per device in a map.                                          *)
Keyed(map) == \A e, f \in map : e.dev = f.dev => e = f

(* The state is well formed: values have their types, a map has one entry  *)
(* per device, a channel no more than its capacity.                        *)
TypeOK ==
  /\ clock \in Nat /\ clock >= StartTime
  /\ row \in [Device -> Row]
  /\ reachable \subseteq CatalogReq
  /\ watch \subseteq WatchReq
  /\ report \subseteq ReportReq
  /\ catalogCh \in Seq(CatalogReq)
  /\ watchCh \in Seq(WatchReq)
  /\ reportCh \in Seq(ReportReq)
  /\ Keyed(reachable) /\ Keyed(watch) /\ Keyed(report)
  /\ Len(catalogCh) <= ChanCap /\ Len(watchCh) <= ChanCap /\ Len(reportCh) <= ChanCap
  /\ handler \in [Handler -> {IdleHandler} \cup BusyHandler]
  /\ beat \in Beat
  /\ flush \in Flush
  /\ writer \in [Writer -> {IdleWriter} \cup BusyWriter]
  /\ requests \in Nat /\ restarts \in Nat
  /\ granted \in [Device -> SUBSET Nat]
  /\ aliases \in [Device -> SUBSET Device]

Elems(ch) == {ch[i] : i \in 1 .. Len(ch)}

(* Something on its way to the row says that d is online.                  *)
OnlineInFlight(d) ==
  \/ \E h \in Handler : handler[h].pc = "kaReport" /\ handler[h].dev = d
  \/ \E m \in Elems(reportCh) \cup report : m.dev = d /\ m.online
  \/ \E w \in Writer : writer[w] # IdleWriter /\ writer[w].online /\ d \in writer[w].ids

(* Something in memory makes d reachable for the rest of the service, or   *)
(* is about to.                                                            *)
ReachableInFlight(d) ==
  \/ \E h \in Handler : /\ handler[h].pc \in {"regSleep", "kaProbe", "kaCatalog"}
                        /\ handler[h].from = d
  \/ \E m \in Elems(catalogCh) : m.dev = d /\ m.online
  \/ Holds(reachable, d)

(* A device that no REGISTER ever granted a registration is never recorded *)
(* online, whatever keepalives it sends and whatever is still in the       *)
(* channels, maps and goroutines: the keepalive path, which reports devices*)
(* online without authentication, rests on the row's expiry alone.  And an *)
(* id is treated as reachable only when it was granted a registration or   *)
(* stood, since the service started, in the From header of a keepalive of a*)
(* device that was.                                                        *)
Named(d) == \E x \in Device : granted[x] # {} /\ d \in aliases[x]
OnlyGrantedOnline ==
  \A d \in Device : granted[d] = {} =>
    /\ ~row[d].online /\ ~OnlineInFlight(d)
    /\ ReachableInFlight(d) => Named(d)

(* An expiry under supervision, or on its way there, that is still to come *)
(* is one that a REGISTER granted: a keepalive, which copies the expiry    *)
(* from the map or from the row, never prolongs a registration.  It was    *)
(* granted to the device it supervises, unless a keepalive of the device   *)
(* was sent under another id and took over what that one is supervised by. *)
Owned(d, t)    == t <= clock \/ t \in granted[d]
Borrowed(d, t) == aliases[d] # {} /\ \E x \in Device : t \in granted[x]
Covered(d, t)  == Owned(d, t) \/ Borrowed(d, t)
WatchWithinGrant ==
  /\ \A m \in watch \cup Elems(watchCh) : Covered(m.dev, m.expire)
  /\ \A h \in Handler : handler[h].pc \in {"regWatch", "kaWatch"}
       => Covered(handler[h].dev, handler[h].expire)

(* The row of d says offline and its registration is at its end, or the row*)
(* was deleted, and nothing that says otherwise is in flight.              *)
Dead(d) ==
  /\ ~row[d].online
  /\ row[d].expire <= clock + KeepaliveMargin
  /\ ~OnlineInFlight(d)

(* A dead device comes back only through a REGISTER: no keepalive, loop or *)
(* late writer brings it back, also when it was deleted while it was online*)
(* and the loops still hold it.                                            *)
NoResurrection ==
  [][\A d \in Device : Dead(d) =>
       \/ Dead(d)'
       \/ \E h \in Handler : handler[h].pc = "register" /\ handler[h].dev = d
                             /\ RegisterUpsert(h)]_vars

(* The phases of a device's life: never granted a registration, dead as    *)
(* above, or alive.                                                        *)
Phase(d) == IF granted[d] = {} THEN "unknown" ELSE IF Dead(d) THEN "dead" ELSE "alive"
Reached  == {e.dev : e \in reachable}

(* All of it together: handlers, loops, writers, restarts and deletions    *)
(* follow the life of devices as DeviceLife states it.  Only a REGISTER    *)
(* that is granted brings a device to life; reports that are written late, *)
(* in any order, set nobody online that is not alive; and no other way to  *)
(* make an id reachable is left than its own registration or a keepalive of*)
(* a living device that gives the id for its own.                          *)
Life == INSTANCE DeviceLife
          WITH life    <- [d \in Device |-> Phase(d)],
               online  <- [d \in Device |-> row[d].online],
               reached <- Reached,
               named   <- UNION {aliases[d] : d \in Device}
FollowsLife == Life!Spec

(* A SIP handler that was started ends, although it sends to up to three   *)
(* channels that also the loops feed: no circular wait between handlers,   *)
(* loops and writers, even with the smallest channels.                     *)
HandlersFinish ==
  \A h \in Handler : handler[h] # IdleHandler ~> handler[h] = IdleHandler

(* A device whose supervised entry is stale is taken out of supervision or *)
(* refreshed.                                                              *)
StaleWatchEnds ==
  \A d \in Device :
    (\E e \in watch : e.dev = d /\ Stale(e, clock))
      ~> ~(\E e \in watch : e.dev = d /\ Stale(e, clock))
=============================================================================
