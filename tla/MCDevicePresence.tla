-------------------------- MODULE MCDevicePresence --------------------------
(***************************************************************************)
(* DevicePresence with devices, handlers and writers numbered 1, 2, ..,    *)
(* for TLC.  They are interchangeable, so of behaviours that differ only   *)
(* in the names one is enough: the first request is device 1's, and a      *)
(* handler or writer that starts to work is the first idle one.  Symmetry  *)
(* sets would do the same but are unsound for the liveness properties;     *)
(* which idle goroutine takes a task has no bearing on its fairness.  A    *)
(* restart before the first request changes nothing and is left out.       *)
(***************************************************************************)
EXTENDS DevicePresence

StartsWith(d) == \E h \in Handler : handler'[h] # IdleHandler /\ handler'[h].dev = d

InOrder ==
  /\ requests = 0 /\ requests' = 1 => StartsWith(1)
  /\ requests = 0 => restarts' = restarts
  /\ \A h, k \in Handler :
       handler[h] = IdleHandler /\ handler'[h] # IdleHandler /\ k < h
         => handler[k] # IdleHandler
  /\ \A w, v \in Writer :
       writer[w] = IdleWriter /\ writer'[w] # IdleWriter /\ v < w /\ writer[v] = IdleWriter
         => writer'[v] # IdleWriter /\ writer'[v].online

MCSpec == Init /\ [][Next /\ InOrder]_vars /\ Fairness
=============================================================================
