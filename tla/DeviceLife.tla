----------------------------- MODULE DeviceLife -----------------------------
(***************************************************************************)
(* What the presence of devices promises, without channels, loops, maps or *)
(* clocks.  A device the service never registered is unknown.  A granted   *)
(* registration brings it to life, and nothing else does.  While it lives  *)
(* it may be recorded online or offline any number of times; at some time  *)
(* after it went offline it is dead, and stays so until it registers.  A   *)
(* device is reachable for the rest of the service only when it has        *)
(* registered at some time, or when a living device gave its id for its    *)
(* own since the service started.                                          *)
(***************************************************************************)
CONSTANT Device

VARIABLES
  life,     \* the phase of each device
  online,   \* what the devices table says
  reached,  \* the devices the service treats as reachable
  named     \* the ids that living devices gave for their own

lifeVars == <<life, online, reached, named>>

Alive == {d \in Device : life[d] = "alive"}
Met   == {d \in Device : life[d] # "unknown"}

Init ==
  /\ life = [d \in Device |-> "unknown"]
  /\ online = [d \in Device |-> FALSE]
  /\ reached = {}
  /\ named = {}

(* A REGISTER is granted.                                                  *)
Register(d) ==
  /\ life' = [life EXCEPT ![d] = "alive"]
  /\ online' = [online EXCEPT ![d] = TRUE]
  /\ UNCHANGED <<reached, named>>

(* Devices that are offline may have died.                                 *)
Age ==
  \E D \in SUBSET {d \in Alive : ~online'[d]} :
    life' = [d \in Device |-> IF d \in D THEN "dead" ELSE life[d]]

(* Some devices are recorded offline, or some that live are recorded       *)
(* online; or time passes.                                                 *)
Report ==
  /\ \E on \in BOOLEAN, D \in SUBSET Device :
       /\ on => D \subseteq Alive
       /\ online' = [d \in Device |-> IF d \in D THEN on ELSE online[d]]
  /\ Age
  /\ UNCHANGED <<reached, named>>

(* A living device gives d for its id.                                     *)
Name(d) ==
  /\ Alive # {}
  /\ named' = named \cup {d}
  /\ UNCHANGED <<life, online, reached>>

(* A device becomes reachable or is no longer.                             *)
Reach(d) ==
  /\ d \in Met \cup named
  /\ reached' = reached \cup {d}
  /\ UNCHANGED <<life, online, named>>

Forget(d) == reached' = reached \ {d} /\ UNCHANGED <<life, online, named>>

(* The service restarts; nobody is recorded otherwise by that.             *)
Restart == reached' = {} /\ named' = {} /\ UNCHANGED online /\ Age

Next ==
  \/ \E d \in Device : Register(d) \/ Name(d) \/ Reach(d) \/ Forget(d)
  \/ Report
  \/ Restart

Spec == Init /\ [][Next]_lifeVars
=============================================================================
