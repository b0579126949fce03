---------------------------- MODULE HubSessions ----------------------------
(***************************************************************************)
(* What the WebSocket hub promises of its connections, without goroutines, *)
(* channels and sockets.  The index has one place per user.  A connection  *)
(* takes its user's place once, when it logs in, whoever had it; it is     *)
(* marked once, and only then, and only once, released, which empties the  *)
(* place of its user, whoever has it by then.                              *)
(***************************************************************************)
CONSTANTS Client, Id, NoClient

VARIABLES
  user,   \* whose connection it is
  phase,  \* where each connection is in its life
  place   \* the index

sessionVars == <<user, phase, place>>

Init ==
  /\ user \in [Client -> Id]
  /\ phase = [c \in Client |-> "new"]
  /\ place = [i \in Id |-> NoClient]

Login(c) ==
  /\ phase[c] = "new"
  /\ phase' = [phase EXCEPT ![c] = "in"]
  /\ place' = [place EXCEPT ![user[c]] = c]
  /\ UNCHANGED user

Mark(c) ==
  /\ phase[c] = "in"
  /\ phase' = [phase EXCEPT ![c] = "marked"]
  /\ UNCHANGED <<user, place>>

Release(c) ==
  /\ phase[c] = "marked"
  /\ phase' = [phase EXCEPT ![c] = "gone"]
  /\ place' = [place EXCEPT ![user[c]] = NoClient]
  /\ UNCHANGED user

Next == \E c \in Client : Login(c) \/ Mark(c) \/ Release(c)

Spec == Init /\ [][Next]_sessionVars
=============================================================================
