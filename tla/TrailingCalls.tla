--------------------------- MODULE TrailingCalls ---------------------------
(***************************************************************************)
(* What a trailing throttle promises for one key, without entries, timers  *)
(* or retries: there is a place for one waiting call; a newer call of the  *)
(* same slot takes the place of the waiting one, a call of another slot    *)
(* first makes it due; every due call is executed once.                    *)
(***************************************************************************)
EXTENDS Integers, Sequences

VARIABLES
  place,    \* the slot of every call accepted so far
  waiting,  \* the call that waits for the end of its slot, 0 for none
  due,      \* calls that are to be executed
  ran       \* calls executed, in order

contractVars == <<place, waiting, due, ran>>

Init == place = <<>> /\ waiting = 0 /\ due = {} /\ ran = <<>>

Accept ==
  LET k == Len(place) + 1
  IN /\ Len(place') = k
     /\ place' = Append(place, place'[k])
     /\ waiting' = k
     /\ due' = IF waiting # 0 /\ place[waiting] # place'[k]
               THEN due \cup {waiting} ELSE due
     /\ UNCHANGED ran

SlotEnds ==
  /\ waiting # 0
  /\ waiting' = 0
  /\ due' = due \cup {waiting}
  /\ UNCHANGED <<place, ran>>

Execute(k) ==
  /\ k \in due
  /\ due' = due \ {k}
  /\ ran' = Append(ran, k)
  /\ UNCHANGED <<place, waiting>>

Next == Accept \/ SlotEnds \/ \E k \in due : Execute(k)

Spec == Init /\ [][Next]_contractVars
=============================================================================
