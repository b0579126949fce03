-------------------------- MODULE MCRecordingPlan --------------------------
(***************************************************************************)
(* Instances of RecordingPlan for TLC: a job for each of two processes and *)
(* three days, told apart by who is recorded in hour 0, which is over but  *)
(* for its last instant.                                                   *)
(*   Nobody: the first channel is to be recorded from hour 2, one fault    *)
(*     happens at any point, the second channel is left alone.             *)
(*   The first channel: the only event is an edit of its plan, which has   *)
(*     it recorded in hour 2, again when its period had ended before.      *)
(*   The second channel: it ends while the first begins, one fault, which  *)
(*     may be the deletion of the second one; only one process computes.   *)
(* The plan of the hour that is over is not edited.                        *)
(***************************************************************************)
EXTENDS RecordingPlan
CONSTANTS n1, n2, c1, c2

MCJob == {1, 2}
MCNodeOf == [j \in MCJob |-> IF j = 1 THEN n1 ELSE n2]

Only(h) == [k \in 0 .. Hours - 1 |-> k = h]
MCPlans ==
  { [c \in Channel |-> IF c = c1 THEN Only(first) ELSE Only(second)] :
      <<first, second>> \in {<<2, Hours>>, <<0, Hours>>, <<2, 0>>} }

Scenario ==
  /\ \A c \in Channel : plan'[c][0] = plan[c][0]
  /\ plan[c1][0] /\ events' # events => plan'[c1][Hours - 1] # plan[c1][Hours - 1]
  /\ ~plan[c2][0] => c2 \notin gone' /\ plan'[c2] = plan[c2]
  /\ plan[c2][0] => job'[2] = job[2]

MCSpec == Init /\ [][Next /\ Scenario]_vars /\ Fairness
=============================================================================
