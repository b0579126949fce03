--------------------------- MODULE DialogContexts ---------------------------
(***************************************************************************)
(* What the live streams of a device promise, without the guard, channels, *)
(* goroutines, media server and the entry under the device's ID.  A dialog *)
(* is opened for a stream and is early; it becomes live at most once, and  *)
(* only while a stop of its stream would find it, unless the stream was    *)
(* asked to stop or has another dialog; and an ended one stays ended.  The *)
(* context of a stream is that of one of its dialogs, and it is lost only  *)
(* after a stop of this stream was asked for.                              *)
(***************************************************************************)
EXTENDS Naturals, Sequences

CONSTANT Stream

VARIABLES
  dialogs,  \* the dialogs in the order in which they were opened
  context,  \* the dialog a stop of each stream finds, 0 for none
  asked     \* the streams that were asked to stop

contextVars == <<dialogs, context, asked>>

Init ==
  /\ dialogs = <<>>
  /\ context = [s \in Stream |-> 0]
  /\ asked = {}

Open(s) ==
  /\ dialogs' = Append(dialogs, [stream |-> s, state |-> "early"])
  /\ UNCHANGED <<context, asked>>

Store(n) ==
  /\ context' = [context EXCEPT ![dialogs[n].stream] = n]
  /\ UNCHANGED <<dialogs, asked>>

(* A stop reaches dialog n, or need not, or cannot tell it from another.   *)
Stoppable(n) ==
  \/ context[dialogs[n].stream] = n
  \/ dialogs[n].stream \in asked
  \/ \E m \in DOMAIN dialogs \ {n} : dialogs[m].stream = dialogs[n].stream

Confirm(n) ==
  /\ dialogs[n].state = "early"
  /\ Stoppable(n)
  /\ dialogs' = [dialogs EXCEPT ![n].state = "live"]
  /\ UNCHANGED <<context, asked>>

End(n) ==
  /\ dialogs' = [dialogs EXCEPT ![n].state = "ended"]
  /\ UNCHANGED <<context, asked>>

Ask(s) ==
  /\ asked' = asked \cup {s}
  /\ UNCHANGED <<dialogs, context>>

Lose(s) ==
  /\ s \in asked
  /\ context' = [context EXCEPT ![s] = 0]
  /\ UNCHANGED <<dialogs, asked>>

Next ==
  \/ \E s \in Stream : Open(s) \/ Ask(s) \/ Lose(s)
  \/ \E n \in DOMAIN dialogs : Store(n) \/ Confirm(n) \/ End(n)

Spec == Init /\ [][Next]_contextVars
=============================================================================
