----------------------------- MODULE LogStream -----------------------------
(***************************************************************************)
(* What the log promises: the messages that were accepted are printed one  *)
(* by one, in order, and all of them before the log is paused.             *)
(***************************************************************************)
EXTENDS Naturals, Sequences

VARIABLES
  accepted,  \* number of messages that were accepted; they are 1 .. accepted
  printed,   \* the messages that were printed
  state      \* "on", "joining" while it is being paused, "paused"

vars == <<accepted, printed, state>>

Init == accepted = 0 /\ printed = <<>> /\ state = "on"

Accept == state = "on" /\ accepted' = accepted + 1 /\ UNCHANGED <<printed, state>>

PrintNext ==
  /\ Len(printed) < accepted
  /\ printed' = Append(printed, Len(printed) + 1)
  /\ UNCHANGED <<accepted, state>>

Close  == state = "on" /\ state' = "joining" /\ UNCHANGED <<accepted, printed>>
Closed == state = "joining" /\ Len(printed) = accepted /\ state' = "paused" /\ UNCHANGED <<accepted, printed>>
Open   == state = "paused" /\ state' = "on" /\ UNCHANGED <<accepted, printed>>

Next == Accept \/ PrintNext \/ Close \/ Closed \/ Open

Spec == Init /\ [][Next]_vars
=============================================================================
