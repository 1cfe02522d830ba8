--------------------------- MODULE FailureDetector ---------------------------
(***************************************************************************)
(* What the heartbeat monitor promises (the life cycle described at the    *)
(* head of src/third_layer/heartbeat/domain.rs), without its tasks, its    *)
(* timer and its warning state: the server is suspected only after a       *)
(* silence, trusted only when it is heard again, and a server that falls   *)
(* silent for good is suspected in the end.                                *)
(***************************************************************************)
VARIABLES
  silent,    \* a whole timeout has passed since the last beat, or no beat came yet
  suspected  \* the server is taken to be disconnected

vars == << silent, suspected >>

Init == silent = TRUE /\ suspected = TRUE

Hear    == silent' = FALSE /\ suspected' \in {suspected, FALSE}
Elapse  == silent' = TRUE /\ UNCHANGED suspected
Suspect == silent /\ suspected' = TRUE /\ UNCHANGED silent

Next == Hear \/ Elapse \/ Suspect

Spec == /\ Init /\ [][Next]_vars
        /\ WF_vars(~suspected /\ Elapse) /\ WF_vars(Suspect)
=============================================================================
