------------------------------ MODULE Watchdog ------------------------------
(***************************************************************************)
(* The watchdog task that the general FSM, the heartbeat monitor and the   *)
(* other services each spawn: an idle loop on the command channel and,     *)
(* once started, a tokio::select! between the sleep and a StopTimer.       *)
(*                                                                         *)
(* "deaf" is what the select! becomes when the command it receives is not  *)
(* the StopTimer of its pattern: the command is consumed, the branch is    *)
(* disabled, and until the sleep ends nothing is received any more.        *)
(***************************************************************************)

TimerCommand == {"InitTimer", "StopTimer"}
TimerState   == {"idle", "active", "deaf", "firing"}

\* States in which the task has a receive pending on its command channel, and in
\* which its sleep is running.
Listening(t) == t \in {"idle", "active"}
Sleeping(t)  == t \in {"active", "deaf"}

\* Mutant: any command ends the wait of the select!.
Received_AnyEnds(t, c) == IF t = "idle" /\ c = "InitTimer" THEN "active" ELSE "idle"

\* The state after a command is received; a StopTimer while idle is ignored.
Received(t, c) ==
  CASE t = "idle"   /\ c = "InitTimer" -> "active"
    [] t = "idle"   /\ c = "StopTimer" -> "idle"
    [] t = "active" /\ c = "StopTimer" -> "idle"
    [] t = "active" /\ c = "InitTimer" -> "deaf"
=============================================================================
