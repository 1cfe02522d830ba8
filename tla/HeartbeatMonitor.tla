-------------------------- MODULE HeartbeatMonitor --------------------------
(***************************************************************************)
(* The heartbeat monitor (src/third_layer/heartbeat): the tasks            *)
(* run_fsm_heartbeat, heartbeat (the handler) and                          *)
(* watchdog_timer_for_heartbeat.  It hears the beats of the server and     *)
(* tells the metrics, the data and the message service whether the server  *)
(* is there.  As in EdgeFsm, an action is a task running from one await    *)
(* that can block to the next.  A sleep (50 s) ends once the tasks have    *)
(* handled what is in flight; the Timeout it sends still races the beats.  *)
(* The two relays of HeartbeatService::run count as parts of the channels. *)
(***************************************************************************)
EXTENDS Watchdog, Naturals, Sequences

CONSTANTS
  BeatCap,   \* capacity of the channel of beats
  EventCap,  \* capacity of the channel of events into run_fsm_heartbeat
  ActionCap, \* capacity of the channel of action vectors out of it
  TimerCap,  \* capacity of the channel of commands into the watchdog
  MaxBeats   \* bound: beats of the server

ASSUME CapsAssumption == {BeatCap, EventCap, ActionCap, TimerCap, MaxBeats} \subseteq Nat

VARIABLES
  beats,     \* channel of HeartbeatHandle -> rx_from_server (number of beats)
  fsm,       \* run_fsm_heartbeat: the FsmHeartbeat
  events,    \* channel tx_to_fsm -> rx_from_heartbeat
  held,      \* the vector run_fsm_heartbeat is blocked sending (at most one)
  actions,   \* channel tx_actions -> rx_fsm
  doing,     \* the handler: what is left of the vector being executed
  outbox,    \* the handler: what the action or beat in hand still has to send
  timer,     \* the watchdog task
  timerCmds, \* channel tx_to_timer -> cmd_rx
  told,      \* the last status each of the services was told
  heard,     \* how many beats have arrived
  silent,    \* not in the code: a whole sleep has passed since the machine had a beat
  fresh      \* not in the code: the sleep that is running began after that beat

fsmVars     == << fsm, held >>
handlerVars == << doing, outbox, told >>
timerVars   == << timer, timerCmds >>
serverVars  == << heard, silent, fresh >>
vars == << beats, fsmVars, events, actions, handlerVars, timerVars, serverVars >>

State    == {"StartingWait", "ItsAlive", "DeadServer", "NotHeartbeatYet"}
Status   == {"Disconnected", "Connected"}
Event    == {"Heartbeat", "Timeout"}
Services == {"metrics", "data", "message"}
Fsm      == [state : State, old_status : Status, status : Status]

SendStatusConditional(old, new) == [name |-> "SendStatus", old |-> old, new |-> new]
OnEntry(state)                  == [name |-> "OnEntry", state |-> state]
StopTimer                       == [name |-> "StopTimer"]
Action == [name : {"SendStatus"}, old : Status, new : Status]
          \cup [name : {"OnEntry"}, state : State] \cup {StopTimer}

ToFsm          == [to |-> "fsm", msg |-> "Heartbeat"]
ToTimer(c)     == [to |-> "timer", msg |-> c]
Tell(s, what)  == [to |-> s, msg |-> what]
Message == {ToFsm} \cup [to : {"timer"}, msg : TimerCommand] \cup [to : Services, msg : Status]

NewFsm == [state |-> "StartingWait", old_status |-> "Disconnected", status |-> "Disconnected"]

TypeOK ==
  /\ beats \in 0 .. BeatCap /\ heard \in 0 .. MaxBeats
  /\ fsm \in Fsm /\ events \in Seq(Event)
  /\ held \in Seq(Seq(Action)) /\ Len(held) <= 1
  /\ actions \in Seq(Seq(Action)) /\ doing \in Seq(Action)
  /\ outbox \in Seq(Message)
  /\ timer \in TimerState /\ timerCmds \in Seq(TimerCommand)
  /\ told \in [Services -> Status \cup {"None"}]
  /\ silent \in BOOLEAN /\ fresh \in BOOLEAN

Init ==
  /\ beats = 0 /\ heard = 0
  /\ fsm = NewFsm /\ events = << >> /\ held = << >> /\ actions = << >>
  /\ doing = << >> /\ outbox = << >> /\ told = [s \in Services |-> "None"]
  /\ timer = "idle" /\ timerCmds = << >>
  /\ silent = TRUE /\ fresh = FALSE

\* Nothing is on its way between the tasks.
Quiet ==
  /\ beats = 0 /\ events = << >> /\ held = << >> /\ actions = << >>
  /\ doing = << >> /\ outbox = << >>
  /\ timer # "firing" /\ (timerCmds = << >> \/ timer = "deaf")

\* No task goes on before the sleep ends: all is quiet, or they wait for the watchdog to
\* take a command, and it is deaf.
AllWait ==
  \/ Quiet
  \/ /\ timer = "deaf" /\ Len(timerCmds) = TimerCap
     /\ outbox # << >> /\ Head(outbox).to = "timer"
     /\ \/ held = << >> /\ events = << >>
        \/ held # << >> /\ Len(actions) = ActionCap
-----------------------------------------------------------------------------
(* FsmHeartbeat: a valid transition is the new state and its actions. *)

To(state, acts)           == { [to |-> [fsm EXCEPT !.state = state], acts |-> acts] }
ToStatus(state, st, acts) ==
  { [to   |-> [state |-> state, old_status |-> st, status |-> st],
     acts |-> << SendStatusConditional(fsm.old_status, st) >> \o acts] }

\* Mutant: a beat that repeats or follows a warning does not stop the timer.
StepInner_NoStop(event) ==
  CASE fsm.state = "StartingWait" /\ event = "Heartbeat" -> ToStatus("ItsAlive", "Connected", << StopTimer >>)
    [] fsm.state = "StartingWait" /\ event = "Timeout"   -> To("NotHeartbeatYet", << >>)
    [] fsm.state = "ItsAlive" /\ event = "Heartbeat"     -> To("StartingWait", << >>)
    [] fsm.state = "ItsAlive" /\ event = "Timeout"       -> To("NotHeartbeatYet", << >>)
    [] fsm.state = "NotHeartbeatYet" /\ event = "Heartbeat" -> To("StartingWait", << >>)
    [] fsm.state = "NotHeartbeatYet" /\ event = "Timeout"   -> ToStatus("DeadServer", "Disconnected", << >>)
    [] fsm.state = "DeadServer" /\ event = "Heartbeat"   -> To("StartingWait", << >>)
    [] fsm.state = "DeadServer" /\ event = "Timeout"     -> {}

\* step_inner, with the transitions it dispatches to.
StepInner(event) ==
  CASE fsm.state = "StartingWait" /\ event = "Heartbeat" -> ToStatus("ItsAlive", "Connected", << StopTimer >>)
    [] fsm.state = "StartingWait" /\ event = "Timeout"   -> To("NotHeartbeatYet", << >>)
    [] fsm.state = "ItsAlive" /\ event = "Heartbeat"     -> To("StartingWait", << StopTimer >>)
    [] fsm.state = "ItsAlive" /\ event = "Timeout"       -> To("NotHeartbeatYet", << >>)
    [] fsm.state = "NotHeartbeatYet" /\ event = "Heartbeat" -> To("StartingWait", << StopTimer >>)
    [] fsm.state = "NotHeartbeatYet" /\ event = "Timeout"   -> ToStatus("DeadServer", "Disconnected", << >>)
    [] fsm.state = "DeadServer" /\ event = "Heartbeat"   -> To("StartingWait", << >>)
    [] fsm.state = "DeadServer" /\ event = "Timeout"     -> {}

\* step: no transition keeps the state, so each ends in an OnEntry.
Step(event) == { [t EXCEPT !.acts = Append(@, OnEntry(t.to.state))] : t \in StepInner(event) }

FsmTurn ==
  /\ held = << >> /\ events # << >>
  /\ events' = Tail(events)
  /\ IF Head(events) = "Heartbeat" THEN silent' = FALSE /\ fresh' = FALSE
                                   ELSE UNCHANGED << silent, fresh >>
  /\ IF Step(Head(events)) = {}
     THEN UNCHANGED << fsmVars, actions >>
     ELSE \E t \in Step(Head(events)) :
            /\ fsm' = t.to
            /\ IF Len(actions) < ActionCap
               THEN actions' = Append(actions, t.acts) /\ UNCHANGED held
               ELSE held' = << t.acts >> /\ UNCHANGED actions
  /\ UNCHANGED << beats, handlerVars, timerVars, heard >>

FsmUnblocked ==
  /\ held # << >> /\ Len(actions) < ActionCap
  /\ actions' = Append(actions, Head(held)) /\ held' = << >>
  /\ UNCHANGED << beats, fsm, events, handlerVars, timerVars, serverVars >>
-----------------------------------------------------------------------------
(* watchdog_timer_for_heartbeat *)

TimerReceive ==
  /\ Listening(timer) /\ timerCmds # << >>
  /\ timer' = Received(timer, Head(timerCmds))
  /\ timerCmds' = Tail(timerCmds)
  /\ fresh' = (fresh \/ (~Sleeping(timer) /\ Sleeping(timer')))
  /\ UNCHANGED << beats, fsmVars, events, actions, handlerVars, heard, silent >>

\* The sleep ends: a whole one of silence, if it began after the last beat
\* the machine had.
TimerExpire ==
  /\ Sleeping(timer) /\ AllWait
  /\ timer' = "firing"
  /\ silent' = (silent \/ fresh) /\ fresh' = FALSE
  /\ UNCHANGED << beats, fsmVars, events, actions, handlerVars, timerCmds, heard >>

TimerFire ==
  /\ timer = "firing" /\ Len(events) < EventCap
  /\ events' = Append(events, "Timeout") /\ timer' = "idle"
  /\ UNCHANGED << beats, fsmVars, actions, handlerVars, timerCmds, serverVars >>
-----------------------------------------------------------------------------
(* heartbeat *)

Idle == doing = << >> /\ outbox = << >>

TakeBeat ==
  /\ Idle /\ beats > 0
  /\ beats' = beats - 1 /\ outbox' = << ToFsm >>
  /\ UNCHANGED << fsmVars, events, actions, doing, told, timerVars, serverVars >>

TakeActions ==
  /\ Idle /\ actions # << >>
  /\ doing' = Head(actions) /\ actions' = Tail(actions)
  /\ UNCHANGED << beats, fsmVars, events, outbox, told, timerVars, serverVars >>

\* Mutant: nobody watches a server that has just been heard.
Messages_NotWhenAlive(a) ==
  CASE a.name = "OnEntry"    -> IF a.state \in {"StartingWait", "NotHeartbeatYet"}
                                THEN << ToTimer("InitTimer") >> ELSE << >>
    [] a.name = "StopTimer"  -> << ToTimer("StopTimer") >>
    [] a.name = "SendStatus" -> IF a.old = a.new THEN << >>
                                ELSE << Tell("metrics", a.new), Tell("data", a.new), Tell("message", a.new) >>

\* Mutant: the data service is not told.
Messages_NotToData(a) ==
  CASE a.name = "OnEntry"    -> IF a.state \in {"StartingWait", "NotHeartbeatYet", "ItsAlive"}
                                THEN << ToTimer("InitTimer") >> ELSE << >>
    [] a.name = "StopTimer"  -> << ToTimer("StopTimer") >>
    [] a.name = "SendStatus" -> IF a.old = a.new THEN << >>
                                ELSE << Tell("metrics", a.new), Tell("message", a.new) >>

\* What an action makes the handler send.
Messages(a) ==
  CASE a.name = "OnEntry"    -> IF a.state \in {"StartingWait", "NotHeartbeatYet", "ItsAlive"}
                                THEN << ToTimer("InitTimer") >> ELSE << >>
    [] a.name = "StopTimer"  -> << ToTimer("StopTimer") >>
    [] a.name = "SendStatus" -> IF a.old = a.new THEN << >>
                                ELSE << Tell("metrics", a.new), Tell("data", a.new), Tell("message", a.new) >>

Perform ==
  /\ outbox = << >> /\ doing # << >>
  /\ outbox' = Messages(Head(doing)) /\ doing' = Tail(doing)
  /\ UNCHANGED << beats, fsmVars, events, actions, told, timerVars, serverVars >>

\* One message is sent, when there is room for it; the services always make room.
HandlerSend ==
  /\ outbox # << >>
  /\ LET m == Head(outbox)
     IN  \/ /\ m.to = "fsm" /\ Len(events) < EventCap
            /\ events' = Append(events, m.msg) /\ UNCHANGED << timerCmds, told >>
         \/ /\ m.to = "timer" /\ Len(timerCmds) < TimerCap
            /\ timerCmds' = Append(timerCmds, m.msg) /\ UNCHANGED << events, told >>
         \/ /\ m.to \in Services
            /\ told' = [told EXCEPT ![m.to] = m.msg] /\ UNCHANGED << events, timerCmds >>
  /\ outbox' = Tail(outbox)
  /\ UNCHANGED << beats, fsmVars, actions, doing, timer, serverVars >>
-----------------------------------------------------------------------------
\* Mutant: the channel of beats is not bounded.
Beat_Unbounded ==
  /\ heard < MaxBeats
  /\ heard' = heard + 1 /\ beats' = beats + 1
  /\ UNCHANGED << fsmVars, events, actions, handlerVars, timerVars, silent, fresh >>

\* The server, while it lives.
Beat ==
  /\ heard < MaxBeats /\ beats < BeatCap
  /\ heard' = heard + 1 /\ beats' = beats + 1
  /\ UNCHANGED << fsmVars, events, actions, handlerVars, timerVars, silent, fresh >>

RunFsm  == FsmTurn \/ FsmUnblocked
Handler == TakeBeat \/ Perform \/ HandlerSend
Timer   == TimerReceive \/ TimerFire

Next == RunFsm \/ Handler \/ TakeActions \/ Timer \/ TimerExpire \/ Beat

Spec == Init /\ [][Next]_vars

\* The tasks run when they can, sleeps end, and the select! of the handler does not
\* pass over its actions for ever.  The server need not beat.
FairSpec ==
  /\ Spec
  /\ WF_vars(RunFsm) /\ WF_vars(Handler) /\ SF_vars(TakeActions)
  /\ WF_vars(Timer) /\ WF_vars(TimerExpire)
-----------------------------------------------------------------------------
(* Properties *)

\* The three services, which are told one after the other, agree with the monitor when
\* all is quiet (before the first change of status none has been told anything).
ServicesTold ==
  Quiet => \/ \A s \in Services : told[s] = fsm.status
           \/ fsm.status = "Disconnected" /\ \A s \in Services : told[s] = "None"

\* A server that has been heard is watched: when all is quiet, outside of DeadServer and
\* of the wait for the first beat, the watchdog runs, whatever Timeout raced a beat.
Watched ==
  Quiet /\ heard > 0 /\ fsm.state # "DeadServer" =>
    Sleeping(timer) /\ Step("Timeout") # {}

\* The monitor implements the failure detector.
Detector == INSTANCE FailureDetector WITH suspected <- fsm.status = "Disconnected"
Detects  == Detector!Spec
=============================================================================
