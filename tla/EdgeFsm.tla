------------------------------- MODULE EdgeFsm -------------------------------
(***************************************************************************)
(* The runtime of the general FSM (src/third_layer/fsm/logic.rs): the      *)
(* tasks run_fsm, handle_events_and_actions (the handler) and              *)
(* fsm_watchdog_timer, the bounded channels between them, the session the  *)
(* handler owns, and the epoch it keeps in the database.                   *)
(*                                                                         *)
(* Each action is one task running from one await that can block to the    *)
(* next.  The handler collects in outbox the messages the action in hand   *)
(* still has to send, and sends them one at a time, each waiting for room  *)
(* in its channel; run_fsm likewise holds in held a vector of actions that *)
(* found its channel full.  Time is abstracted: a sleep may end at any     *)
(* moment or, when Prompt, once the tasks have handled what is in flight   *)
(* (the sleeps take from 30 s on); the Timeout it sends races either way.  *)
(***************************************************************************)
EXTENDS FsmDomain, Watchdog, Naturals, FiniteSets

CONSTANTS
  Hubs,           \* the hubs that may answer
  HubCounts,      \* the values NetworkManager::get_total_hubs may have
  MaxAttempts,    \* max_attempts of protocol.toml
  PenaltyStep,    \* percent points a repeated handshake takes off the threshold (the code: 5)
  EventCap,       \* capacity of the channel of events into run_fsm
  ActionCap,      \* capacity of the channel of action vectors out of it
  TimerCap,       \* capacity of the channel of commands into the watchdog
  CommandCap,     \* capacity of the channel of commands into the handler
  Prompt,         \* whether the tasks drain their channels before a sleep ends
  SaveMayFail,    \* whether an INSERT of the epoch may fail
  MaxHubMessages, \* bound: messages the hubs send in a behaviour
  MaxLinkEvents,  \* bound: connections and disconnections of the local broker
  MaxReadErrors,  \* bound: failed reads of the epoch
  MaxCrashes      \* bound: restarts of the process

ASSUME BoundsAssumption ==
  /\ HubCounts \subseteq Nat
  /\ {MaxAttempts, PenaltyStep, EventCap, ActionCap, TimerCap, CommandCap,
      MaxHubMessages, MaxLinkEvents, MaxReadErrors, MaxCrashes} \subseteq Nat
  /\ {Prompt, SaveMayFail} \subseteq BOOLEAN

VARIABLES
  fsm,       \* run_fsm: the FsmState
  events,    \* channel tx_to_fsm -> rx_event
  held,      \* the vector run_fsm is blocked sending (at most one)
  actions,   \* channel tx_actions -> rx_from_fsm
  doing,     \* the handler: what is left of the vector being executed
  outbox,    \* the handler: the messages left to send before it goes on
  session,   \* the handler: its UpdateSession
  commands,  \* channel tx_command -> rx_command
  timer,     \* the watchdog task
  timerCmds, \* channel tx_to_timer -> cmd_rx
  mode,      \* the last State sent to the task edge_state
  beat,      \* the last command sent to the task heartbeat_generator
  totalHubs, \* what get_total_hubs returns
  dbEpoch,   \* the last row of table balance_epoch (0: none)
  shouted,   \* the epochs of the handshakes broadcast so far
  link,      \* the last connection event of the local broker
  spent      \* how much of the environment's bounds is used up

vars == << fsm, events, held, actions, doing, outbox, session, commands, timer, timerCmds,
           mode, beat, totalHubs, dbEpoch, shouted, link, spent >>

fsmVars     == << fsm, held >>
handlerVars == << doing, outbox, session, mode, beat, dbEpoch, shouted >>
timerVars   == << timer, timerCmds >>
envVars     == << totalHubs, link, spent >>

StateOfSession == {"None", "InHandshake", "Quorum", "RepeatHandshake", "OutHandshake",
                   "PhaseAlert", "PhaseData", "PhaseMonitor", "SafeMode"}

\* handshake_hash as a function, 0 standing for a hub that is not a key of it;
\* empty_hash as the set of its keys.
NewSession == [state |-> "None", epoch |-> 0, attempts |-> 0,
               votes |-> [h \in Hubs |-> 0], empty |-> {}]

Command == [kind : {"Handshake"}, hub : Hubs, epoch : Nat]
           \cup [kind : {"Queue", "QueueSafe"}, hub : Hubs]
           \cup [kind : {"LocalConnected", "LocalDisconnected"}]

\* A message of the handler: to run_fsm an event, to the watchdog a command.
ToFsm(e)   == [to |-> "fsm", msg |-> e]
ToTimer(c) == [to |-> "timer", msg |-> c]
Message    == [to : {"fsm"}, msg : Event] \cup [to : {"timer"}, msg : TimerCommand]

TypeOK ==
  /\ fsm \in FsmState
  /\ events \in Seq(Event)
  /\ held \in Seq(Seq(Action)) /\ actions \in Seq(Seq(Action)) /\ doing \in Seq(Action)
  /\ outbox \in Seq(Message)
  /\ session \in [state : StateOfSession, epoch : Nat, attempts : Nat,
                  votes : [Hubs -> Nat], empty : SUBSET Hubs]
  /\ commands \in Seq(Command)
  /\ timer \in TimerState /\ timerCmds \in Seq(TimerCommand)
  /\ mode \in [state : StateGlobal, epoch : Nat]
  /\ beat \in {"None", "Phase", "SafeMode", "Normal"}
  /\ totalHubs \in HubCounts
  /\ dbEpoch \in Nat /\ shouted \subseteq Nat
  /\ link \in {"Unknown", "LocalConnected", "LocalDisconnected"}
  /\ spent \in [hub : Nat, link : Nat, read : Nat, crash : Nat]

NewMode == [state |-> "Start", epoch |-> 0]

\* The tasks as spawn_runtime starts them, on an empty database.
Init ==
  /\ fsm = NewFsmState
  /\ events = << >> /\ held = << >> /\ actions = << >>
  /\ doing = << >> /\ outbox = << >> /\ session = NewSession
  /\ commands = << >>
  /\ timer = "idle" /\ timerCmds = << >>
  /\ mode = NewMode /\ beat = "None"
  /\ link = "Unknown" /\ totalHubs \in HubCounts
  /\ dbEpoch = 0 /\ shouted = {}
  /\ spent = [hub |-> 0, link |-> 0, read |-> 0, crash |-> 0]

\* Nothing is on its way between the tasks: only the environment or the end of a
\* sleep can change anything.
Quiet ==
  /\ fsm.global # "Start"
  /\ events = << >> /\ held = << >> /\ actions = << >> /\ doing = << >>
  /\ outbox = << >> /\ commands = << >>
  /\ timer # "firing" /\ (timerCmds = << >> \/ timer = "deaf")
-----------------------------------------------------------------------------
(* run_fsm *)

\* handle_transition: the state is replaced, then the vector (even an empty one)
\* is sent, which blocks while the channel is full; an invalid event is logged.
HandleTransition(transitions) ==
  IF transitions = {}
  THEN UNCHANGED << fsm, held, actions >>
  ELSE \E t \in transitions :
         /\ fsm' = t.to
         /\ IF Len(actions) < ActionCap
            THEN actions' = Append(actions, t.acts) /\ UNCHANGED held
            ELSE held' = << t.acts >> /\ UNCHANGED actions

FsmStart ==
  /\ fsm.global = "Start"
  /\ HandleTransition(Step(fsm, "Start"))
  /\ UNCHANGED << events, handlerVars, commands, timerVars, envVars >>

FsmTurn ==
  /\ fsm.global # "Start" /\ held = << >> /\ events # << >>
  /\ events' = Tail(events)
  /\ HandleTransition(Step(fsm, Head(events)))
  /\ UNCHANGED << handlerVars, commands, timerVars, envVars >>

\* Mutant: try_send instead of send, a vector that finds no room is dropped.
FsmUnblocked_Dropped ==
  /\ held # << >> /\ held' = << >>
  /\ UNCHANGED << fsm, events, actions, handlerVars, commands, timerVars, envVars >>

FsmUnblocked ==
  /\ held # << >> /\ Len(actions) < ActionCap
  /\ actions' = Append(actions, Head(held))
  /\ held' = << >>
  /\ UNCHANGED << fsm, events, handlerVars, commands, timerVars, envVars >>
-----------------------------------------------------------------------------
(* fsm_watchdog_timer *)

TimerReceive ==
  /\ Listening(timer) /\ timerCmds # << >>
  /\ timer' = Received(timer, Head(timerCmds))
  /\ timerCmds' = Tail(timerCmds)
  /\ UNCHANGED << fsmVars, events, actions, handlerVars, commands, envVars >>

\* The sleep ends; the Timeout is then sent, once the channel has room.
TimerExpire ==
  /\ Sleeping(timer) /\ (Prompt => Quiet)
  /\ timer' = "firing"
  /\ UNCHANGED << fsmVars, events, actions, handlerVars, commands, timerCmds, envVars >>

TimerFire ==
  /\ timer = "firing" /\ Len(events) < EventCap
  /\ events' = Append(events, "Timeout")
  /\ timer' = "idle"
  /\ UNCHANGED << fsmVars, actions, handlerVars, commands, timerCmds, envVars >>
-----------------------------------------------------------------------------
(* The quorum algorithms.  The percentages are compared without the division of the
   code, which is of floats: with no hub registered n/0 is infinite, and 0/0 is not a
   number and never reaches a threshold.  *)

Percentage == 80

Reaches(n, threshold) ==
  IF totalHubs = 0 THEN n > 0 ELSE n * 100 >= threshold * totalHubs

Voters(s) == { h \in Hubs : s.votes[h] # 0 }

\* threshold > 10, without subtracting below zero.
Approved(s) ==
  LET penalty == PenaltyStep * (IF s.attempts > 1 THEN s.attempts - 1 ELSE 0)
  IN  Percentage > penalty + 10 /\ Reaches(Cardinality(Voters(s)), Percentage - penalty)

\* Mutant: the attempts run out one late.
QuorumAlgorithm_OneLate(s) ==
  CASE s.attempts > MaxAttempts + 1                  -> "NotApproveNotAttempts"
    [] s.attempts <= MaxAttempts + 1 /\ Approved(s)  -> "ApproveQuorum"
    [] s.attempts <= MaxAttempts + 1 /\ ~Approved(s) -> "NotApproveQuorum"

\* quorum_algorithm: the event it sends.
QuorumAlgorithm(s) ==
  CASE s.attempts > MaxAttempts                  -> "NotApproveNotAttempts"
    [] s.attempts <= MaxAttempts /\ Approved(s)  -> "ApproveQuorum"
    [] s.attempts <= MaxAttempts /\ ~Approved(s) -> "NotApproveQuorum"
-----------------------------------------------------------------------------
(* handle_events_and_actions *)

Idle == doing = << >> /\ outbox = << >>

\* The second branch of the select!.
TakeActions ==
  /\ Idle /\ actions # << >>
  /\ doing' = Head(actions) /\ actions' = Tail(actions)
  /\ UNCHANGED << fsmVars, events, outbox, session, mode, beat, dbEpoch, shouted,
                  commands, timerVars, envVars >>

\* The first branch of the select!, for a command of the given kinds.
TakeCommand(kinds) ==
  /\ Idle /\ commands # << >> /\ Head(commands).kind \in kinds
  /\ commands' = Tail(commands)
  /\ UNCHANGED << fsmVars, events, actions, doing, mode, beat, dbEpoch, shouted,
                  timerVars, envVars >>

\* A vote counts while a handshake is open and for the current epoch; the first
\* vote of a hub is kept, and every vote of its asks for a new count.
HandleHandshake ==
  /\ TakeCommand({"Handshake"})
  /\ LET c == Head(commands)
     IN  IF /\ session.state \in {"InHandshake", "OutHandshake", "RepeatHandshake"}
            /\ c.epoch = session.epoch
         THEN /\ session' = IF session.votes[c.hub] = 0
                            THEN [session EXCEPT !.votes[c.hub] = c.epoch]
                            ELSE session
              /\ outbox' = << ToFsm("NewMessageHandshake") >>
         ELSE UNCHANGED << session, outbox >>

\* Mutant: the two senders are swapped.
CountEmpty_Swapped(open, threshold, event) ==
  IF session.state \in open
  THEN /\ session' = [session EXCEPT !.empty = @ \cup {Head(commands).hub}]
       /\ outbox' = << [to |-> "fsm", msg |-> "StopTimer"], [to |-> "timer", msg |-> event] >>
  ELSE UNCHANGED << session, outbox >>

\* quorum_phase and quorum_safe_mode: every report past the percentage sends the
\* event and a StopTimer.  A report that the queue is not empty changes nothing.
CountEmpty(open, threshold, event) ==
  IF session.state \in open
  THEN LET empty == session.empty \cup {Head(commands).hub}
       IN  /\ session' = [session EXCEPT !.empty = empty]
           /\ outbox' = IF Reaches(Cardinality(empty), threshold)
                        THEN << ToFsm(event), ToTimer("StopTimer") >>
                        ELSE << >>
  ELSE UNCHANGED << session, outbox >>

HandleQueue ==
  /\ TakeCommand({"Queue"})
  /\ CountEmpty({"PhaseAlert", "PhaseData", "PhaseMonitor"}, 80, "QuorumPhase")

HandleQueueSafe ==
  /\ TakeCommand({"QueueSafe"})
  /\ CountEmpty({"SafeMode"}, 70, "QuorumSafeMode")

HandleConnection ==
  /\ TakeCommand({"LocalConnected", "LocalDisconnected"})
  /\ outbox' = << ToFsm(Head(commands).kind) >>
  /\ UNCHANGED session

\* The message at the head of the outbox is sent when its channel has room.
HandlerSend ==
  /\ outbox # << >>
  /\ LET m == Head(outbox)
     IN  \/ /\ m.to = "fsm" /\ Len(events) < EventCap
            /\ events' = Append(events, m.msg)
            /\ UNCHANGED timerCmds
         \/ /\ m.to = "timer" /\ Len(timerCmds) < TimerCap
            /\ timerCmds' = Append(timerCmds, m.msg)
            /\ UNCHANGED events
  /\ outbox' = Tail(outbox)
  /\ UNCHANGED << fsmVars, actions, doing, session, mode, beat, dbEpoch, shouted,
                  commands, timer, envVars >>
-----------------------------------------------------------------------------
(* handle_action: one TLA+ action per variant that does something *)

\* The handler comes to an action of the vector.
Perform(a) ==
  /\ outbox = << >> /\ doing # << >>
  /\ Head(doing) = a
  /\ doing' = Tail(doing)
  /\ UNCHANGED << fsmVars, events, actions, commands, timerVars, totalHubs, link >>

\* Mutant: the epoch read is saved again instead of the next one.
EnterInitBalanceMode_SavesOld ==
  /\ Perform(OnEntry("OnEntryBalance", "InitBalanceMode"))
  /\ session' = [session EXCEPT !.epoch = dbEpoch + 1]
  /\ mode' = [state |-> "BalanceMode", epoch |-> dbEpoch + 1]
  /\ outbox' = << ToFsm("BalanceEpochOk") >>
  /\ UNCHANGED << beat, shouted, dbEpoch, spent >>

\* get_epoch, save_epoch of the next one, and its event.  A save that fails is not
\* seen: DataHandle::save_epoch returns true for any answer of the database.
EnterInitBalanceMode ==
  /\ Perform(OnEntry("OnEntryBalance", "InitBalanceMode"))
  /\ \/ \E saved \in {TRUE, ~SaveMayFail} :
          /\ session' = [session EXCEPT !.epoch = dbEpoch + 1]
          /\ dbEpoch' = IF saved THEN dbEpoch + 1 ELSE dbEpoch
          /\ mode' = [state |-> "BalanceMode", epoch |-> dbEpoch + 1]
          /\ outbox' = << ToFsm("BalanceEpochOk") >>
          /\ UNCHANGED spent
     \/ /\ spent.read < MaxReadErrors
        /\ spent' = [spent EXCEPT !.read = @ + 1]
        /\ outbox' = << ToFsm("BalanceEpochNotOk") >>
        /\ UNCHANGED << session, dbEpoch, mode >>
  /\ UNCHANGED << beat, shouted >>

\* OnEntryBalance(InHandshake | OutHandshake): the handshake of the epoch is
\* broadcast and the watchdog started.  The votes in hand are kept.
EnterHandshake ==
  /\ \E s \in {"InHandshake", "OutHandshake"} :
       /\ Perform(OnEntry("OnEntryBalance", s))
       /\ session' = [session EXCEPT !.state = s]
  /\ shouted' = shouted \cup {session.epoch}
  /\ outbox' = << ToTimer("InitTimer") >>
  /\ UNCHANGED << mode, beat, dbEpoch, spent >>

EnterCheckQuorum ==
  /\ \E q \in {"CheckQuorumIn", "CheckQuorumOut"} : Perform(OnEntry("OnEntryQuorum", q))
  /\ session' = [session EXCEPT !.state = "Quorum"]
  /\ outbox' = << ToFsm(QuorumAlgorithm(session)) >>
  /\ UNCHANGED << mode, beat, dbEpoch, shouted, spent >>

RepeatHandshake(newSession) ==
  /\ \E q \in {"RepeatHandshakeIn", "RepeatHandshakeOut"} : Perform(OnEntry("OnEntryQuorum", q))
  /\ session' = newSession
  /\ shouted' = shouted \cup {session.epoch}
  /\ outbox' = << ToTimer("InitTimer") >>
  /\ UNCHANGED << mode, beat, dbEpoch, spent >>

\* Mutants: set_state, or increment_attempts, is forgotten.
EnterRepeatHandshake_NoState ==
  RepeatHandshake([session EXCEPT !.attempts = @ + 1, !.votes = [h \in Hubs |-> 0]])
EnterRepeatHandshake_NoCount ==
  RepeatHandshake([session EXCEPT !.state = "RepeatHandshake", !.votes = [h \in Hubs |-> 0]])

EnterRepeatHandshake ==
  RepeatHandshake([session EXCEPT !.state = "RepeatHandshake", !.attempts = @ + 1,
                                  !.votes = [h \in Hubs |-> 0]])

EnterPhase ==
  /\ \E p \in SubStatePhase :
       /\ Perform(OnEntry("OnEntryPhase", p))
       /\ session' = [session EXCEPT !.state = CASE p = "Alert"   -> "PhaseAlert"
                                                 [] p = "Data"    -> "PhaseData"
                                                 [] p = "Monitor" -> "PhaseMonitor",
                                     !.attempts = 0, !.votes = [h \in Hubs |-> 0],
                                     !.empty = {}]
       /\ beat' = IF p = "Alert" THEN "Phase" ELSE beat
  /\ outbox' = << ToTimer("InitTimer") >>
  /\ UNCHANGED << mode, dbEpoch, shouted, spent >>

\* Mutant: State::Normal is not sent to edge_state.
EnterNormal_Silent ==
  /\ Perform(Do("OnEntryNormal"))
  /\ beat' = "Normal"
  /\ UNCHANGED << outbox, session, mode, dbEpoch, shouted, spent >>

EnterNormal ==
  /\ Perform(Do("OnEntryNormal"))
  /\ beat' = "Normal"
  /\ mode' = [state |-> "Normal", epoch |-> 0]
  /\ UNCHANGED << outbox, session, dbEpoch, shouted, spent >>

EnterSafeMode ==
  /\ Perform(Do("OnEntrySafeMode"))
  /\ session' = [session EXCEPT !.state = "SafeMode", !.empty = {}]
  /\ beat' = "SafeMode"
  /\ mode' = [state |-> "SafeMode", epoch |-> 0]
  /\ outbox' = << ToTimer("InitTimer") >>
  /\ UNCHANGED << dbEpoch, shouted, spent >>

EnterDisconnected ==
  /\ Perform(Do("OnEntryDisconnected"))
  /\ mode' = [state |-> "Disconnected", epoch |-> 0]
  /\ UNCHANGED << outbox, session, beat, dbEpoch, shouted, spent >>

CalculateQuorum ==
  /\ Perform(Do("CalculateQuorum"))
  /\ outbox' = << ToFsm(QuorumAlgorithm(session)) >>
  /\ UNCHANGED << session, mode, beat, dbEpoch, shouted, spent >>

StopTimer ==
  /\ Perform(Do("StopTimer"))
  /\ outbox' = << ToTimer("StopTimer") >>
  /\ UNCHANGED << session, mode, beat, dbEpoch, shouted, spent >>

StopHeartbeats ==
  /\ \E a \in {"StopSendHeartbeatMessagePhase", "StopSendHeartbeatMessageSafeMode",
               "StopSendHeartbeatMessageNormal"} : Perform(Do(a))
  /\ beat' = "None"
  /\ UNCHANGED << outbox, session, mode, dbEpoch, shouted, spent >>

\* OnEntryBalance(Quorum | Phase) fall in the `_ => {}` arm: their own sub-state
\* action follows in the same vector.
SkipAction ==
  /\ \E b \in {"Quorum", "Phase"} : Perform(OnEntry("OnEntryBalance", b))
  /\ UNCHANGED << outbox, session, mode, beat, dbEpoch, shouted, spent >>

HandleAction ==
  \/ EnterInitBalanceMode \/ EnterHandshake \/ EnterCheckQuorum \/ EnterRepeatHandshake
  \/ EnterPhase \/ EnterNormal \/ EnterSafeMode \/ EnterDisconnected
  \/ CalculateQuorum \/ StopTimer \/ StopHeartbeats \/ SkipAction
-----------------------------------------------------------------------------
(* What surrounds the runtime: hubs, broker, topology and the process itself *)

Deliver(c) ==
  /\ Len(commands) < CommandCap
  /\ commands' = Append(commands, c)
  /\ UNCHANGED << fsmVars, events, actions, handlerVars, timerVars, totalHubs >>

\* A hub answers a handshake that was broadcast, now or long ago (messages are late
\* and duplicated), or reports an empty queue.
HubMessage ==
  /\ spent.hub < MaxHubMessages
  /\ spent' = [spent EXCEPT !.hub = @ + 1]
  /\ UNCHANGED link
  /\ \E h \in Hubs :
       \/ \E e \in shouted : Deliver([kind |-> "Handshake", hub |-> h, epoch |-> e])
       \/ \E k \in {"Queue", "QueueSafe"} : Deliver([kind |-> k, hub |-> h])

LinkEvent ==
  /\ spent.link < MaxLinkEvents
  /\ spent' = [spent EXCEPT !.link = @ + 1]
  /\ \E k \in {"LocalConnected", "LocalDisconnected"} \ {link} :
       link' = k /\ Deliver([kind |-> k])

TopologyChange ==
  /\ \E n \in HubCounts \ {totalHubs} : totalHubs' = n
  /\ UNCHANGED << fsmVars, events, actions, handlerVars, commands, timerVars, link, spent >>

\* The process dies and is started again: only the database survives.
Crash ==
  /\ spent.crash < MaxCrashes
  /\ spent' = [spent EXCEPT !.crash = @ + 1]
  /\ fsm' = NewFsmState
  /\ events' = << >> /\ held' = << >> /\ actions' = << >>
  /\ doing' = << >> /\ outbox' = << >> /\ session' = NewSession
  /\ commands' = << >>
  /\ timer' = "idle" /\ timerCmds' = << >>
  /\ mode' = NewMode /\ beat' = "None"
  /\ link' = "Unknown"
  /\ UNCHANGED << totalHubs, dbEpoch, shouted >>
-----------------------------------------------------------------------------
RunFsm  == FsmStart \/ FsmTurn \/ FsmUnblocked
Handler == \/ HandleHandshake \/ HandleQueue \/ HandleQueueSafe \/ HandleConnection
           \/ HandleAction \/ HandlerSend
Timer   == TimerReceive \/ TimerFire
Environment == HubMessage \/ LinkEvent \/ TopologyChange \/ Crash

Next == RunFsm \/ TakeActions \/ Handler \/ Timer \/ TimerExpire \/ Environment

Spec == Init /\ [][Next]_vars

\* The scheduler runs every task that can run, a sleep ends, and the select! of the
\* handler, which picks among its ready branches at random, does not starve either.
Fairness ==
  /\ WF_vars(RunFsm) /\ WF_vars(Handler) /\ SF_vars(TakeActions)
  /\ WF_vars(Timer) /\ WF_vars(TimerExpire)

FairSpec == Spec /\ Fairness
-----------------------------------------------------------------------------
(* Properties *)

\* The four fields of the state keep the documented hierarchy: a sub-state is
\* present exactly when its parent is active (domain.rs, FsmState).
Hierarchy == Hierarchical(fsm)

\* The machine never waits for something nobody is going to send: when all is
\* quiet in the balance or the safe mode, the state is one that a Timeout leaves and
\* the watchdog is running (no InitTimer was lost for good, no event swallowed).
NeverStranded ==
  Quiet /\ fsm.global \in {"BalanceMode", "SafeMode"} =>
    /\ Sleeping(timer)
    /\ Step(fsm, "Timeout") # {}

\* When all is quiet, the session of the handler, which decides what messages of the
\* hubs count, is in the state of the machine (Normal and Disconnected leave it).
SessionFollows ==
  Quiet =>
    /\ fsm.global = "SafeMode" => session.state = "SafeMode"
    /\ fsm.balance \in {"InHandshake", "OutHandshake"} => session.state = fsm.balance
    /\ fsm.balance = "Quorum" => session.state = "RepeatHandshake"
    /\ fsm.phase = "Alert"   => session.state = "PhaseAlert"
    /\ fsm.phase = "Data"    => session.state = "PhaseData"
    /\ fsm.phase = "Monitor" => session.state = "PhaseMonitor"

\* When all is quiet, the mode that edge_state repeats to the hubs and the server is
\* the mode of the machine, with the epoch being balanced.  This asks that reads of the
\* epoch do not fail: a BalanceEpochOk of a balance that a disconnection cut takes the next
\* one to its handshake, where the BalanceEpochNotOk of that one is ignored.
ModeAnnounced ==
  Quiet => /\ mode.state = fsm.global
           /\ fsm.global = "BalanceMode" => mode.epoch = session.epoch

\* When all is quiet, heartbeats were asked for in the phases, the normal and the
\* safe mode, at the pace of each, and stopped everywhere else.
HeartbeatsMatch ==
  Quiet => beat = CASE fsm.balance = "Phase"               -> "Phase"
                    [] fsm.global \in {"Normal", "SafeMode"} -> fsm.global
                    [] OTHER                               -> "None"

\* When all is quiet, the machine is disconnected exactly when the last connection
\* event was a disconnection, however fast the broker came and went.
LinkFollowed == Quiet => ((fsm.global = "Disconnected") = (link = "LocalDisconnected"))

\* When all is quiet in the normal mode the watchdog is disarmed: it is idle, or it is
\* deaf and the StopTimer of the balance waits behind its sleep, so that no timer of the
\* balance runs into the next one unless that one comes before the sleep ends.  A Timeout
\* racing the QuorumPhase of the last phase makes it deaf: the Timeout leaves the handshake
\* that follows and its repetition starts a watchdog that runs.  This asks that the tasks
\* are prompt; it is proved for a broker that stays.
NormalDisarmed ==
  Quiet /\ fsm.global = "Normal" =>
    \/ timer = "idle"
    \/ timer = "deaf" /\ timerCmds # << >> /\ timerCmds[Len(timerCmds)] = "StopTimer"

\* No epoch in use, by the session or by a handshake already broadcast, is ahead of the
\* one in the database: a restart at any point reads an epoch that covers them all.
EpochRecorded == \A e \in shouted \cup {session.epoch} : e <= dbEpoch

\* The handshake that opens a balance goes out with an epoch that none was broadcast with
\* before, whatever cut the balances before it and left of them in the channels, and also
\* after a restart.  This asks that reads of the epoch do not fail: a BalanceEpochOk of a
\* balance that was cut takes one whose read failed to its handshake, with the old epoch.
FreshEpoch ==
  spent.read = 0 /\ doing # << >> /\ Head(doing) = OnEntry("OnEntryBalance", "InHandshake") =>
    session.epoch \notin shouted

\* The machine always gets out of the balance and of the safe mode, whatever the hubs
\* answer or fail to: the timeouts and the limit of attempts see to it.
Settles == []<>(fsm.global \in {"Normal", "Disconnected"})

\* A handshake is repeated at most MaxAttempts + 1 times before a phase is entered, though
\* the attempts of a balance that was cut are charged to the next one, and though a count
\* that a late vote asked for may answer, as if it were its own, the check that a Timeout
\* leads to.  This asks that the tasks are prompt: the watchdog of a handshake does not
\* fire before the counts asked for in it are taken.
RepeatsBounded == session.attempts <= MaxAttempts + 1
=============================================================================
