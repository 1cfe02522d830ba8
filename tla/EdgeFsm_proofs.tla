--------------------------- MODULE EdgeFsm_proofs ---------------------------
(* Theorems about the runtime of the general FSM, for every value of the constants. *)
EXTENDS EdgeFsm, SequenceTheorems, TLAPS

-----------------------------------------------------------------------------
(* The machine: what a transition preserves *)

\* The actions that a transition and the entry to a state consist of are actions.
LEMMA ActionTypes ==
  /\ \A a \in {"StopTimer", "CalculateQuorum", "StopSendHeartbeatMessagePhase",
               "StopSendHeartbeatMessageSafeMode", "StopSendHeartbeatMessageNormal",
               "OnEntryNormal", "OnEntrySafeMode", "OnEntryDisconnected"} : Do(a) \in Action
  /\ \A b \in SubStateBalanceMode : OnEntry("OnEntryBalance", b) \in Action
  /\ \A q \in SubStateQuorum : OnEntry("OnEntryQuorum", q) \in Action
  /\ \A p \in SubStatePhase : OnEntry("OnEntryPhase", p) \in Action
BY DEF Do, OnEntry, Action

\* compute_on_entry only pushes actions, whatever the two states.
LEMMA OnEntryTypes ==
  ASSUME NEW old \in FsmState, NEW new \in FsmState
  PROVE  ComputeOnEntry(old, new) \in Seq(Action)
<1>1. ASSUME NEW c \in BOOLEAN, NEW a, c => a \in Action
      PROVE  When(c, a) \in Seq(Action)
  BY <1>1 DEF When
<1>2. ASSUME NEW s \in Seq(Action), NEW t \in Seq(Action)
      PROVE  s \o t \in Seq(Action)
  BY <1>2
<1>3. When(old.balance # new.balance /\ new.balance # None,
           OnEntry("OnEntryBalance", new.balance)) \in Seq(Action)
  BY <1>1, ActionTypes DEF FsmState
<1>4. When(old.quorum # new.quorum /\ new.quorum # None,
           OnEntry("OnEntryQuorum", new.quorum)) \in Seq(Action)
  BY <1>1, ActionTypes DEF FsmState
<1>5. When(old.global # new.global /\ new.global = "Normal", Do("OnEntryNormal")) \in Seq(Action)
  BY <1>1, ActionTypes
<1>6. When(old.global # new.global /\ new.global = "SafeMode", Do("OnEntrySafeMode"))
        \in Seq(Action)
  BY <1>1, ActionTypes
<1>7. When(old.global # new.global /\ new.global = "Disconnected", Do("OnEntryDisconnected"))
        \in Seq(Action)
  BY <1>1, ActionTypes
<1>8. When(old.phase # new.phase /\ new.phase # None,
           OnEntry("OnEntryPhase", new.phase)) \in Seq(Action)
  BY <1>1, ActionTypes DEF FsmState
<1> QED BY <1>2, <1>3, <1>4, <1>5, <1>6, <1>7, <1>8 DEF ComputeOnEntry

\* What every transition of FsmState::step_inner satisfies.
Wellformed(s, t) ==
  /\ t.to \in FsmState
  /\ t.acts \in Seq(Action)
  /\ Hierarchical(s) => Hierarchical(t.to)

\* The fields of a valid transition.
LEMMA ValidFields ==
  ASSUME NEW u, NEW as, NEW t \in Valid(u, as)
  PROVE  t.to = u /\ t.acts = as
<1>1. t = [to |-> u, acts |-> as]
  BY DEF Valid
<1> QED BY <1>1

\* So it is enough to look at the state and the actions a transition is made of.
LEMMA ValidWellformed ==
  ASSUME NEW s, NEW u \in FsmState, NEW as \in Seq(Action),
         Hierarchical(s) => Hierarchical(u), NEW t \in Valid(u, as)
  PROVE  Wellformed(s, t)
<1>1. t.to = u /\ t.acts = as
  BY ValidFields
<1>2. Hierarchical(s) => Hierarchical(t.to)
  BY <1>1, Zenon
<1> QED BY <1>1, <1>2, Zenon DEF Wellformed

\* The vectors of actions the transitions are made of.
LEMMA VectorTypes ==
  /\ << >> \in Seq(Action)
  /\ << Do("StopTimer") >> \in Seq(Action)
  /\ << Do("CalculateQuorum") >> \in Seq(Action)
  /\ << Do("StopSendHeartbeatMessagePhase"), Do("StopTimer") >> \in Seq(Action)
  /\ << Do("StopSendHeartbeatMessageNormal") >> \in Seq(Action)
  /\ << Do("StopSendHeartbeatMessageSafeMode") >> \in Seq(Action)
BY ActionTypes

\* Each handler of domain.rs gives a state of the type and keeps the hierarchy.
LEMMA InnerStep ==
  ASSUME NEW s \in FsmState, NEW e \in Event, NEW t \in StepInner(s, e)
  PROVE  Wellformed(s, t)
<1> USE ValidWellformed, VectorTypes
    DEF Invalid, FsmState, Hierarchical, StateGlobal, SubStateBalanceMode,
        SubStateQuorum, SubStatePhase, None, StopTimerOnly
<1>1. CASE s.global = "Start"
  BY <1>1 DEF StepInner, StepStart
<1>2. CASE s.global = "BalanceMode"
  <2>0. t \in StepBalanceMode(s, e)
    BY <1>2 DEF StepInner
  <2>1. CASE e = "LocalDisconnected"
    BY <2>0, <2>1 DEF StepBalanceMode
  <2>2. CASE e # "LocalDisconnected" /\ s.balance = "InitBalanceMode"
    BY <2>0, <2>2, <1>2 DEF StepBalanceMode, StepInitBalanceMode
  <2>3. CASE e # "LocalDisconnected" /\ s.balance = "InHandshake"
    BY <2>0, <2>3, <1>2 DEF StepBalanceMode, StepInHandshake, ApproveIn
  <2>4. CASE e # "LocalDisconnected" /\ s.balance = "Quorum"
    <3>0. t \in StepQuorum(s, e)
      BY <2>0, <2>4 DEF StepBalanceMode
    <3>1. CASE s.quorum = "CheckQuorumIn"
      BY <3>0, <3>1, <2>4, <1>2 DEF StepQuorum, StepCheckQuorum, ApproveIn
    <3>2. CASE s.quorum = "CheckQuorumOut"
      BY <3>0, <3>2, <2>4, <1>2 DEF StepQuorum, StepCheckQuorum, ApproveOut
    <3>3. CASE s.quorum = "RepeatHandshakeIn"
      BY <3>0, <3>3, <2>4, <1>2 DEF StepQuorum, StepRepeatHandshake, ApproveIn
    <3>4. CASE s.quorum = "RepeatHandshakeOut"
      BY <3>0, <3>4, <2>4, <1>2 DEF StepQuorum, StepRepeatHandshake, ApproveOut
    <3> QED BY <3>0, <3>1, <3>2, <3>3, <3>4 DEF StepQuorum
  <2>5. CASE e # "LocalDisconnected" /\ s.balance = "Phase"
    BY <2>0, <2>5, <1>2 DEF StepBalanceMode, StepPhase
  <2>6. CASE e # "LocalDisconnected" /\ s.balance = "OutHandshake"
    BY <2>0, <2>6, <1>2 DEF StepBalanceMode, StepOutHandshake, ApproveOut
  <2> QED BY <2>0, <2>1, <2>2, <2>3, <2>4, <2>5, <2>6 DEF StepBalanceMode
<1>3. CASE s.global = "SafeMode"
  BY <1>3 DEF StepInner, StepSafeMode
<1>4. CASE s.global = "Normal"
  BY <1>4 DEF StepInner, StepNormal
<1>5. CASE s.global = "Disconnected"
  BY <1>5 DEF StepInner, StepDisconnected
<1> QED BY <1>1, <1>2, <1>3, <1>4, <1>5

\* FsmState::step: the entry actions are added to the transition's.
LEMMA StepWellformed ==
  ASSUME NEW s \in FsmState, NEW e \in Event, NEW t \in Step(s, e)
  PROVE  Wellformed(s, t)
<1>1. PICK u \in StepInner(s, e) : t = [to |-> u.to, acts |-> u.acts \o ComputeOnEntry(s, u.to)]
  BY DEF Step
<1>2. Wellformed(s, u)
  BY InnerStep
<1>3. ComputeOnEntry(s, u.to) \in Seq(Action)
  BY <1>2, OnEntryTypes DEF Wellformed
<1>4. u.acts \o ComputeOnEntry(s, u.to) \in Seq(Action)
  BY <1>2, <1>3 DEF Wellformed
<1> QED BY <1>1, <1>2, <1>4 DEF Wellformed

-----------------------------------------------------------------------------
(* The runtime *)

\* A message put in a channel, or taken out of it.
LEMMA ChannelTypes ==
  ASSUME NEW S, NEW q \in Seq(S)
  PROVE  /\ \A x \in S : Append(q, x) \in Seq(S) /\ << x >> \in Seq(S)
         /\ q # << >> => Head(q) \in S /\ Tail(q) \in Seq(S)
OBVIOUS

\* The messages of the handler are typed as those of their channels.
LEMMA MessageTypes ==
  /\ \A e \in Event : ToFsm(e) \in Message
  /\ \A c \in TimerCommand : ToTimer(c) \in Message
  /\ \A m \in Message : (m.to = "fsm" => m.msg \in Event)
                        /\ (m.to = "timer" => m.msg \in TimerCommand)
BY DEF ToFsm, ToTimer, Message

\* So are the commands of the hubs and of the broker.
LEMMA CommandTypes ==
  /\ \A c \in Command : c.kind \in {"Handshake", "Queue", "QueueSafe"} => c.hub \in Hubs
  /\ \A c \in Command : c.kind = "Handshake" => c.epoch \in Nat
  /\ \A h \in Hubs, e \in Nat : [kind |-> "Handshake", hub |-> h, epoch |-> e] \in Command
  /\ \A h \in Hubs, k \in {"Queue", "QueueSafe"} : [kind |-> k, hub |-> h] \in Command
  /\ \A k \in {"LocalConnected", "LocalDisconnected"} : [kind |-> k] \in Command
BY DEF Command

\* quorum_algorithm answers with an event, whatever the votes.
LEMMA QuorumAlgorithmType ==
  ASSUME NEW s, s.attempts \in Nat
  PROVE  QuorumAlgorithm(s) \in Event
BY BoundsAssumption DEF QuorumAlgorithm, Event

\* handle_transition keeps the types of what it changes, and the hierarchy.
LEMMA HandleTransitionTypes ==
  ASSUME TypeOK, NEW e \in Event, HandleTransition(Step(fsm, e))
  PROVE  /\ fsm' \in FsmState
         /\ held' \in Seq(Seq(Action)) /\ actions' \in Seq(Seq(Action))
         /\ Hierarchy => Hierarchy'
<1>1. CASE Step(fsm, e) = {}
  BY <1>1 DEF HandleTransition, TypeOK, Hierarchy, Hierarchical
<1>2. CASE Step(fsm, e) # {}
  <2>1. PICK t \in Step(fsm, e) :
          /\ fsm' = t.to
          /\ IF Len(actions) < ActionCap
             THEN actions' = Append(actions, t.acts) /\ UNCHANGED held
             ELSE held' = << t.acts >> /\ UNCHANGED actions
    BY <1>2 DEF HandleTransition
  <2>2. Wellformed(fsm, t)
    BY StepWellformed DEF TypeOK
  <2>3. Hierarchy => Hierarchy'
    BY <2>1, <2>2 DEF Wellformed, Hierarchy, Hierarchical
  <2>4. t.to \in FsmState /\ t.acts \in Seq(Action)
    BY <2>2 DEF Wellformed
  <2>5. held \in Seq(Seq(Action)) /\ actions \in Seq(Seq(Action))
    BY DEF TypeOK
  <2>6. held' \in Seq(Seq(Action)) /\ actions' \in Seq(Seq(Action))
    <3> DEFINE Vectors == Seq(Action)
    <3>1. t.acts \in Vectors /\ held \in Seq(Vectors) /\ actions \in Seq(Vectors)
      BY <2>4, <2>5
    <3> HIDE DEF Vectors
    <3>2. held' \in Seq(Vectors) /\ actions' \in Seq(Vectors)
      BY <2>1, <3>1, ChannelTypes
    <3> QED BY <3>2 DEF Vectors
  <2> QED BY <2>1, <2>3, <2>4, <2>6
<1> QED BY <1>1, <1>2

\* The initial state is of the type.
LEMMA InitTypeOK == Init => TypeOK
BY BoundsAssumption
   DEF Init, TypeOK, NewFsmState, FsmState, StateGlobal, SubStateBalanceMode, SubStateQuorum,
       SubStatePhase, None, NewSession, StateOfSession, TimerState, NewMode

\* run_fsm keeps the types.
LEMMA RunFsmTypeOK == TypeOK /\ RunFsm => TypeOK' /\ (Hierarchy => Hierarchy')
<1> SUFFICES ASSUME TypeOK, RunFsm PROVE TypeOK' /\ (Hierarchy => Hierarchy')
  OBVIOUS
<1>1. CASE FsmStart
  <2>1. HandleTransition(Step(fsm, "Start")) /\ "Start" \in Event
    BY <1>1 DEF FsmStart, Event
  <2>2. /\ fsm' \in FsmState /\ held' \in Seq(Seq(Action)) /\ actions' \in Seq(Seq(Action))
        /\ Hierarchy => Hierarchy'
    BY <2>1, HandleTransitionTypes
  <2> QED BY <1>1, <2>2 DEF FsmStart, TypeOK, handlerVars, timerVars, envVars
<1>2. CASE FsmTurn
  <2>1. Head(events) \in Event /\ events' \in Seq(Event)
    BY <1>2, ChannelTypes DEF FsmTurn, TypeOK
  <2>2. /\ fsm' \in FsmState /\ held' \in Seq(Seq(Action)) /\ actions' \in Seq(Seq(Action))
        /\ Hierarchy => Hierarchy'
    BY <1>2, <2>1, HandleTransitionTypes DEF FsmTurn
  <2> QED BY <1>2, <2>1, <2>2 DEF FsmTurn, TypeOK, handlerVars, timerVars, envVars
<1>3. CASE FsmUnblocked
  <2> DEFINE Vectors == Seq(Action)
  <2>1. held \in Seq(Vectors) /\ actions \in Seq(Vectors)
    BY DEF TypeOK
  <2> HIDE DEF Vectors
  <2>2. held' \in Seq(Vectors) /\ actions' \in Seq(Vectors)
    BY <1>3, <2>1, ChannelTypes DEF FsmUnblocked
  <2>3. held' \in Seq(Seq(Action)) /\ actions' \in Seq(Seq(Action))
    BY <2>2 DEF Vectors
  <2>4. Hierarchy => Hierarchy'
    BY <1>3 DEF FsmUnblocked, Hierarchy, Hierarchical
  <2> QED BY <1>3, <2>3, <2>4 DEF FsmUnblocked, TypeOK, handlerVars, timerVars, envVars
<1> QED BY <1>1, <1>2, <1>3 DEF RunFsm

\* The watchdog keeps the types.
LEMMA TimerTypeOK == TypeOK /\ (Timer \/ TimerExpire) => TypeOK'
<1> SUFFICES ASSUME TypeOK, Timer \/ TimerExpire PROVE TypeOK'
  OBVIOUS
<1> USE DEF TypeOK, fsmVars, handlerVars, envVars
<1>1. CASE TimerReceive
  <2>1. Head(timerCmds) \in TimerCommand /\ timerCmds' \in Seq(TimerCommand)
    BY <1>1, ChannelTypes DEF TimerReceive
  <2>2. timer' \in TimerState
    BY <1>1, <2>1 DEF TimerReceive, Listening, Received, TimerCommand, TimerState
  <2> QED BY <1>1, <2>1, <2>2 DEF TimerReceive
<1>2. CASE TimerFire
  <2>1. events' \in Seq(Event) /\ timer' \in TimerState
    BY <1>2, ChannelTypes DEF TimerFire, Event, TimerState
  <2> QED BY <1>2, <2>1 DEF TimerFire
<1>3. CASE TimerExpire
  BY <1>3 DEF TimerExpire, TimerState
<1> QED BY <1>1, <1>2, <1>3 DEF Timer

\* The types of the variables that the handler's turns change.
HandlerTypes ==
  /\ doing \in Seq(Action) /\ outbox \in Seq(Message)
  /\ session \in [state : StateOfSession, epoch : Nat, attempts : Nat,
                  votes : [Hubs -> Nat], empty : SUBSET Hubs]
  /\ mode \in [state : StateGlobal, epoch : Nat]
  /\ beat \in {"None", "Phase", "SafeMode", "Normal"}
  /\ dbEpoch \in Nat /\ shouted \subseteq Nat
  /\ spent \in [hub : Nat, link : Nat, read : Nat, crash : Nat]

\* What a turn of the handler on a command leaves to type.
LEMMA TakeCommandTypes ==
  ASSUME TypeOK, NEW K, TakeCommand(K), HandlerTypes'
  PROVE  TypeOK'
<1>1. commands' \in Seq(Command)
  BY ChannelTypes DEF TypeOK, TakeCommand
<1> QED BY <1>1 DEF TypeOK, HandlerTypes, TakeCommand, fsmVars, timerVars, envVars

\* The branch of the commands keeps the types.
LEMMA CommandsTypeOK ==
  ASSUME TypeOK, HandleHandshake \/ HandleQueue \/ HandleQueueSafe \/ HandleConnection
  PROVE  TypeOK'
<1> DEFINE c == Head(commands)
           Session == [state : StateOfSession, epoch : Nat, attempts : Nat,
                       votes : [Hubs -> Nat], empty : SUBSET Hubs]
<1>a. session \in Session
  BY DEF TypeOK
<1>b. outbox \in Seq(Message)
  BY DEF TypeOK
<1>0. \A K : TakeCommand(K) => c \in Command /\ c.kind \in K
  BY ChannelTypes DEF TypeOK, TakeCommand
<1>1. CASE HandleHandshake
  <2>1. TakeCommand({"Handshake"}) /\ c.hub \in Hubs /\ c.epoch \in Nat
    BY <1>0, <1>1, CommandTypes DEF HandleHandshake
  <2>2. ToFsm("NewMessageHandshake") \in Message
    BY MessageTypes DEF Event
  <2>3. outbox' \in Seq(Message)
    <3>1. outbox' = << ToFsm("NewMessageHandshake") >> \/ outbox' = outbox
      BY <1>1 DEF HandleHandshake
    <3>2. << ToFsm("NewMessageHandshake") >> \in Seq(Message)
      BY <2>2
    <3> QED BY <3>1, <3>2, <1>b
  <2>4. session' = session \/ session' = [session EXCEPT !.votes[c.hub] = c.epoch]
    BY <1>1 DEF HandleHandshake
  <2>5. [session.votes EXCEPT ![c.hub] = c.epoch] \in [Hubs -> Nat]
    BY <2>1 DEF TypeOK
  <2>6. session' \in Session
    BY <2>4, <2>5, <1>a
  <2>7. UNCHANGED << doing, mode, beat, dbEpoch, shouted, spent >>
    BY <2>1 DEF TakeCommand, envVars
  <2>8. HandlerTypes'
    BY <2>3, <2>6, <2>7 DEF HandlerTypes, TypeOK
  <2> QED BY <2>1, <2>8, TakeCommandTypes
<1>2. ASSUME NEW open, NEW threshold, NEW event \in Event, NEW K,
             TakeCommand(K), K \subseteq {"Queue", "QueueSafe"},
             CountEmpty(open, threshold, event)
      PROVE  TypeOK'
  <2>1. c.hub \in Hubs
    BY <1>0, <1>2, CommandTypes
  <2>2. ToFsm(event) \in Message /\ ToTimer("StopTimer") \in Message
    BY MessageTypes DEF TimerCommand
  <2>3. outbox' \in Seq(Message)
    <3>1. \/ outbox' = << ToFsm(event), ToTimer("StopTimer") >>
          \/ outbox' = << >>
          \/ outbox' = outbox
      BY <1>2 DEF CountEmpty
    <3>2. << ToFsm(event), ToTimer("StopTimer") >> \in Seq(Message) /\ << >> \in Seq(Message)
      BY <2>2
    <3> QED BY <3>1, <3>2, <1>b
  <2>4. session' \in Session
    <3>1. session.empty \cup {c.hub} \in SUBSET Hubs
      BY <1>a, <2>1
    <3>2. \/ session' = session
          \/ session' = [session EXCEPT !.empty = session.empty \cup {c.hub}]
      BY <1>2 DEF CountEmpty
    <3> QED BY <1>a, <3>1, <3>2
  <2>5. UNCHANGED << doing, mode, beat, dbEpoch, shouted, spent >>
    BY <1>2 DEF TakeCommand, envVars
  <2>6. HandlerTypes'
    BY <2>3, <2>4, <2>5 DEF HandlerTypes, TypeOK
  <2> QED BY <1>2, <2>6, TakeCommandTypes
<1>3. CASE HandleQueue
  BY <1>2, <1>3 DEF HandleQueue, Event
<1>4. CASE HandleQueueSafe
  BY <1>2, <1>4 DEF HandleQueueSafe, Event
<1>5. CASE HandleConnection
  <2>1. TakeCommand({"LocalConnected", "LocalDisconnected"})
    BY <1>5 DEF HandleConnection
  <2>2. c.kind \in Event
    <3>1. c.kind \in {"LocalConnected", "LocalDisconnected"}
      BY <1>0, <2>1
    <3> QED BY <3>1 DEF Event
  <2>3. outbox' = << ToFsm(c.kind) >> /\ session' = session
    BY <1>5 DEF HandleConnection
  <2>4. ToFsm(c.kind) \in Message
    BY <2>2, MessageTypes
  <2>5. outbox' \in Seq(Message)
    BY <2>3, <2>4
  <2>6. UNCHANGED << doing, mode, beat, dbEpoch, shouted, spent >>
    BY <2>1 DEF TakeCommand, envVars
  <2>7. HandlerTypes'
    BY <2>3, <2>5, <2>6 DEF HandlerTypes, TypeOK
  <2> QED BY <2>1, <2>7, TakeCommandTypes
<1> QED BY <1>1, <1>3, <1>4, <1>5

\* The rest of the handler's loop keeps the types.
LEMMA LoopTypeOK ==
  ASSUME TypeOK, TakeActions \/ HandlerSend
  PROVE  TypeOK'
<1>1. CASE TakeActions
  <2> DEFINE Vectors == Seq(Action)
  <2>1. actions \in Seq(Vectors)
    BY DEF TypeOK
  <2> HIDE DEF Vectors
  <2>2. doing' \in Vectors /\ actions' \in Seq(Vectors)
    BY <1>1, <2>1, ChannelTypes DEF TakeActions
  <2>3. doing' \in Seq(Action) /\ actions' \in Seq(Seq(Action))
    BY <2>2 DEF Vectors
  <2> QED BY <1>1, <2>3 DEF TakeActions, TypeOK, fsmVars, timerVars, envVars
<1>2. CASE HandlerSend
  <2>1. outbox \in Seq(Message) /\ outbox # << >> /\ outbox' = Tail(outbox)
    BY <1>2 DEF HandlerSend, TypeOK
  <2>2. Head(outbox) \in Message /\ outbox' \in Seq(Message)
    BY <2>1, ChannelTypes
  <2>3. events \in Seq(Event) /\ timerCmds \in Seq(TimerCommand)
    BY DEF TypeOK
  <2>4. events' \in Seq(Event) /\ timerCmds' \in Seq(TimerCommand)
    BY <1>2, <2>2, <2>3, MessageTypes, ChannelTypes DEF HandlerSend
  <2> QED BY <1>2, <2>2, <2>4 DEF HandlerSend, TypeOK, fsmVars, timerVars, envVars
<1> QED BY <1>1, <1>2

\* What the execution of an action leaves to type.
LEMMA PerformTypes ==
  ASSUME TypeOK, NEW a, Perform(a),
         outbox' \in Seq(Message),
         session' \in [state : StateOfSession, epoch : Nat, attempts : Nat,
                       votes : [Hubs -> Nat], empty : SUBSET Hubs],
         mode' \in [state : StateGlobal, epoch : Nat],
         beat' \in {"None", "Phase", "SafeMode", "Normal"},
         dbEpoch' \in Nat, shouted' \subseteq Nat,
         spent' \in [hub : Nat, link : Nat, read : Nat, crash : Nat]
  PROVE  TypeOK'
<1>1. doing' \in Seq(Action)
  BY ChannelTypes DEF Perform, TypeOK
<1> QED BY <1>1 DEF TypeOK, Perform, fsmVars, timerVars

\* The execution of an action keeps the types.
LEMMA HandleActionTypeOK ==
  ASSUME TypeOK, HandleAction
  PROVE  TypeOK'
<1> DEFINE Session == [state : StateOfSession, epoch : Nat, attempts : Nat,
                       votes : [Hubs -> Nat], empty : SUBSET Hubs]
<1>a. /\ session \in Session /\ outbox \in Seq(Message)
      /\ mode \in [state : StateGlobal, epoch : Nat]
      /\ beat \in {"None", "Phase", "SafeMode", "Normal"}
      /\ dbEpoch \in Nat /\ shouted \subseteq Nat
      /\ spent \in [hub : Nat, link : Nat, read : Nat, crash : Nat]
  BY DEF TypeOK
<1>b. \A e \in Event : << ToFsm(e) >> \in Seq(Message)
  BY MessageTypes
<1>c. \A c \in TimerCommand : << ToTimer(c) >> \in Seq(Message)
  BY MessageTypes
<1>d. QuorumAlgorithm(session) \in Event
  BY <1>a, QuorumAlgorithmType
<1>e. (session.epoch \in Nat) /\ (session.attempts \in Nat)
  BY <1>a
<1>1. CASE EnterInitBalanceMode
  <2>1. PICK x : x = OnEntry("OnEntryBalance", "InitBalanceMode") /\ Perform(x)
    BY <1>1 DEF EnterInitBalanceMode
  <2>2. session' \in Session /\ dbEpoch' \in Nat /\ mode' \in [state : StateGlobal, epoch : Nat]
    <3>1. /\ \/ session' = [session EXCEPT !.epoch = dbEpoch + 1]
             \/ session' = session
          /\ dbEpoch' = dbEpoch + 1 \/ dbEpoch' = dbEpoch
          /\ mode' = [state |-> "BalanceMode", epoch |-> dbEpoch + 1] \/ mode' = mode
      BY <1>1 DEF EnterInitBalanceMode
    <3>2. dbEpoch + 1 \in Nat /\ "BalanceMode" \in StateGlobal
      BY <1>a DEF StateGlobal
    <3>3. session' \in Session
      <4>1. [session EXCEPT !.epoch = dbEpoch + 1] \in Session
        BY <1>a, <3>2
      <4> QED BY <3>1, <4>1, <1>a
    <3>4. mode' \in [state : StateGlobal, epoch : Nat]
      BY <3>1, <3>2, <1>a
    <3>5. dbEpoch' \in Nat
      BY <3>1, <3>2, <1>a
    <3> QED BY <3>3, <3>4, <3>5
  <2>3. outbox' \in Seq(Message)
    BY <1>1, <1>b DEF EnterInitBalanceMode, Event
  <2>4. spent' \in [hub : Nat, link : Nat, read : Nat, crash : Nat]
    BY <1>1, <1>a DEF EnterInitBalanceMode
  <2>5. beat' = beat /\ shouted' = shouted
    BY <1>1 DEF EnterInitBalanceMode
  <2> QED BY <2>1, <2>2, <2>3, <2>4, <2>5, <1>a, PerformTypes
<1>2. CASE EnterHandshake
  <2>1. PICK b \in {"InHandshake", "OutHandshake"} :
          Perform(OnEntry("OnEntryBalance", b)) /\ session' = [session EXCEPT !.state = b]
    BY <1>2 DEF EnterHandshake
  <2>2. session' \in Session
    BY <2>1, <1>a DEF StateOfSession
  <2>3. outbox' \in Seq(Message) /\ shouted' \subseteq Nat
    BY <1>2, <1>a, <1>c, <1>e DEF EnterHandshake, TimerCommand
  <2>4. UNCHANGED << mode, beat, dbEpoch, spent >>
    BY <1>2 DEF EnterHandshake
  <2> QED BY <2>1, <2>2, <2>3, <2>4, <1>a, PerformTypes
<1>3. CASE EnterCheckQuorum
  <2>1. PICK q \in {"CheckQuorumIn", "CheckQuorumOut"} : Perform(OnEntry("OnEntryQuorum", q))
    BY <1>3 DEF EnterCheckQuorum
  <2>2. session' \in Session
    BY <1>3, <1>a DEF EnterCheckQuorum, StateOfSession
  <2>3. outbox' \in Seq(Message)
    BY <1>3, <1>b, <1>d DEF EnterCheckQuorum
  <2>4. UNCHANGED << mode, beat, dbEpoch, shouted, spent >>
    BY <1>3 DEF EnterCheckQuorum
  <2> QED BY <2>1, <2>2, <2>3, <2>4, <1>a, PerformTypes
<1>4. CASE EnterRepeatHandshake
  <2>1. PICK q \in {"RepeatHandshakeIn", "RepeatHandshakeOut"} :
          Perform(OnEntry("OnEntryQuorum", q))
    BY <1>4 DEF EnterRepeatHandshake, RepeatHandshake
  <2>2. session' \in Session
    <3>1. session' = [session EXCEPT !.state = "RepeatHandshake",
                                     !.attempts = session.attempts + 1,
                                     !.votes = [h \in Hubs |-> 0]]
      BY <1>4 DEF EnterRepeatHandshake, RepeatHandshake
    <3>2. /\ session.attempts + 1 \in Nat
          /\ [h \in Hubs |-> 0] \in [Hubs -> Nat] /\ "RepeatHandshake" \in StateOfSession
      BY <1>e DEF StateOfSession
    <3> QED BY <3>1, <3>2, <1>a
  <2>3. outbox' \in Seq(Message) /\ shouted' \subseteq Nat
    BY <1>4, <1>a, <1>c, <1>e DEF EnterRepeatHandshake, RepeatHandshake, TimerCommand
  <2>4. UNCHANGED << mode, beat, dbEpoch, spent >>
    BY <1>4 DEF EnterRepeatHandshake, RepeatHandshake
  <2> QED BY <2>1, <2>2, <2>3, <2>4, <1>a, PerformTypes
<1>5. CASE EnterPhase
  <2>1. PICK p \in SubStatePhase :
          /\ Perform(OnEntry("OnEntryPhase", p))
          /\ session' = [session EXCEPT !.state = CASE p = "Alert"   -> "PhaseAlert"
                                                    [] p = "Data"    -> "PhaseData"
                                                    [] p = "Monitor" -> "PhaseMonitor",
                                        !.attempts = 0, !.votes = [h \in Hubs |-> 0],
                                        !.empty = {}]
          /\ beat' = IF p = "Alert" THEN "Phase" ELSE beat
    BY <1>5 DEF EnterPhase
  <2>2. session' \in Session
    BY <2>1, <1>a DEF StateOfSession, SubStatePhase
  <2>3. outbox' \in Seq(Message)
    BY <1>5, <1>c DEF EnterPhase, TimerCommand
  <2>4. UNCHANGED << mode, dbEpoch, shouted, spent >>
    BY <1>5 DEF EnterPhase
  <2>5. beat' \in {"None", "Phase", "SafeMode", "Normal"}
    BY <2>1, <1>a
  <2> QED BY <2>1, <2>2, <2>3, <2>4, <2>5, <1>a, PerformTypes
<1>6. CASE EnterNormal
  <2>1. Perform(Do("OnEntryNormal")) /\ UNCHANGED << outbox, session, dbEpoch, shouted, spent >>
    BY <1>6 DEF EnterNormal
  <2>2. mode' \in [state : StateGlobal, epoch : Nat] /\ beat' = "Normal"
    BY <1>6 DEF EnterNormal, StateGlobal
  <2> QED BY <2>1, <2>2, <1>a, PerformTypes
<1>7. CASE EnterSafeMode
  <2>1. Perform(Do("OnEntrySafeMode")) /\ UNCHANGED << dbEpoch, shouted, spent >>
    BY <1>7 DEF EnterSafeMode
  <2>2. mode' \in [state : StateGlobal, epoch : Nat] /\ beat' = "SafeMode"
    BY <1>7 DEF EnterSafeMode, StateGlobal
  <2>3. session' \in Session
    BY <1>7, <1>a DEF EnterSafeMode, StateOfSession
  <2>4. outbox' \in Seq(Message)
    BY <1>7, <1>c DEF EnterSafeMode, TimerCommand
  <2> QED BY <2>1, <2>2, <2>3, <2>4, <1>a, PerformTypes
<1>8. CASE EnterDisconnected
  <2>1. /\ Perform(Do("OnEntryDisconnected"))
        /\ UNCHANGED << outbox, session, beat, dbEpoch, shouted, spent >>
    BY <1>8 DEF EnterDisconnected
  <2>2. mode' \in [state : StateGlobal, epoch : Nat]
    BY <1>8 DEF EnterDisconnected, StateGlobal
  <2> QED BY <2>1, <2>2, <1>a, PerformTypes
<1>9. CASE CalculateQuorum
  <2>1. /\ Perform(Do("CalculateQuorum"))
        /\ UNCHANGED << session, mode, beat, dbEpoch, shouted, spent >>
    BY <1>9 DEF CalculateQuorum
  <2>2. outbox' \in Seq(Message)
    BY <1>9, <1>b, <1>d DEF CalculateQuorum
  <2> QED BY <2>1, <2>2, <1>a, PerformTypes
<1>10. CASE StopTimer
  <2>1. /\ Perform(Do("StopTimer"))
        /\ UNCHANGED << session, mode, beat, dbEpoch, shouted, spent >>
    BY <1>10 DEF StopTimer
  <2>2. outbox' \in Seq(Message)
    BY <1>10, <1>c DEF StopTimer, TimerCommand
  <2> QED BY <2>1, <2>2, <1>a, PerformTypes
<1>11. CASE StopHeartbeats
  <2>1. PICK x : Perform(Do(x))
    BY <1>11 DEF StopHeartbeats
  <2>2. beat' = "None" /\ UNCHANGED << outbox, session, mode, dbEpoch, shouted, spent >>
    BY <1>11 DEF StopHeartbeats
  <2> QED BY <2>1, <2>2, <1>a, PerformTypes
<1>12. CASE SkipAction
  <2>1. PICK b : Perform(OnEntry("OnEntryBalance", b))
    BY <1>12 DEF SkipAction
  <2>2. UNCHANGED << outbox, session, mode, beat, dbEpoch, shouted, spent >>
    BY <1>12 DEF SkipAction
  <2> QED BY <2>1, <2>2, <1>a, PerformTypes
<1> QED BY <1>1, <1>2, <1>3, <1>4, <1>5, <1>6, <1>7, <1>8, <1>9, <1>10, <1>11, <1>12
        DEF HandleAction

\* What a delivery leaves to type.
LEMMA DeliverTypes ==
  ASSUME TypeOK, NEW c \in Command, Deliver(c),
         link' \in {"Unknown", "LocalConnected", "LocalDisconnected"},
         spent' \in [hub : Nat, link : Nat, read : Nat, crash : Nat]
  PROVE  TypeOK'
<1>1. commands' \in Seq(Command)
  BY ChannelTypes DEF Deliver, TypeOK
<1> QED BY <1>1 DEF TypeOK, Deliver, fsmVars, handlerVars, timerVars

\* Hubs, broker, topology and restarts keep the types.
LEMMA EnvironmentTypeOK ==
  ASSUME TypeOK, Environment
  PROVE  TypeOK'
<1>a. /\ spent \in [hub : Nat, link : Nat, read : Nat, crash : Nat] /\ shouted \subseteq Nat
      /\ link \in {"Unknown", "LocalConnected", "LocalDisconnected"}
  BY DEF TypeOK
<1>1. CASE HubMessage
  <2>1. spent' = [spent EXCEPT !.hub = @ + 1] /\ link' = link
    BY <1>1 DEF HubMessage
  <2>2. spent' \in [hub : Nat, link : Nat, read : Nat, crash : Nat]
    BY <2>1, <1>a
  <2>3. PICK h \in Hubs :
          \/ \E e \in shouted : Deliver([kind |-> "Handshake", hub |-> h, epoch |-> e])
          \/ \E k \in {"Queue", "QueueSafe"} : Deliver([kind |-> k, hub |-> h])
    BY <1>1 DEF HubMessage
  <2>4. PICK c \in Command : Deliver(c)
    <3>1. CASE \E e \in shouted : Deliver([kind |-> "Handshake", hub |-> h, epoch |-> e])
      BY <3>1, <1>a, CommandTypes
    <3>2. CASE \E k \in {"Queue", "QueueSafe"} : Deliver([kind |-> k, hub |-> h])
      BY <3>2, CommandTypes
    <3> QED BY <2>3, <3>1, <3>2
  <2> QED BY <2>1, <2>2, <2>4, <1>a, DeliverTypes
<1>2. CASE LinkEvent
  <2>1. spent' = [spent EXCEPT !.link = @ + 1]
    BY <1>2 DEF LinkEvent
  <2>2. spent' \in [hub : Nat, link : Nat, read : Nat, crash : Nat]
    BY <2>1, <1>a
  <2>3. PICK k \in {"LocalConnected", "LocalDisconnected"} :
          link' = k /\ Deliver([kind |-> k])
    BY <1>2 DEF LinkEvent
  <2>4. [kind |-> k] \in Command
    BY CommandTypes
  <2> QED BY <2>2, <2>3, <2>4, DeliverTypes
<1>3. CASE TopologyChange
  BY <1>3 DEF TopologyChange, TypeOK, fsmVars, handlerVars, timerVars
<1>4. CASE Crash
  <2>1. spent' \in [hub : Nat, link : Nat, read : Nat, crash : Nat]
    BY <1>4, <1>a DEF Crash
  <2>2. fsm' \in FsmState
    BY <1>4 DEF Crash, NewFsmState, FsmState, StateGlobal, SubStateBalanceMode,
                SubStateQuorum, SubStatePhase, None
  <2>3. session' \in [state : StateOfSession, epoch : Nat, attempts : Nat,
                      votes : [Hubs -> Nat], empty : SUBSET Hubs]
    BY <1>4 DEF Crash, NewSession, StateOfSession
  <2>4. mode' \in [state : StateGlobal, epoch : Nat] /\ timer' \in TimerState
    BY <1>4 DEF Crash, NewMode, StateGlobal, TimerState
  <2>5. /\ events' = << >> /\ held' = << >> /\ actions' = << >> /\ doing' = << >>
        /\ outbox' = << >> /\ commands' = << >> /\ timerCmds' = << >>
        /\ beat' = "None" /\ link' = "Unknown"
        /\ UNCHANGED << totalHubs, dbEpoch, shouted >>
    BY <1>4 DEF Crash
  <2>6. \A S : << >> \in Seq(S)
    OBVIOUS
  <2>7. /\ events' \in Seq(Event) /\ held' \in Seq(Seq(Action))
        /\ actions' \in Seq(Seq(Action)) /\ doing' \in Seq(Action)
        /\ outbox' \in Seq(Message) /\ commands' \in Seq(Command)
        /\ timerCmds' \in Seq(TimerCommand)
    BY <2>5, <2>6, Zenon
  <2>8. /\ beat' \in {"None", "Phase", "SafeMode", "Normal"}
        /\ link' \in {"Unknown", "LocalConnected", "LocalDisconnected"}
        /\ totalHubs' \in HubCounts /\ dbEpoch' \in Nat /\ shouted' \subseteq Nat
    BY <2>5 DEF TypeOK
  <2> QED BY <2>1, <2>2, <2>3, <2>4, <2>7, <2>8 DEF TypeOK
<1> QED BY <1>1, <1>2, <1>3, <1>4 DEF Environment

\* Every step of the system keeps the types.
LEMMA NextTypeOK == TypeOK /\ [Next]_vars => TypeOK'
<1> SUFFICES ASSUME TypeOK, [Next]_vars PROVE TypeOK'
  OBVIOUS
<1>1. CASE RunFsm
  BY <1>1, RunFsmTypeOK
<1>2. CASE TakeActions \/ HandlerSend
  BY <1>2, LoopTypeOK
<1>3. CASE HandleHandshake \/ HandleQueue \/ HandleQueueSafe \/ HandleConnection
  BY <1>3, CommandsTypeOK
<1>4. CASE HandleAction
  BY <1>4, HandleActionTypeOK
<1>5. CASE Timer \/ TimerExpire
  BY <1>5, TimerTypeOK
<1>6. CASE Environment
  BY <1>6, EnvironmentTypeOK
<1>7. CASE UNCHANGED vars
  BY <1>7 DEF vars, TypeOK
<1> QED BY <1>1, <1>2, <1>3, <1>4, <1>5, <1>6, <1>7 DEF Next, Handler

\* In every reachable state every channel, task and variable holds what it may hold:
\* in particular no message is ever in the channel of the other task.
THEOREM TypeCorrect == Spec => []TypeOK
<1>1. Init => TypeOK
  BY InitTypeOK
<1>2. TypeOK /\ [Next]_vars => TypeOK'
  BY NextTypeOK
<1> QED BY <1>1, <1>2, PTL DEF Spec
-----------------------------------------------------------------------------
(* The hierarchy of the states *)

\* Only run_fsm and a restart write the state.
LEMMA FsmUnchanged ==
  ASSUME [Next]_vars, ~RunFsm, ~Crash
  PROVE  fsm' = fsm
<1>1. CASE TakeActions
  BY <1>1 DEF TakeActions, fsmVars
<1>2. CASE HandleHandshake \/ HandleQueue \/ HandleQueueSafe \/ HandleConnection
  BY <1>2 DEF HandleHandshake, HandleQueue, HandleQueueSafe, HandleConnection, TakeCommand,
              fsmVars
<1>3. CASE HandleAction
  <2>1. ASSUME NEW a, Perform(a) PROVE fsm' = fsm
    BY <2>1 DEF Perform, fsmVars
  <2> QED BY <1>3, <2>1
          DEF HandleAction, EnterInitBalanceMode, EnterHandshake, EnterCheckQuorum,
              EnterRepeatHandshake, RepeatHandshake, EnterPhase, EnterNormal, EnterSafeMode,
              EnterDisconnected, CalculateQuorum, StopTimer, StopHeartbeats, SkipAction
<1>4. CASE HandlerSend
  BY <1>4 DEF HandlerSend, fsmVars
<1>5. CASE Timer \/ TimerExpire
  BY <1>5 DEF Timer, TimerReceive, TimerFire, TimerExpire, fsmVars
<1>6. CASE HubMessage
  BY <1>6 DEF HubMessage, Deliver, fsmVars
<1>7. CASE LinkEvent
  BY <1>7 DEF LinkEvent, Deliver, fsmVars
<1>8. CASE TopologyChange
  BY <1>8 DEF TopologyChange, fsmVars
<1>9. CASE UNCHANGED vars
  BY <1>9 DEF vars
<1> QED BY <1>1, <1>2, <1>3, <1>4, <1>5, <1>6, <1>7, <1>8, <1>9
        DEF Next, Handler, Environment

\* domain.rs: "if a parent state is not active, its children must be None", whatever
\* the events, the timeouts and their order.
THEOREM HierarchyKept == Spec => []Hierarchy
<1>1. Init => Hierarchy
  BY DEF Init, Hierarchy, Hierarchical, NewFsmState, None
<1>2. TypeOK /\ Hierarchy /\ [Next]_vars => Hierarchy'
  <2> SUFFICES ASSUME TypeOK, Hierarchy, [Next]_vars PROVE Hierarchy'
    OBVIOUS
  <2>1. CASE RunFsm
    BY <2>1, RunFsmTypeOK
  <2>2. CASE Crash
    BY <2>2 DEF Crash, Hierarchy, Hierarchical, NewFsmState, None
  <2>3. CASE ~RunFsm /\ ~Crash
    BY <2>3, FsmUnchanged DEF Hierarchy
  <2> QED BY <2>1, <2>2, <2>3
<1> QED BY <1>1, <1>2, TypeCorrect, PTL DEF Spec
-----------------------------------------------------------------------------
(* The epochs *)

\* Only the entry to the balance mode writes the epoch of the database, only it and a
\* restart write the session's, and the handshakes broadcast the session's.
LEMMA EpochSteps ==
  ASSUME TypeOK, [Next]_vars, ~EnterInitBalanceMode, ~Crash
  PROVE  /\ dbEpoch' = dbEpoch
         /\ session'.epoch = session.epoch
         /\ shouted' \subseteq shouted \cup {session.epoch}
         /\ mode' = mode \/ mode'.state # "BalanceMode"
<1>a. session \in [state : StateOfSession, epoch : Nat, attempts : Nat,
                   votes : [Hubs -> Nat], empty : SUBSET Hubs]
  BY DEF TypeOK
<1>1. CASE UNCHANGED << session, mode, dbEpoch, shouted >>
  BY <1>1
<1>2. CASE RunFsm \/ TakeActions \/ Timer \/ TimerExpire
  BY <1>1, <1>2 DEF RunFsm, FsmStart, FsmTurn, FsmUnblocked, TakeActions, Timer, TimerReceive,
                    TimerFire, TimerExpire, handlerVars
<1>3. CASE HandleHandshake \/ HandleQueue \/ HandleQueueSafe \/ HandleConnection
  <2>1. \E K : TakeCommand(K)
    BY <1>3 DEF HandleHandshake, HandleQueue, HandleQueueSafe, HandleConnection
  <2>2. UNCHANGED << mode, dbEpoch, shouted >>
    BY <2>1 DEF TakeCommand
  <2>3. \/ session' = session
        \/ session' = [session EXCEPT !.votes[Head(commands).hub] = Head(commands).epoch]
        \/ session' = [session EXCEPT !.empty = @ \cup {Head(commands).hub}]
    BY <1>3 DEF HandleHandshake, HandleQueue, HandleQueueSafe, HandleConnection, CountEmpty
  <2>4. session'.epoch = session.epoch
    BY <2>3, <1>a
  <2> QED BY <2>2, <2>4
<1>4. CASE EnterHandshake
  BY <1>4, <1>a DEF EnterHandshake
<1>5. CASE EnterCheckQuorum
  BY <1>5, <1>a DEF EnterCheckQuorum
<1>6. CASE EnterRepeatHandshake
  BY <1>6, <1>a DEF EnterRepeatHandshake, RepeatHandshake
<1>7. CASE EnterPhase
  BY <1>7, <1>a DEF EnterPhase
<1>8. CASE EnterNormal \/ EnterSafeMode \/ EnterDisconnected
  <2>1. /\ UNCHANGED << dbEpoch, shouted >>
        /\ session' = session \/ session' = [session EXCEPT !.state = "SafeMode", !.empty = {}]
    BY <1>8 DEF EnterNormal, EnterSafeMode, EnterDisconnected
  <2>2. \E m \in {"Normal", "SafeMode", "Disconnected"} : mode' = [state |-> m, epoch |-> 0]
    BY <1>8 DEF EnterNormal, EnterSafeMode, EnterDisconnected
  <2>3. session'.epoch = session.epoch
    BY <2>1, <1>a
  <2>4. mode'.state # "BalanceMode"
    BY <2>2
  <2> QED BY <2>1, <2>3, <2>4
<1>9. CASE CalculateQuorum \/ StopTimer \/ StopHeartbeats \/ SkipAction
  BY <1>9, <1>a DEF CalculateQuorum, StopTimer, StopHeartbeats, SkipAction
<1>10. CASE HandlerSend
  BY <1>10, <1>1 DEF HandlerSend
<1>11. CASE HubMessage \/ LinkEvent \/ TopologyChange
  BY <1>11, <1>1 DEF HubMessage, LinkEvent, TopologyChange, Deliver, handlerVars
<1>12. CASE UNCHANGED vars
  BY <1>12, <1>1 DEF vars
<1> QED BY <1>2, <1>3, <1>4, <1>5, <1>6, <1>7, <1>8, <1>9, <1>10, <1>11, <1>12
        DEF Next, Handler, HandleAction, Environment

\* What the entry to the balance mode does to the epochs when the INSERT works.
LEMMA EnterInitBalanceModeEpochs ==
  ASSUME SaveMayFail = FALSE, TypeOK, EnterInitBalanceMode
  PROVE  /\ shouted' = shouted
         /\ \/ /\ dbEpoch' = dbEpoch + 1 /\ session'.epoch = dbEpoch + 1
               /\ mode' = [state |-> "BalanceMode", epoch |-> dbEpoch + 1]
            \/ dbEpoch' = dbEpoch /\ session'.epoch = session.epoch /\ mode' = mode
<1>1. shouted' = shouted
  BY DEF EnterInitBalanceMode
<1>2. \/ /\ dbEpoch' = dbEpoch + 1
         /\ session' = [session EXCEPT !.epoch = dbEpoch + 1]
         /\ mode' = [state |-> "BalanceMode", epoch |-> dbEpoch + 1]
      \/ /\ dbEpoch' = dbEpoch /\ mode' = mode
         /\ session' = session
  BY DEF EnterInitBalanceMode
<1>3. session \in [state : StateOfSession, epoch : Nat, attempts : Nat,
                   votes : [Hubs -> Nat], empty : SUBSET Hubs]
  BY DEF TypeOK
<1> QED BY <1>1, <1>2, <1>3

\* When every INSERT of the epoch works, the database is never behind the epochs in
\* use, whatever is lost in a restart.
THEOREM EpochsRecorded ==
  ASSUME SaveMayFail = FALSE
  PROVE  Spec => []EpochRecorded
<1>1. Init => EpochRecorded
  BY DEF Init, EpochRecorded, NewSession
<1>2. TypeOK /\ EpochRecorded /\ [Next]_vars => EpochRecorded'
  <2> SUFFICES ASSUME TypeOK, EpochRecorded, [Next]_vars PROVE EpochRecorded'
    OBVIOUS
  <2>0. dbEpoch \in Nat /\ shouted \subseteq Nat /\ session.epoch \in Nat
    BY DEF TypeOK
  <2>1. CASE EnterInitBalanceMode
    <3>1. /\ shouted' = shouted
          /\ \/ dbEpoch' = dbEpoch + 1 /\ session'.epoch = dbEpoch + 1
             \/ dbEpoch' = dbEpoch /\ session'.epoch = session.epoch
      BY <2>1, EnterInitBalanceModeEpochs
    <3>2. \A e \in shouted : e \in Nat /\ e <= dbEpoch
      BY <2>0 DEF EpochRecorded
    <3>3. session.epoch <= dbEpoch
      BY DEF EpochRecorded
    <3> QED BY <2>0, <3>1, <3>2, <3>3 DEF EpochRecorded
  <2>2. CASE Crash
    BY <2>0, <2>2 DEF Crash, NewSession, EpochRecorded
  <2>3. CASE ~EnterInitBalanceMode /\ ~Crash
    BY <2>0, <2>3, EpochSteps DEF EpochRecorded
  <2> QED BY <2>1, <2>2, <2>3
<1> QED BY <1>1, <1>2, TypeCorrect, PTL DEF Spec
=============================================================================
