----------------------- MODULE HeartbeatMonitor_proofs -----------------------
(***************************************************************************)
(* Theorems about the heartbeat monitor, for every capacity of its         *)
(* channels and every number of beats.                                     *)
(***************************************************************************)
EXTENDS HeartbeatMonitor, SequenceLemmas

LEMMA Bounds == BeatCap \in Nat /\ EventCap \in Nat /\ ActionCap \in Nat /\ TimerCap \in Nat /\ MaxBeats \in Nat
BY CapsAssumption
-----------------------------------------------------------------------------
(* The transitions of the machine *)

LEMMA ActionTypes ==
  /\ \A old, new \in Status : SendStatusConditional(old, new) \in Action
  /\ \A state \in State : OnEntry(state) \in Action
  /\ StopTimer \in Action
BY DEF Action, SendStatusConditional, OnEntry, StopTimer

\* The vector of a transition, as the code writes it and the handler gets it.
LEMMA VectorIs ==
  ASSUME NEW a \in Action, NEW b \in Action, NEW c \in Action
  PROVE  /\ Append(<< a >> \o << b >>, c) = << a, b, c >>
         /\ Append(<< a >> \o << >>, c) = << a, c >>
         /\ Append(<< a >>, c) = << a, c >> /\ Append(<< >>, c) = << c >>
<1>1. << a >> \in Seq(Action) /\ << >> \in Seq(Action)
  OBVIOUS
<1>2. << a >> \o << >> = << a >> /\ << a >> \o << b >> = Append(<< a >>, b)
  BY <1>1, BlockedSend
<1>3. Append(<< >>, c) = << c >> /\ Append(<< a >>, c) = << a, c >> /\ Append(<< a >>, b) = << a, b >>
      /\ Append(<< a, b >>, c) = << a, b, c >>
  BY AppendIsList
<1> QED BY <1>2, <1>3, Zenon

\* The five kinds of transitions.
Revived(t)  == /\ fsm.state = "StartingWait"
               /\ t.to = [state |-> "ItsAlive", old_status |-> "Connected", status |-> "Connected"]
               /\ t.acts = << SendStatusConditional(fsm.old_status, "Connected"), StopTimer, OnEntry("ItsAlive") >>
Warned(t)   == /\ fsm.state \in {"StartingWait", "ItsAlive"}
               /\ t.to = [fsm EXCEPT !.state = "NotHeartbeatYet"] /\ t.acts = << OnEntry("NotHeartbeatYet") >>
Beaten(t)   == /\ fsm.state \in {"ItsAlive", "NotHeartbeatYet"}
               /\ t.to = [fsm EXCEPT !.state = "StartingWait"] /\ t.acts = << StopTimer, OnEntry("StartingWait") >>
Lost(t)     == /\ fsm.state = "NotHeartbeatYet"
               /\ t.to = [state |-> "DeadServer", old_status |-> "Disconnected", status |-> "Disconnected"]
               /\ t.acts = << SendStatusConditional(fsm.old_status, "Disconnected"), OnEntry("DeadServer") >>
Returned(t) == /\ fsm.state = "DeadServer"
               /\ t.to = [fsm EXCEPT !.state = "StartingWait"] /\ t.acts = << OnEntry("StartingWait") >>

LEMMA ToIs ==
  ASSUME fsm \in Fsm, NEW event, NEW state \in State, NEW acts \in {<< >>, << StopTimer >>},
         StepInner(event) = To(state, acts), NEW t \in Step(event)
  PROVE  /\ t.to = [fsm EXCEPT !.state = state]
         /\ t.acts = IF acts = << >> THEN << OnEntry(state) >> ELSE << StopTimer, OnEntry(state) >>
<1>1. PICK u \in To(state, acts) : t = [u EXCEPT !.acts = Append(@, OnEntry(u.to.state))]
  BY DEF Step
<1>2. u = [to |-> [fsm EXCEPT !.state = state], acts |-> acts]
  BY <1>1 DEF To
<1>3. u.to.state = state
  BY <1>2 DEF Fsm
<1>4. t.to = [fsm EXCEPT !.state = state] /\ t.acts = Append(acts, OnEntry(state))
  BY <1>1, <1>2, <1>3
<1>5. StopTimer \in Action /\ OnEntry(state) \in Action
  BY ActionTypes
<1>6. CASE acts = << >>
  BY <1>4, <1>5, <1>6, VectorIs
<1>7. CASE acts = << StopTimer >>
  BY <1>4, <1>5, <1>7, VectorIs
<1> QED BY <1>6, <1>7

LEMMA ToStatusIs ==
  ASSUME fsm \in Fsm, NEW event, NEW state \in State, NEW st \in Status, NEW acts \in {<< >>, << StopTimer >>},
         StepInner(event) = ToStatus(state, st, acts), NEW t \in Step(event)
  PROVE  /\ t.to = [state |-> state, old_status |-> st, status |-> st]
         /\ t.acts = IF acts = << >>
                     THEN << SendStatusConditional(fsm.old_status, st), OnEntry(state) >>
                     ELSE << SendStatusConditional(fsm.old_status, st), StopTimer, OnEntry(state) >>
<1>1. PICK u \in ToStatus(state, st, acts) : t = [u EXCEPT !.acts = Append(@, OnEntry(u.to.state))]
  BY DEF Step
<1>2. u = [to   |-> [state |-> state, old_status |-> st, status |-> st],
           acts |-> << SendStatusConditional(fsm.old_status, st) >> \o acts]
  BY <1>1 DEF ToStatus
<1>3. u.to.state = state
  BY <1>2
<1>4. /\ t.to = [state |-> state, old_status |-> st, status |-> st]
      /\ t.acts = Append(<< SendStatusConditional(fsm.old_status, st) >> \o acts, OnEntry(state))
  BY <1>1, <1>2, <1>3
<1>5. StopTimer \in Action /\ OnEntry(state) \in Action /\ SendStatusConditional(fsm.old_status, st) \in Action
  BY ActionTypes DEF Fsm
<1>6. CASE acts = << >>
  BY <1>4, <1>5, <1>6, VectorIs
<1>7. CASE acts = << StopTimer >>
  BY <1>4, <1>5, <1>7, VectorIs
<1> QED BY <1>6, <1>7

\* What a beat and a Timeout make of the machine.
LEMMA StepIs ==
  ASSUME fsm \in Fsm, NEW event \in Event, NEW t \in Step(event)
  PROVE  \/ event = "Heartbeat" /\ (Revived(t) \/ Beaten(t) \/ Returned(t))
         \/ event = "Timeout" /\ (Warned(t) \/ Lost(t))
<1>1. << >> # << StopTimer >>
  OBVIOUS
<1>2. fsm.state \in State /\ {"StartingWait", "ItsAlive", "DeadServer", "NotHeartbeatYet"} = State
  BY DEF Fsm, State
<1>3. CASE event = "Heartbeat"
  <2>1. CASE fsm.state = "StartingWait"
    <3>1. StepInner(event) = ToStatus("ItsAlive", "Connected", << StopTimer >>)
      BY <1>3, <2>1 DEF StepInner
    <3> QED BY <1>1, <1>2, <1>3, <2>1, <3>1, ToStatusIs DEF Revived, Status
  <2>2. CASE fsm.state \in {"ItsAlive", "NotHeartbeatYet"}
    <3>1. StepInner(event) = To("StartingWait", << StopTimer >>)
      BY <1>3, <2>2 DEF StepInner
    <3> QED BY <1>1, <1>2, <1>3, <2>2, <3>1, ToIs DEF Beaten
  <2>3. CASE fsm.state = "DeadServer"
    <3>1. StepInner(event) = To("StartingWait", << >>)
      BY <1>3, <2>3 DEF StepInner
    <3> QED BY <1>1, <1>2, <1>3, <2>3, <3>1, ToIs DEF Returned
  <2> QED BY <1>2, <2>1, <2>2, <2>3
<1>4. CASE event = "Timeout"
  <2>1. CASE fsm.state \in {"StartingWait", "ItsAlive"}
    <3>1. StepInner(event) = To("NotHeartbeatYet", << >>)
      BY <1>4, <2>1 DEF StepInner
    <3> QED BY <1>1, <1>2, <1>4, <2>1, <3>1, ToIs DEF Warned
  <2>2. CASE fsm.state = "NotHeartbeatYet"
    <3>1. StepInner(event) = ToStatus("DeadServer", "Disconnected", << >>)
      BY <1>4, <2>2 DEF StepInner
    <3> QED BY <1>1, <1>2, <1>4, <2>2, <3>1, ToStatusIs DEF Lost, Status
  <2>3. CASE fsm.state = "DeadServer"
    BY <1>4, <2>3 DEF StepInner, Step
  <2> QED BY <1>2, <2>1, <2>2, <2>3
<1> QED BY <1>3, <1>4 DEF Event

\* A transition leads to a state of the machine, and its vector ends with the entry there.
LEMMA StepType ==
  ASSUME fsm \in Fsm, NEW event \in Event, NEW t \in Step(event)
  PROVE  /\ t.to \in Fsm /\ t.acts \in Seq(Action) /\ t.acts # << >>
         /\ Newest(t.acts) = OnEntry(t.to.state)
<1>1. "Connected" \in Status /\ "Disconnected" \in Status /\ fsm.old_status \in Status
      /\ {"StartingWait", "ItsAlive", "DeadServer", "NotHeartbeatYet"} \subseteq State
  BY DEF Status, State, Fsm
<1>2. CASE Revived(t)
  <2>1. t.to \in Fsm /\ t.to.state = "ItsAlive"
    BY <1>1, <1>2 DEF Revived, Fsm
  <2>2. t.acts \in Seq(Action) /\ t.acts # << >> /\ Newest(t.acts) = OnEntry("ItsAlive")
    BY <1>1, <1>2, ActionTypes DEF Revived, Newest
  <2> QED BY <2>1, <2>2
<1>3. CASE Lost(t)
  <2>1. t.to \in Fsm /\ t.to.state = "DeadServer"
    BY <1>1, <1>3 DEF Lost, Fsm
  <2>2. t.acts \in Seq(Action) /\ t.acts # << >> /\ Newest(t.acts) = OnEntry("DeadServer")
    BY <1>1, <1>3, ActionTypes DEF Lost, Newest
  <2> QED BY <2>1, <2>2
<1>4. CASE Warned(t)
  <2>1. t.to \in Fsm /\ t.to.state = "NotHeartbeatYet"
    BY <1>1, <1>4 DEF Warned, Fsm
  <2>2. t.acts \in Seq(Action) /\ t.acts # << >> /\ Newest(t.acts) = OnEntry("NotHeartbeatYet")
    BY <1>1, <1>4, ActionTypes DEF Warned, Newest
  <2> QED BY <2>1, <2>2
<1>5. CASE Beaten(t) \/ Returned(t)
  <2>1. t.to \in Fsm /\ t.to.state = "StartingWait"
    BY <1>1, <1>5 DEF Beaten, Returned, Fsm
  <2>2. t.acts \in Seq(Action) /\ t.acts # << >> /\ Newest(t.acts) = OnEntry("StartingWait")
    <3>1. OnEntry("StartingWait") \in Action /\ StopTimer \in Action
      BY <1>1, ActionTypes
    <3>2. CASE t.acts = << StopTimer, OnEntry("StartingWait") >>
      BY <3>1, <3>2 DEF Newest
    <3>3. CASE t.acts = << OnEntry("StartingWait") >>
      BY <3>1, <3>3 DEF Newest
    <3> QED BY <1>5, <3>2, <3>3 DEF Beaten, Returned
  <2> QED BY <2>1, <2>2
<1> QED BY <1>2, <1>3, <1>4, <1>5, StepIs
-----------------------------------------------------------------------------
(* The types *)

\* What an action makes the handler send: news for the services or a command for the timer.
LEMMA MessagesIs ==
  ASSUME NEW a \in Action
  PROVE  /\ Messages(a) \in Seq(Message)
         /\ \/ Messages(a) = << >> \/ Messages(a) = << ToTimer("InitTimer") >>
            \/ Messages(a) = << ToTimer("StopTimer") >>
            \/ /\ a.name = "SendStatus" /\ a.new \in Status
               /\ Messages(a) = << Tell("metrics", a.new), Tell("data", a.new), Tell("message", a.new) >>
<1>1. /\ \A c \in TimerCommand : ToTimer(c) \in Message
      /\ \A s \in Services, x \in Status : Tell(s, x) \in Message
  BY DEF Message, ToTimer, Tell
<1>2. CASE a.name = "OnEntry"
  BY <1>1, <1>2 DEF Messages, TimerCommand
<1>3. CASE a.name = "StopTimer"
  BY <1>1, <1>3 DEF Messages, TimerCommand
<1>4. CASE a.name = "SendStatus"
  <2>1. a.new \in Status
    BY <1>4 DEF Action, StopTimer
  <2>2. << Tell("metrics", a.new), Tell("data", a.new), Tell("message", a.new) >> \in Seq(Message)
    BY <1>1, <2>1 DEF Services
  <2> QED BY <1>4, <2>1, <2>2 DEF Messages
<1> QED BY <1>2, <1>3, <1>4 DEF Action, StopTimer

LEMMA TypeInduction ==
  ASSUME TypeOK, [Next]_vars
  PROVE  TypeOK'
<1>1. /\ beats \in 0 .. BeatCap /\ heard \in 0 .. MaxBeats /\ fsm \in Fsm /\ events \in Seq(Event)
      /\ held \in Seq(Seq(Action)) /\ Len(held) <= 1 /\ actions \in Seq(Seq(Action)) /\ doing \in Seq(Action)
      /\ outbox \in Seq(Message) /\ timerCmds \in Seq(TimerCommand)
      /\ told \in [Services -> Status \cup {"None"}]
  BY DEF TypeOK
<1>2. CASE FsmTurn
  <2>1. Head(events) \in Event /\ events' \in Seq(Event)
    BY <1>1, <1>2, TailElements DEF FsmTurn
  <2>2. /\ fsm' \in Fsm /\ held' \in Seq(Seq(Action)) /\ Len(held') <= 1 /\ actions' \in Seq(Seq(Action))
    <3>1. CASE UNCHANGED << fsmVars, actions >>
      BY <1>1, <3>1 DEF fsmVars
    <3>2. ASSUME NEW t \in Step(Head(events)), fsm' = t.to,
                 \/ actions' = Append(actions, t.acts) /\ UNCHANGED held
                 \/ held' = << t.acts >> /\ UNCHANGED actions
          PROVE  /\ fsm' \in Fsm /\ held' \in Seq(Seq(Action)) /\ Len(held') <= 1
                 /\ actions' \in Seq(Seq(Action))
      <4>1. t.to \in Fsm /\ t.acts \in Seq(Action)
        BY <1>1, <2>1, StepType
      <4>2. PICK v : v = << t.acts >>
        OBVIOUS
      <4>3. v \in Seq(Seq(Action)) /\ Len(v) <= 1
        BY <4>1, <4>2
      <4>4. Append(actions, t.acts) \in Seq(Seq(Action))
        BY <1>1, <4>1, AppendElements
      <4>5. held' \in Seq(Seq(Action)) /\ Len(held') <= 1
        BY <1>1, <3>2, <4>2, <4>3, Zenon
      <4> QED BY <1>1, <3>2, <4>1, <4>4, <4>5
    <3> QED BY <1>2, <3>1, <3>2 DEF FsmTurn
  <2>3. silent' \in BOOLEAN /\ fresh' \in BOOLEAN
    BY <1>2 DEF FsmTurn, TypeOK
  <2> QED BY <1>2, <2>1, <2>2, <2>3 DEF FsmTurn, TypeOK, handlerVars, timerVars
<1>3. CASE FsmUnblocked
  <2>1. Head(held) \in Seq(Action)
    BY <1>1, <1>3, TailElements DEF FsmUnblocked
  <2>2. held' \in Seq(Seq(Action)) /\ Len(held') <= 1 /\ actions' \in Seq(Seq(Action))
    BY <1>1, <1>3, <2>1, AppendElements, EmptySeq DEF FsmUnblocked
  <2> QED BY <1>3, <2>2 DEF FsmUnblocked, TypeOK, handlerVars, timerVars, serverVars
<1>4. CASE TimerReceive
  <2>1. Head(timerCmds) \in TimerCommand /\ timerCmds' \in Seq(TimerCommand)
    BY <1>1, <1>4, TailElements DEF TimerReceive
  <2>2. timer' \in TimerState
    BY <1>4, <2>1 DEF TimerReceive, Listening, Received, TimerCommand, TimerState
  <2>3. fresh' \in BOOLEAN
    BY <1>4 DEF TimerReceive, TypeOK
  <2> QED BY <1>4, <2>1, <2>2, <2>3 DEF TimerReceive, TypeOK, fsmVars, handlerVars
<1>5. CASE TimerExpire
  <2>1. silent' \in BOOLEAN /\ fresh' \in BOOLEAN /\ timer' \in TimerState
    BY <1>5 DEF TimerExpire, TypeOK, TimerState
  <2> QED BY <1>5, <2>1 DEF TimerExpire, TypeOK, fsmVars, handlerVars
<1>6. CASE TimerFire
  <2>1. events' \in Seq(Event) /\ timer' \in TimerState
    BY <1>1, <1>6, AppendElements DEF TimerFire, TimerState, Event
  <2> QED BY <1>6, <2>1 DEF TimerFire, TypeOK, fsmVars, handlerVars, serverVars
<1>7. CASE TakeBeat
  <2>1. beats' \in 0 .. BeatCap
    BY <1>1, <1>7, Bounds DEF TakeBeat
  <2>2. outbox' \in Seq(Message)
    BY <1>7 DEF TakeBeat, ToFsm, Message
  <2> QED BY <1>7, <2>1, <2>2 DEF TakeBeat, TypeOK, fsmVars, timerVars, serverVars
<1>8. CASE TakeActions
  <2>1. doing' \in Seq(Action) /\ actions' \in Seq(Seq(Action))
    BY <1>1, <1>8, TailElements DEF TakeActions
  <2> QED BY <1>8, <2>1 DEF TakeActions, TypeOK, fsmVars, timerVars, serverVars
<1>9. CASE Perform
  <2>1. Head(doing) \in Action /\ doing' \in Seq(Action)
    BY <1>1, <1>9, TailElements DEF Perform
  <2>2. outbox' \in Seq(Message)
    BY <1>9, <2>1, MessagesIs DEF Perform
  <2> QED BY <1>9, <2>1, <2>2 DEF Perform, TypeOK, fsmVars, timerVars, serverVars
<1>10. CASE HandlerSend
  <2>1. PICK m : m = Head(outbox)
    OBVIOUS
  <2>2. m \in Message /\ outbox' \in Seq(Message)
    BY <1>1, <1>10, <2>1, TailElements DEF HandlerSend
  <2>3. /\ m.to = "fsm" => m.msg \in Event
        /\ m.to = "timer" => m.msg \in TimerCommand
        /\ m.to \in Services => m.msg \in Status
    BY <2>2 DEF Message, ToFsm, Event, Services
  <2>4. events' \in Seq(Event) /\ timerCmds' \in Seq(TimerCommand) /\ told' \in [Services -> Status \cup {"None"}]
    <3>1. \/ m.to = "fsm" /\ events' = Append(events, m.msg) /\ UNCHANGED << timerCmds, told >>
          \/ m.to = "timer" /\ timerCmds' = Append(timerCmds, m.msg) /\ UNCHANGED << events, told >>
          \/ m.to \in Services /\ told' = [told EXCEPT ![m.to] = m.msg] /\ UNCHANGED << events, timerCmds >>
      BY <1>10, <2>1 DEF HandlerSend
    <3>2. CASE m.to = "fsm" /\ events' = Append(events, m.msg) /\ UNCHANGED << timerCmds, told >>
      BY <1>1, <2>3, <3>2, AppendElements
    <3>3. CASE m.to = "timer" /\ timerCmds' = Append(timerCmds, m.msg) /\ UNCHANGED << events, told >>
      BY <1>1, <2>3, <3>3, AppendElements
    <3>4. CASE /\ m.to \in Services /\ told' = [told EXCEPT ![m.to] = m.msg]
               /\ UNCHANGED << events, timerCmds >>
      BY <1>1, <2>3, <3>4
    <3> QED BY <3>1, <3>2, <3>3, <3>4
  <2> QED BY <1>10, <2>2, <2>4 DEF HandlerSend, TypeOK, fsmVars, serverVars
<1>11. CASE Beat
  <2>1. heard' \in 0 .. MaxBeats /\ beats' \in 0 .. BeatCap
    BY <1>1, <1>11, Bounds DEF Beat
  <2> QED BY <1>11, <2>1 DEF Beat, TypeOK, fsmVars, handlerVars, timerVars
<1>12. CASE UNCHANGED vars
  BY <1>12 DEF TypeOK, vars, fsmVars, handlerVars, timerVars, serverVars
<1> QED BY <1>2, <1>3, <1>4, <1>5, <1>6, <1>7, <1>8, <1>9, <1>10, <1>11, <1>12
        DEF Next, RunFsm, Handler, Timer

LEMMA InitType == Init => TypeOK
<1> SUFFICES ASSUME Init PROVE TypeOK
  OBVIOUS
<1>1. beats \in 0 .. BeatCap /\ heard \in 0 .. MaxBeats
  BY Bounds DEF Init
<1>2. fsm \in Fsm
  BY DEF Init, NewFsm, Fsm, State, Status
<1>3. held \in Seq(Seq(Action)) /\ Len(held) <= 1 /\ actions \in Seq(Seq(Action)) /\ doing \in Seq(Action)
      /\ outbox \in Seq(Message) /\ timerCmds \in Seq(TimerCommand) /\ events \in Seq(Event)
  BY EmptySeq DEF Init
<1>4. told \in [Services -> Status \cup {"None"}]
  BY DEF Init
<1> QED BY <1>1, <1>2, <1>3, <1>4 DEF Init, TypeOK, TimerState

\* The variables of the monitor keep their types, and no channel of beats overflows.
THEOREM TypeCorrect == Spec => []TypeOK
<1>1. TypeOK /\ [Next]_vars => TypeOK'
  BY TypeInduction
<1> QED BY InitType, <1>1, PTL DEF Spec
-----------------------------------------------------------------------------
(* The vectors on their way to the handler, with the one run_fsm_heartbeat is blocked with *)

Pipe == actions \o held

LEMMA PipeType ==
  ASSUME TypeOK
  PROVE  Pipe \in Seq(Seq(Action)) /\ (Pipe = << >> <=> actions = << >> /\ held = << >>)
BY ConcatProperties, ConcatEqualIffEmpty DEF TypeOK, Pipe

\* An event is taken without a vector, or its vector comes behind the others.
LEMMA TurnIs ==
  ASSUME TypeOK, FsmTurn
  PROVE  /\ Head(events) \in Event
         /\ \/ Step(Head(events)) = {} /\ fsm' = fsm /\ Pipe' = Pipe
            \/ \E t \in Step(Head(events)) : fsm' = t.to /\ Pipe' = Append(Pipe, t.acts)
<1>1. fsm \in Fsm /\ events \in Seq(Event) /\ actions \in Seq(Seq(Action))
  BY DEF TypeOK
<1>2. Head(events) \in Event /\ held = << >>
  BY <1>1, TailElements DEF FsmTurn
<1>3. Pipe = actions
  BY <1>1, <1>2, ConcatEmptySeq DEF Pipe
<1>4. CASE Step(Head(events)) = {}
  BY <1>2, <1>4 DEF FsmTurn, fsmVars, Pipe
<1>5. ASSUME NEW t \in Step(Head(events)), fsm' = t.to,
             \/ actions' = Append(actions, t.acts) /\ UNCHANGED held
             \/ held' = << t.acts >> /\ UNCHANGED actions
      PROVE  Pipe' = Append(Pipe, t.acts)
  <2>1. t.acts \in Seq(Action)
    BY <1>1, <1>2, StepType
  <2>2. /\ Append(actions, t.acts) \o << >> = Append(actions, t.acts)
        /\ actions \o << t.acts >> = Append(actions, t.acts)
    BY <1>1, <2>1, BlockedSend
  <2>3. CASE actions' = Append(actions, t.acts) /\ UNCHANGED held
    BY <1>2, <1>3, <2>2, <2>3, Zenon DEF Pipe
  <2>4. CASE held' = << t.acts >> /\ UNCHANGED actions
    BY <1>2, <1>3, <2>2, <2>4, Zenon DEF Pipe
  <2> QED BY <1>5, <2>3, <2>4
<1> QED BY <1>2, <1>4, <1>5 DEF FsmTurn

LEMMA UnblockedIs ==
  ASSUME TypeOK, FsmUnblocked
  PROVE  Pipe' = Pipe
<1>1. held \in Seq(Seq(Action)) /\ Len(held) <= 1 /\ held # << >> /\ actions \in Seq(Seq(Action))
  BY DEF TypeOK, FsmUnblocked
<1>2. PICK v : v = Head(held)
  OBVIOUS
<1>3. v \in Seq(Action) /\ held = << v >>
  BY <1>1, <1>2, OnlyElement, Zenon
<1>4. actions' = Append(actions, v) /\ held' = << >>
  BY <1>2 DEF FsmUnblocked
<1>5. Append(actions, v) \o << >> = Append(actions, v) /\ actions \o << v >> = Append(actions, v)
  BY <1>1, <1>3, BlockedSend
<1> QED BY <1>3, <1>4, <1>5, Zenon DEF Pipe

LEMMA TakeIs ==
  ASSUME TypeOK, TakeActions
  PROVE  Pipe # << >> /\ doing' = Head(Pipe) /\ Pipe' = Tail(Pipe)
<1>1. actions \in Seq(Seq(Action)) /\ held \in Seq(Seq(Action)) /\ actions # << >>
  BY DEF TypeOK, TakeActions
<1>2. doing' = Head(actions) /\ actions' = Tail(actions) /\ held' = held
  BY DEF TakeActions, fsmVars
<1> QED BY <1>1, <1>2, BlockedReceive DEF Pipe
-----------------------------------------------------------------------------
(* The services are told *)

\* What the three services were told last.
Agree(x) == \/ \A s \in Services : told[s] = x
            \/ x = "Disconnected" /\ \A s \in Services : told[s] = "None"

\* They are at status x once the handler has sent what it is sending.
Telling(x) ==
  \/ outbox \in {<< >>, << ToFsm >>, << ToTimer("InitTimer") >>, << ToTimer("StopTimer") >>} /\ Agree(x)
  \/ outbox = << Tell("metrics", x), Tell("data", x), Tell("message", x) >>
  \/ outbox = << Tell("data", x), Tell("message", x) >> /\ told["metrics"] = x
  \/ outbox = << Tell("message", x) >> /\ told["metrics"] = x /\ told["data"] = x

\* A vector, or what is left of it, takes them from status x to status y.
Takes(v, x, y) ==
  /\ \A i \in DOMAIN v : v[i].name = "SendStatus" => i = 1
  /\ IF v # << >> /\ v[1].name = "SendStatus" THEN v[1].old = x /\ v[1].new = y ELSE x = y

\* The statuses between the vectors on their way: the machine's is the last.
Chain(st) ==
  /\ st \in Seq(Status) /\ Len(st) = Len(Pipe) + 1 /\ Newest(st) = fsm.status
  /\ \A i \in DOMAIN Pipe : Takes(Pipe[i], st[i], st[i + 1])

ToldInv ==
  /\ fsm.old_status = fsm.status
  /\ \E x \in Status, st \in Seq(Status) : Telling(x) /\ Takes(doing, x, st[1]) /\ Chain(st)

\* A transition tells the services from the status of the machine to its next one.
LEMMA StepTakes ==
  ASSUME fsm \in Fsm, fsm.old_status = fsm.status, NEW event \in Event, NEW t \in Step(event)
  PROVE  t.to.old_status = t.to.status /\ Takes(t.acts, fsm.status, t.to.status)
<1>1. CASE Revived(t)
  <2>1. t.to.old_status = t.to.status /\ t.to.status = "Connected"
    BY <1>1 DEF Revived
  <2>2. /\ DOMAIN t.acts = 1 .. 3 /\ t.acts # << >> /\ t.acts[1] = SendStatusConditional(fsm.old_status, "Connected")
        /\ t.acts[2] = StopTimer /\ t.acts[3] = OnEntry("ItsAlive")
    BY <1>1 DEF Revived
  <2>3. \A i \in DOMAIN t.acts : i = 1 \/ i = 2 \/ i = 3
    BY <2>2
  <2> QED BY <2>1, <2>2, <2>3 DEF Takes, SendStatusConditional, OnEntry, StopTimer
<1>2. CASE Lost(t)
  <2>1. t.to.old_status = t.to.status /\ t.to.status = "Disconnected"
    BY <1>2 DEF Lost
  <2>2. /\ DOMAIN t.acts = 1 .. 2 /\ t.acts # << >> /\ t.acts[1] = SendStatusConditional(fsm.old_status, "Disconnected")
        /\ t.acts[2] = OnEntry("DeadServer")
    BY <1>2 DEF Lost
  <2>3. \A i \in DOMAIN t.acts : i = 1 \/ i = 2
    BY <2>2
  <2> QED BY <2>1, <2>2, <2>3 DEF Takes, SendStatusConditional, OnEntry
<1>3. CASE Warned(t) \/ Beaten(t) \/ Returned(t)
  <2>1. t.to.old_status = fsm.old_status /\ t.to.status = fsm.status
    BY <1>3 DEF Warned, Beaten, Returned, Fsm
  <2>2. \A i \in DOMAIN t.acts : t.acts[i].name # "SendStatus"
    <3>1. StopTimer.name # "SendStatus" /\ \A st \in State : OnEntry(st).name # "SendStatus"
      BY DEF StopTimer, OnEntry
    <3>2. "NotHeartbeatYet" \in State /\ "StartingWait" \in State
      BY DEF State
    <3>3. CASE Warned(t)
      BY <3>1, <3>2, <3>3 DEF Warned
    <3>4. CASE Beaten(t)
      <4>1. DOMAIN t.acts = 1 .. 2 /\ t.acts[1] = StopTimer /\ t.acts[2] = OnEntry("StartingWait")
        BY <3>4 DEF Beaten
      <4>2. \A i \in DOMAIN t.acts : i = 1 \/ i = 2
        BY <4>1
      <4> QED BY <3>1, <3>2, <4>1, <4>2
    <3>5. CASE Returned(t)
      BY <3>1, <3>2, <3>5 DEF Returned
    <3> QED BY <1>3, <3>3, <3>4, <3>5
  <2>3. t.acts \in Seq(Action)
    BY StepType
  <2>4. t.acts # << >> => 1 \in DOMAIN t.acts
    BY <2>3, TailElements
  <2> QED BY <2>1, <2>2, <2>4 DEF Takes
<1> QED BY <1>1, <1>2, <1>3, StepIs

\* The vector of an event comes behind the others, with the status after it.
LEMMA ChainGrows ==
  ASSUME TypeOK, fsm.old_status = fsm.status, FsmTurn, NEW st \in Seq(Status), Chain(st)
  PROVE  /\ fsm'.old_status = fsm'.status
         /\ \E next \in Seq(Status) : next[1] = st[1] /\ Chain(next)'
<1>1. fsm \in Fsm /\ Pipe \in Seq(Seq(Action)) /\ Len(st) = Len(Pipe) + 1 /\ Newest(st) = fsm.status
  BY PipeType DEF TypeOK, Chain
<1>2. st # << >> /\ 1 \in DOMAIN st /\ Len(Pipe) \in Nat
  BY <1>1, EmptyLength
<1>3. CASE fsm' = fsm /\ Pipe' = Pipe
  BY <1>3 DEF Chain
<1>4. CASE \E t \in Step(Head(events)) : fsm' = t.to /\ Pipe' = Append(Pipe, t.acts)
  <2>1. Head(events) \in Event
    BY TurnIs
  <2>2. PICK t \in Step(Head(events)) : fsm' = t.to /\ Pipe' = Append(Pipe, t.acts)
    BY <1>4
  <2>3. PICK x, v : x = t.to.status /\ v = t.acts
    OBVIOUS
  <2>4. /\ fsm'.old_status = fsm'.status /\ Takes(v, fsm.status, x) /\ fsm'.status = x
        /\ x \in Status /\ v \in Seq(Action)
    BY <1>1, <2>1, <2>2, <2>3, StepTakes, StepType DEF Fsm
  <2>5. PICK next : next = Append(st, x)
    OBVIOUS
  <2>6. /\ next \in Seq(Status) /\ Len(next) = Len(st) + 1 /\ Newest(next) = x
        /\ \A i \in DOMAIN st : next[i] = st[i]
        /\ next[Len(st) + 1] = x
    BY <2>4, <2>5, AppendElements, NewestOfAppend
  <2>7. /\ Pipe' \in Seq(Seq(Action)) /\ Len(Pipe') = Len(Pipe) + 1
        /\ \A i \in DOMAIN Pipe : Pipe'[i] = Pipe[i]
        /\ Pipe'[Len(Pipe) + 1] = v
        /\ \A i \in DOMAIN Pipe' : i = Len(Pipe) + 1 \/ i \in DOMAIN Pipe
    BY <1>1, <2>2, <2>3, <2>4, AppendElements
  <2>8. \A i \in DOMAIN Pipe' : Takes(Pipe'[i], next[i], next[i + 1])
    <3>1. SUFFICES ASSUME NEW i \in DOMAIN Pipe'
                   PROVE  Takes(Pipe'[i], next[i], next[i + 1])
      OBVIOUS
    <3>2. CASE i \in DOMAIN Pipe
      <4>1. i \in DOMAIN st /\ i + 1 \in DOMAIN st
        BY <1>1, <3>2
      <4>2. next[i] = st[i] /\ next[i + 1] = st[i + 1] /\ Pipe'[i] = Pipe[i]
        BY <2>6, <2>7, <3>2, <4>1
      <4> QED BY <3>2, <4>2 DEF Chain
    <3>3. CASE i = Len(Pipe) + 1
      <4>1. i = Len(st) /\ i \in DOMAIN st /\ i + 1 = Len(st) + 1
        BY <1>1, <1>2, <3>3
      <4>2. next[i] = fsm.status /\ next[i + 1] = x /\ Pipe'[i] = v
        BY <1>1, <2>6, <2>7, <3>3, <4>1 DEF Newest
      <4> QED BY <2>4, <4>2
    <3> QED BY <2>7, <3>2, <3>3
  <2>9. next[1] = st[1] /\ Len(next) = Len(Pipe') + 1
    BY <1>1, <1>2, <2>6, <2>7
  <2> QED BY <2>4, <2>6, <2>8, <2>9 DEF Chain
<1> QED BY <1>3, <1>4, TurnIs

\* The handler takes the first vector, and the status before it.
LEMMA ChainShrinks ==
  ASSUME TypeOK, TakeActions, NEW st \in Seq(Status), Chain(st)
  PROVE  \E next \in Seq(Status) : Takes(doing', st[1], next[1]) /\ Chain(next)'
<1>1. /\ Pipe \in Seq(Seq(Action)) /\ Len(st) = Len(Pipe) + 1 /\ Newest(st) = fsm.status
      /\ Pipe # << >> /\ doing' = Head(Pipe) /\ Pipe' = Tail(Pipe) /\ fsm' = fsm
  BY PipeType, TakeIs DEF Chain, TakeActions, fsmVars
<1>2. /\ doing' = Pipe[1] /\ 1 \in DOMAIN Pipe /\ Pipe' \in Seq(Seq(Action)) /\ Len(Pipe') = Len(Pipe) - 1
      /\ Len(Pipe) \in Nat \ {0}
      /\ \A i \in DOMAIN Pipe' : i \in Nat \ {0} /\ i + 1 \in DOMAIN Pipe /\ Pipe'[i] = Pipe[i + 1]
  BY <1>1, TailElements
<1>3. st # << >> /\ Len(st) \in Nat \ {0} /\ Len(st) - 1 \in Nat \ {0}
  BY <1>1, <1>2, EmptyLength
<1>4. PICK next : next = Tail(st)
  OBVIOUS
<1>5. /\ next \in Seq(Status) /\ Len(next) = Len(st) - 1
      /\ \A i \in DOMAIN next : next[i] = st[i + 1]
  BY <1>3, <1>4, TailElements
<1>6. next # << >> /\ Newest(next) = fsm.status
  <2>1. next # << >>
    BY <1>3, <1>5, EmptyLength
  <2> QED BY <1>1, <1>3, <1>4, <2>1, NewestOfTail
<1>7. \A i \in DOMAIN Pipe' : Takes(Pipe'[i], next[i], next[i + 1])
  <2>1. SUFFICES ASSUME NEW i \in DOMAIN Pipe'
                 PROVE  Takes(Pipe'[i], next[i], next[i + 1])
    OBVIOUS
  <2>2. i \in DOMAIN next /\ i + 1 \in DOMAIN next /\ i + 1 \in DOMAIN Pipe
    BY <1>1, <1>2, <1>5
  <2>3. next[i] = st[i + 1] /\ next[i + 1] = st[(i + 1) + 1] /\ Pipe'[i] = Pipe[i + 1]
    BY <1>2, <1>5, <2>2
  <2> QED BY <2>2, <2>3 DEF Chain
<1>8. Len(next) = Len(Pipe') + 1 /\ next[1] = st[2]
  <2>1. Len(next) = Len(Pipe') + 1 /\ Len(next) \in Nat \ {0}
    <3>1. PICK n, k, m, p : n = Len(Pipe) /\ k = Len(st) /\ m = Len(next) /\ p = Len(Pipe')
      OBVIOUS
    <3>2. k = n + 1 /\ p = n - 1 /\ m = k - 1 /\ n \in Nat \ {0}
      BY <1>1, <1>2, <1>5, <3>1, Zenon
    <3>3. m = p + 1 /\ m \in Nat \ {0}
      BY <3>2
    <3> QED BY <3>1, <3>3, Zenon
  <2>2. 1 \in DOMAIN next
    BY <1>5, <2>1
  <2>3. next[1] = st[1 + 1]
    BY <1>5, <2>2
  <2> QED BY <2>1, <2>3
<1>9. Takes(doing', st[1], next[1])
  BY <1>2, <1>8 DEF Chain
<1> QED BY <1>1, <1>5, <1>6, <1>7, <1>8, <1>9 DEF Chain

\* An action is performed: its news, if it has any, are what is sent.
LEMMA PerformTells ==
  ASSUME TypeOK, Perform, NEW x \in Status, NEW y \in Status, Telling(x), Takes(doing, x, y)
  PROVE  Telling(y)' /\ Takes(doing', y, y)
<1>1. /\ doing \in Seq(Action) /\ doing # << >> /\ outbox = << >> /\ told' = told
      /\ doing' = Tail(doing) /\ outbox' = Messages(Head(doing))
  BY DEF TypeOK, Perform
<1>2. Agree(x)
  BY <1>1 DEF Telling
<1>3. PICK a : a = Head(doing)
  OBVIOUS
<1>4. a \in Action /\ a = doing[1]
  BY <1>1, <1>3, TailElements
<1>5. Takes(doing', y, y)
  <2>1. \A i \in DOMAIN doing' : doing'[i].name # "SendStatus"
    <3>1. \A i \in DOMAIN doing' : i \in Nat \ {0} /\ i + 1 \in DOMAIN doing /\ doing'[i] = doing[i + 1]
      BY <1>1, TailElements
    <3>2. \A i \in Nat \ {0} : i + 1 # 1
      OBVIOUS
    <3> QED BY <3>1, <3>2 DEF Takes
  <2>2. doing' \in Seq(Action)
    BY <1>1, TailElements
  <2>3. doing' # << >> => 1 \in DOMAIN doing'
    BY <2>2, TailElements
  <2> QED BY <2>1, <2>3 DEF Takes
<1>6. CASE a.name = "SendStatus"
  <2>1. a.old = x /\ a.new = y
    BY <1>1, <1>4, <1>6 DEF Takes
  <2>2. CASE x = y
    <3>1. outbox' = << >>
      BY <1>1, <1>3, <1>6, <2>1, <2>2 DEF Messages
    <3> QED BY <1>1, <1>2, <1>5, <2>2, <3>1 DEF Telling, Agree
  <2>3. CASE x # y
    <3>1. outbox' = << Tell("metrics", y), Tell("data", y), Tell("message", y) >>
      BY <1>1, <1>3, <1>6, <2>1, <2>3 DEF Messages
    <3> QED BY <1>5, <3>1 DEF Telling
  <2> QED BY <2>2, <2>3
<1>7. CASE a.name # "SendStatus"
  <2>1. x = y
    BY <1>1, <1>4, <1>7 DEF Takes
  <2>2. outbox' \in {<< >>, << ToTimer("InitTimer") >>, << ToTimer("StopTimer") >>}
    BY <1>1, <1>3, <1>4, <1>7, MessagesIs
  <2> QED BY <1>1, <1>2, <1>5, <2>1, <2>2 DEF Telling, Agree
<1> QED BY <1>6, <1>7

\* A message is sent.
LEMMA SendTells ==
  ASSUME TypeOK, HandlerSend, NEW x \in Status, Telling(x)
  PROVE  Telling(x)'
<1>1. outbox # << >> /\ outbox' = Tail(outbox) /\ told \in [Services -> Status \cup {"None"}]
  BY DEF TypeOK, HandlerSend
<1>2. PICK m : m = Head(outbox)
  OBVIOUS
<1>3. /\ m.to \notin Services => told' = told
      /\ m.to \in Services => told' = [told EXCEPT ![m.to] = m.msg]
  BY <1>2 DEF HandlerSend, Services
<1>4. CASE outbox \in {<< >>, << ToFsm >>, << ToTimer("InitTimer") >>, << ToTimer("StopTimer") >>} /\ Agree(x)
  <2>1. outbox' = << >> /\ (m = ToFsm \/ m = ToTimer("InitTimer") \/ m = ToTimer("StopTimer"))
    <3>1. PICK a \in {ToFsm, ToTimer("InitTimer"), ToTimer("StopTimer")} : outbox = << a >>
      BY <1>1, <1>4
    <3>2. outbox' = << >> /\ m = a
      BY <1>1, <1>2, <3>1
    <3> QED BY <3>1, <3>2
  <2>2. told' = told
    BY <1>3, <2>1 DEF ToFsm, ToTimer, Services
  <2> QED BY <1>4, <2>1, <2>2 DEF Telling, Agree
<1>5. CASE outbox = << Tell("metrics", x), Tell("data", x), Tell("message", x) >>
  <2>1. outbox' = << Tell("data", x), Tell("message", x) >> /\ m = Tell("metrics", x)
    BY <1>1, <1>2, <1>5
  <2>2. told'["metrics"] = x
    BY <1>1, <1>3, <2>1 DEF Tell, Services
  <2> QED BY <2>1, <2>2 DEF Telling
<1>6. CASE outbox = << Tell("data", x), Tell("message", x) >> /\ told["metrics"] = x
  <2>1. outbox' = << Tell("message", x) >> /\ m = Tell("data", x)
    BY <1>1, <1>2, <1>6
  <2>2. told'["metrics"] = x /\ told'["data"] = x
    BY <1>1, <1>3, <1>6, <2>1 DEF Tell, Services
  <2> QED BY <2>1, <2>2 DEF Telling
<1>7. CASE outbox = << Tell("message", x) >> /\ told["metrics"] = x /\ told["data"] = x
  <2>1. outbox' = << >> /\ m = Tell("message", x)
    BY <1>1, <1>2, <1>7
  <2>2. \A s \in Services : told'[s] = x
    BY <1>1, <1>3, <1>7, <2>1 DEF Tell, Services
  <2> QED BY <2>1, <2>2 DEF Telling, Agree
<1> QED BY <1>4, <1>5, <1>6, <1>7 DEF Telling

LEMMA ToldInduction ==
  ASSUME TypeOK, ToldInv, [Next]_vars
  PROVE  ToldInv'
<1>1. PICK x \in Status, st \in Seq(Status) : Telling(x) /\ Takes(doing, x, st[1]) /\ Chain(st)
  BY DEF ToldInv
<1>2. fsm.old_status = fsm.status
  BY DEF ToldInv
<1>3. ASSUME UNCHANGED fsmVars, UNCHANGED actions
      PROVE  fsm'.old_status = fsm'.status /\ Chain(st)'
  BY <1>1, <1>2, <1>3 DEF Chain, Pipe, fsmVars
<1>4. ASSUME UNCHANGED << outbox, told >>
      PROVE  Telling(x)'
  BY <1>1, <1>4 DEF Telling, Agree
<1>5. CASE FsmTurn
  <2>1. PICK next \in Seq(Status) : next[1] = st[1] /\ Chain(next)'
    BY <1>1, <1>2, <1>5, ChainGrows
  <2>2. fsm'.old_status = fsm'.status
    BY <1>1, <1>2, <1>5, ChainGrows
  <2>3. UNCHANGED << doing, outbox, told >>
    BY <1>5 DEF FsmTurn, handlerVars
  <2> QED BY <1>1, <1>4, <2>1, <2>2, <2>3 DEF ToldInv
<1>6. CASE FsmUnblocked
  <2>1. Pipe' = Pipe /\ UNCHANGED << fsm, doing, outbox, told >>
    BY <1>6, UnblockedIs DEF FsmUnblocked, handlerVars
  <2>2. Chain(st)'
    BY <1>1, <2>1 DEF Chain
  <2> QED BY <1>1, <1>2, <1>4, <2>1, <2>2 DEF ToldInv
<1>7. CASE TakeActions
  <2>1. PICK next \in Seq(Status) : Takes(doing', st[1], next[1]) /\ Chain(next)'
    BY <1>1, <1>7, ChainShrinks
  <2>2. UNCHANGED << fsm, outbox, told >> /\ x = st[1]
    BY <1>1, <1>7 DEF TakeActions, Idle, Takes, fsmVars
  <2> QED BY <1>1, <1>2, <1>4, <2>1, <2>2 DEF ToldInv
<1>8. CASE Perform
  <2>1. UNCHANGED fsmVars /\ UNCHANGED actions
    BY <1>8 DEF Perform
  <2>2. st[1] \in Status
    <3>1. Len(st) = Len(Pipe) + 1 /\ Len(Pipe) \in Nat
      BY <1>1, PipeType, EmptyLength DEF Chain
    <3>2. 1 \in DOMAIN st
      BY <3>1
    <3> QED BY <3>2
  <2>3. PICK y \in Status : y = st[1]
    BY <2>2
  <2>4. Telling(y)' /\ Takes(doing', y, y)
    BY <1>1, <1>8, <2>3, PerformTells
  <2> QED BY <1>3, <2>1, <2>3, <2>4 DEF ToldInv
<1>9. CASE HandlerSend
  <2>1. UNCHANGED fsmVars /\ UNCHANGED << actions, doing >>
    BY <1>9 DEF HandlerSend
  <2>2. Telling(x)'
    BY <1>1, <1>9, SendTells
  <2> QED BY <1>1, <1>3, <2>1, <2>2 DEF ToldInv
<1>10. CASE TakeBeat
  <2>1. UNCHANGED fsmVars /\ UNCHANGED << actions, doing, told >> /\ outbox = << >> /\ outbox' = << ToFsm >>
    BY <1>10 DEF TakeBeat, Idle
  <2>2. Telling(x)'
    BY <1>1, <2>1 DEF Telling, Agree
  <2> QED BY <1>1, <1>3, <2>1, <2>2 DEF ToldInv
<1>11. CASE TimerReceive \/ TimerExpire \/ TimerFire \/ Beat \/ UNCHANGED vars
  <2>1. UNCHANGED fsmVars /\ UNCHANGED << actions, doing, outbox, told >>
    BY <1>11 DEF TimerReceive, TimerExpire, TimerFire, Beat, vars, handlerVars
  <2> QED BY <1>1, <1>3, <1>4, <2>1 DEF ToldInv
<1> QED BY <1>5, <1>6, <1>7, <1>8, <1>9, <1>10, <1>11 DEF Next, RunFsm, Handler, Timer

LEMMA InitTold == Init => ToldInv
<1> SUFFICES ASSUME Init PROVE ToldInv
  OBVIOUS
<1>1. PICK st : st = << "Disconnected" >>
  OBVIOUS
<1>2. Pipe = << >>
  BY InitType, PipeType DEF Init
<1>3. st \in Seq(Status) /\ Len(st) = 1 /\ st[1] = "Disconnected" /\ Newest(st) = "Disconnected"
  BY <1>1 DEF Status, Newest
<1>4. Len(Pipe) = 0 /\ DOMAIN Pipe = {}
  BY <1>2
<1>5. fsm.old_status = "Disconnected" /\ fsm.status = "Disconnected"
  BY DEF Init, NewFsm
<1>6. Chain(st)
  BY <1>3, <1>4, <1>5 DEF Chain
<1>7. Telling("Disconnected")
  BY DEF Init, Telling, Agree
<1>8. Takes(doing, "Disconnected", st[1])
  BY <1>3 DEF Init, Takes
<1> QED BY <1>3, <1>5, <1>6, <1>7, <1>8 DEF ToldInv, Status

\* Nothing being on its way, the services have been told the status of the monitor.
LEMMA ToldQuiet ==
  ASSUME TypeOK, ToldInv
  PROVE  ServicesTold
<1> SUFFICES ASSUME Quiet
             PROVE  Agree(fsm.status)
  BY DEF ServicesTold, Agree
<1>1. PICK x \in Status, st \in Seq(Status) : Telling(x) /\ Takes(doing, x, st[1]) /\ Chain(st)
  BY DEF ToldInv
<1>2. Pipe = << >> /\ doing = << >> /\ outbox = << >>
  BY PipeType DEF Quiet
<1>3. Len(Pipe) = 0
  BY <1>2
<1>4. st[1] = fsm.status
  BY <1>1, <1>3 DEF Chain, Newest
<1>5. x = st[1]
  BY <1>1, <1>2 DEF Takes
<1>6. Agree(x)
  BY <1>1, <1>2 DEF Telling
<1> QED BY <1>4, <1>5, <1>6

\* The metrics, the data and the message service agree with the monitor when all is quiet,
\* though they are told one after the other and by vectors that overlap.
THEOREM ServicesToldCorrect == Spec => []ServicesTold
<1>1. TypeOK /\ ToldInv /\ [Next]_vars => ToldInv'
  BY ToldInduction
<1>2. TypeOK /\ ToldInv => ServicesTold
  BY ToldQuiet
<1> QED BY TypeCorrect, InitTold, <1>1, <1>2, PTL DEF Spec
-----------------------------------------------------------------------------
(* The server is watched *)

\* Every state but the one where the server is given up can be left by a Timeout or a beat.
LEMMA StepSome ==
  ASSUME fsm \in Fsm, fsm.state # "DeadServer", NEW event \in Event
  PROVE  Step(event) # {}
<1>1. StepInner(event) # {}
  BY DEF StepInner, To, ToStatus, Fsm, State, Event
<1> QED BY <1>1 DEF Step

\* The last of the commands for the timer is to start, or it has been started and its
\* sleep, or the Timeout at the end of it, is still there.
Timed ==
  \/ outbox = << ToTimer("InitTimer") >>
  \/ /\ outbox \in {<< >>, << ToFsm >>}
     /\ \/ timerCmds # << >> /\ Newest(timerCmds) = "InitTimer"
        \/ /\ timerCmds = << >>
           /\ Sleeping(timer) \/ timer = "firing" \/ \E i \in DOMAIN events : events[i] = "Timeout"

\* No beat has reached the machine, and one is on its way if there was one.
Unheard ==
  /\ outbox \in {<< >>, << ToFsm >>}
  /\ heard > 0 => beats > 0 \/ outbox = << ToFsm >> \/ events # << >>

\* Wherever the news of its last transition is, it ends with the entry into the state of
\* the machine; when nothing is left of it, the timer has its command.
WatchedInv ==
  /\ \A i \in DOMAIN Pipe : Pipe[i] # << >>
  /\ Pipe # << >> => Newest(Newest(Pipe)) = OnEntry(fsm.state)
  /\ Pipe = << >> /\ doing # << >> => Newest(doing) = OnEntry(fsm.state)
  /\ Pipe = << >> /\ doing = << >> /\ fsm.state # "DeadServer" => Timed \/ Unheard

LEMMA WatchedInduction ==
  ASSUME TypeOK, WatchedInv, [Next]_vars
  PROVE  WatchedInv'
<1>1. /\ fsm \in Fsm /\ events \in Seq(Event) /\ doing \in Seq(Action) /\ outbox \in Seq(Message)
      /\ timerCmds \in Seq(TimerCommand) /\ timer \in TimerState /\ Pipe \in Seq(Seq(Action))
      /\ beats \in Nat /\ heard \in Nat
  BY PipeType, Bounds DEF TypeOK
<1>2. ASSUME UNCHANGED << fsm, actions, held, doing >>,
             Pipe = << >>, doing = << >>, fsm.state # "DeadServer", Timed \/ Unheard => (Timed \/ Unheard)'
      PROVE  WatchedInv'
  BY <1>2 DEF WatchedInv, Pipe
<1>3. ASSUME UNCHANGED << fsm, actions, held, doing >>,
             Pipe # << >> \/ doing # << >> \/ fsm.state = "DeadServer"
      PROVE  WatchedInv'
  BY <1>3 DEF WatchedInv, Pipe
<1>4. CASE FsmTurn
  <2>1. UNCHANGED << doing, outbox, timer, timerCmds, beats, heard >> /\ events # << >>
    BY <1>4 DEF FsmTurn, handlerVars, timerVars
  <2>2. CASE Step(Head(events)) = {} /\ fsm' = fsm /\ Pipe' = Pipe
    <3>1. fsm.state = "DeadServer"
      BY <1>1, <1>4, <2>2, StepSome, TurnIs
    <3> QED BY <2>1, <2>2, <3>1 DEF WatchedInv
  <2>3. ASSUME NEW t \in Step(Head(events)), fsm' = t.to, Pipe' = Append(Pipe, t.acts)
        PROVE  WatchedInv'
    <3>1. t.acts \in Seq(Action) /\ t.acts # << >> /\ Newest(t.acts) = OnEntry(fsm'.state)
      BY <1>1, <1>4, <2>3, TurnIs, StepType
    <3>2. Pipe' # << >> /\ Newest(Pipe') = t.acts
      BY <1>1, <2>3, <3>1, NewestOfAppend
    <3>3. \A i \in DOMAIN Pipe' : Pipe'[i] # << >>
      <4>1. /\ Pipe'[Len(Pipe) + 1] = t.acts /\ \A i \in DOMAIN Pipe : Pipe'[i] = Pipe[i]
            /\ \A i \in DOMAIN Pipe' : i = Len(Pipe) + 1 \/ i \in DOMAIN Pipe
        BY <1>1, <2>3, <3>1, AppendElements
      <4> QED BY <3>1, <4>1 DEF WatchedInv
    <3> QED BY <3>1, <3>2, <3>3 DEF WatchedInv
  <2> QED BY <1>4, <2>2, <2>3, TurnIs
<1>5. CASE FsmUnblocked
  <2>1. Pipe' = Pipe /\ UNCHANGED << fsm, events, doing, outbox, timer, timerCmds, beats, heard >>
    BY <1>5, UnblockedIs DEF FsmUnblocked, handlerVars, timerVars, serverVars
  <2>2. Timed' = Timed /\ Unheard' = Unheard
    BY <2>1 DEF Timed, Unheard
  <2> QED BY <2>1, <2>2 DEF WatchedInv
<1>6. CASE TakeActions
  <2>1. Pipe # << >> /\ doing' = Head(Pipe) /\ Pipe' = Tail(Pipe) /\ fsm' = fsm
    BY <1>6, TakeIs DEF TakeActions, fsmVars
  <2>2. /\ Head(Pipe) = Pipe[1] /\ 1 \in DOMAIN Pipe
        /\ \A i \in DOMAIN Pipe' : i + 1 \in DOMAIN Pipe /\ Pipe'[i] = Pipe[i + 1]
    BY <1>1, <2>1, TailElements
  <2>3. doing' # << >> /\ \A i \in DOMAIN Pipe' : Pipe'[i] # << >>
    BY <2>1, <2>2 DEF WatchedInv
  <2>4. Pipe' # << >> => Newest(Pipe') = Newest(Pipe)
    BY <1>1, <2>1, NewestOfTail
  <2>5. Pipe' = << >> => Newest(Pipe) = doing'
    BY <1>1, <2>1, NewestOfTail
  <2> QED BY <2>1, <2>3, <2>4, <2>5 DEF WatchedInv
<1>7. CASE Perform
  <2>1. /\ UNCHANGED << fsm, actions, held >> /\ Pipe' = Pipe /\ doing # << >> /\ doing' = Tail(doing)
        /\ outbox' = Messages(Head(doing))
    BY <1>7 DEF Perform, fsmVars, Pipe
  <2>2. CASE Pipe = << >> /\ doing' = << >> /\ fsm.state # "DeadServer"
    <3>1. Head(doing) = OnEntry(fsm.state)
      BY <1>1, <2>1, <2>2, NewestOfTail DEF WatchedInv
    <3>2. fsm.state \in {"StartingWait", "NotHeartbeatYet", "ItsAlive"}
      BY <1>1, <2>2 DEF Fsm, State
    <3>3. outbox' = << ToTimer("InitTimer") >>
      BY <2>1, <3>1, <3>2 DEF Messages, OnEntry
    <3> QED BY <2>1, <2>2, <3>3 DEF WatchedInv, Timed
  <2>3. CASE Pipe # << >> \/ doing' # << >> \/ fsm.state = "DeadServer"
    <3>1. doing' # << >> => Newest(doing') = Newest(doing)
      BY <1>1, <2>1, NewestOfTail
    <3> QED BY <2>1, <2>3, <3>1 DEF WatchedInv
  <2> QED BY <2>2, <2>3
<1>8. CASE HandlerSend
  <2>1. UNCHANGED << fsm, actions, held, doing, timer, beats, heard >> /\ outbox # << >> /\ outbox' = Tail(outbox)
    BY <1>8 DEF HandlerSend, fsmVars, serverVars
  <2>2. PICK m : m = Head(outbox)
    OBVIOUS
  <2>3. ASSUME Timed \/ Unheard
        PROVE  (Timed \/ Unheard)'
    <3>1. CASE outbox = << ToTimer("InitTimer") >>
      <4>1. outbox' = << >> /\ m = ToTimer("InitTimer")
        BY <2>1, <2>2, <3>1
      <4>2. timerCmds' = Append(timerCmds, "InitTimer")
        BY <1>8, <2>2, <4>1 DEF HandlerSend, ToTimer, Services
      <4>3. timerCmds' # << >> /\ Newest(timerCmds') = "InitTimer"
        <5>1. "InitTimer" \in TimerCommand
          BY DEF TimerCommand
        <5> QED BY <1>1, <4>2, <5>1, NewestOfAppend
      <4> QED BY <4>1, <4>3 DEF Timed
    <3>2. CASE outbox = << ToFsm >>
      <4>1. outbox' = << >> /\ m = ToFsm
        BY <2>1, <2>2, <3>2
      <4>2. events' = Append(events, "Heartbeat") /\ timerCmds' = timerCmds
        BY <1>8, <2>2, <4>1 DEF HandlerSend, ToFsm, Services
      <4>3. /\ events' # << >>
            /\ \A i \in DOMAIN events : i \in DOMAIN events' /\ events'[i] = events[i]
        BY <1>1, <4>2, AppendElements DEF Event
      <4>4. << ToFsm >> # << ToTimer("InitTimer") >>
        BY DEF ToFsm, ToTimer
      <4> QED BY <2>1, <2>3, <3>2, <4>1, <4>2, <4>3, <4>4 DEF Timed, Unheard
    <3> QED BY <2>1, <2>3, <3>1, <3>2 DEF Timed, Unheard
  <2> QED BY <1>2, <1>3, <2>1, <2>3 DEF WatchedInv
<1>9. CASE TakeBeat
  <2>1. /\ UNCHANGED << fsm, actions, held, doing, timer, timerCmds, events, heard >>
        /\ outbox = << >> /\ outbox' = << ToFsm >>
    BY <1>9 DEF TakeBeat, Idle, fsmVars, timerVars, serverVars
  <2>2. (Timed \/ Unheard) => (Timed \/ Unheard)'
    BY <2>1 DEF Timed, Unheard
  <2> QED BY <1>2, <1>3, <2>1, <2>2
<1>10. CASE TimerReceive
  <2>1. /\ UNCHANGED << fsm, actions, held, doing, outbox, events, beats, heard >>
        /\ timerCmds # << >> /\ timerCmds' = Tail(timerCmds)
        /\ timer \in {"idle", "active"} /\ timer' = Received(timer, Head(timerCmds))
    BY <1>1, <1>10 DEF TimerReceive, Listening, fsmVars, handlerVars
  <2>2. (Timed \/ Unheard) => (Timed \/ Unheard)'
    <3>1. CASE timerCmds' # << >>
      <4>1. Newest(timerCmds') = Newest(timerCmds)
        BY <1>1, <2>1, <3>1, NewestOfTail
      <4> QED BY <2>1, <3>1, <4>1 DEF Timed, Unheard
    <3>2. CASE timerCmds' = << >>
      <4>1. Newest(timerCmds) = Head(timerCmds)
        BY <1>1, <2>1, <3>2, NewestOfTail
      <4>2. Head(timerCmds) = "InitTimer" => Sleeping(timer')
        BY <2>1 DEF Received, Sleeping
      <4> QED BY <2>1, <3>2, <4>1, <4>2 DEF Timed, Unheard
    <3> QED BY <3>1, <3>2
  <2> QED BY <1>2, <1>3, <2>1, <2>2
<1>11. CASE TimerExpire
  <2>1. UNCHANGED << fsm, actions, held, doing, outbox, events, beats, heard, timerCmds >> /\ timer' = "firing"
    BY <1>11 DEF TimerExpire, fsmVars, handlerVars
  <2>2. (Timed \/ Unheard) => (Timed \/ Unheard)'
    BY <2>1 DEF Timed, Unheard
  <2> QED BY <1>2, <1>3, <2>1, <2>2
<1>12. CASE TimerFire
  <2>1. /\ UNCHANGED << fsm, actions, held, doing, outbox, beats, heard, timerCmds >>
        /\ timer = "firing" /\ events' = Append(events, "Timeout")
    BY <1>12 DEF TimerFire, fsmVars, handlerVars, serverVars
  <2>2. events' # << >> /\ \E i \in DOMAIN events' : events'[i] = "Timeout"
    BY <1>1, <2>1, AppendElements DEF Event
  <2>3. (Timed \/ Unheard) => (Timed \/ Unheard)'
    BY <2>1, <2>2 DEF Timed, Unheard
  <2> QED BY <1>2, <1>3, <2>1, <2>3
<1>13. CASE Beat \/ UNCHANGED vars
  <2>1. /\ UNCHANGED << fsm, actions, held, doing, outbox, events, timer, timerCmds >>
        /\ beats' = beats + 1 \/ UNCHANGED << beats, heard >>
    BY <1>13 DEF Beat, vars, fsmVars, handlerVars, timerVars, serverVars
  <2>2. (Timed \/ Unheard) => (Timed \/ Unheard)'
    BY <1>1, <2>1 DEF Timed, Unheard
  <2> QED BY <1>2, <1>3, <2>1, <2>2
<1> QED BY <1>4, <1>5, <1>6, <1>7, <1>8, <1>9, <1>10, <1>11, <1>12, <1>13 DEF Next, RunFsm, Handler, Timer

\* Whatever Timeout raced a beat and whatever InitTimer was swallowed, a server that has been
\* heard and not been given up is watched when all is quiet.
THEOREM WatchedCorrect == Spec => []Watched
<1>1. Init => WatchedInv
  <2>1. Init => Pipe = << >>
    BY InitType, PipeType DEF Init
  <2> QED BY <2>1 DEF Init, WatchedInv, Unheard
<1>2. TypeOK /\ WatchedInv /\ [Next]_vars => WatchedInv'
  BY WatchedInduction
<1>3. ASSUME TypeOK, WatchedInv, Quiet, heard > 0, fsm.state # "DeadServer"
      PROVE  Sleeping(timer) /\ Step("Timeout") # {}
  <2>1. /\ Pipe = << >> /\ doing = << >> /\ outbox = << >> /\ beats = 0 /\ events = << >>
        /\ timer # "firing" /\ (timerCmds = << >> \/ timer = "deaf")
    BY <1>3, PipeType DEF Quiet
  <2>2. Timed
    BY <1>3, <2>1 DEF WatchedInv, Unheard
  <2>3. Sleeping(timer)
    BY <2>1, <2>2 DEF Timed, Sleeping
  <2> QED BY <1>3, <2>3, StepSome DEF TypeOK, Event
<1>4. TypeOK /\ WatchedInv => Watched
  BY <1>3 DEF Watched
<1> QED BY TypeCorrect, <1>1, <1>2, <1>4, PTL DEF Spec
-----------------------------------------------------------------------------
(* The log of the timer's commands: q is everything that the vectors of the machine have *)
(* ever had for the timer, in that order, and the timer has received the first b of it.  *)

\* What is left of a vector is about the commands of the log from after a to z.
Yields(v, q, a, z) ==
  /\ a \in Nat /\ z \in Nat /\ a <= z /\ z <= Len(q)
  /\ \/ v = << >> /\ z = a
     \/ v = << OnEntry("DeadServer") >> /\ z = a
     \/ /\ \E old, new \in Status : v = << SendStatusConditional(old, new), OnEntry("DeadServer") >>
        /\ z = a
     \/ /\ \E s \in State \ {"DeadServer"} : v = << OnEntry(s) >>
        /\ z = a + 1 /\ q[z] = "InitTimer"
     \/ /\ \E s \in State \ {"DeadServer"} :
             \/ v = << StopTimer, OnEntry(s) >>
             \/ \E old, new \in Status : v = << SendStatusConditional(old, new), StopTimer, OnEntry(s) >>
        /\ z = a + 2 /\ q[a + 1] = "StopTimer" /\ q[z] = "InitTimer"

\* What the handler is sending is about the commands from after c to d.
Sends(q, c, d) ==
  /\ c \in Nat /\ d \in Nat
  /\ \/ d = c /\ \A i \in DOMAIN outbox : outbox[i].to # "timer"
     \/ /\ d = c + 1 /\ d <= Len(q)
        /\ outbox = << ToTimer(q[d]) >>

\* The channel of the timer holds the commands from after b to c; the vectors on their way
\* are about the rest.
Track(q, b, c, d, st) ==
  /\ c = b + Len(timerCmds) /\ \A i \in DOMAIN timerCmds : timerCmds[i] = q[b + i]
  /\ Sends(q, c, d) /\ Yields(doing, q, d, st[1])
  /\ Len(st) = Len(Pipe) + 1 /\ Newest(st) = Len(q)
  /\ \A i \in DOMAIN Pipe : Yields(Pipe[i], q, st[i], st[i + 1])

Logged(q, b) == \E c, d \in Nat, st \in Seq(Nat) : Track(q, b, c, d, st)

\* The next command for the timer, and when there is none.
LEMMA LogIs ==
  ASSUME TypeOK, NEW q \in Seq(TimerCommand), NEW b \in Nat, Logged(q, b)
  PROVE  /\ b <= Len(q)
         /\ timerCmds # << >> => b + 1 \in DOMAIN q /\ Head(timerCmds) = q[b + 1]
         /\ Quiet /\ timerCmds = << >> => b = Len(q)
<1>1. PICK c \in Nat, d \in Nat, st \in Seq(Nat) : Track(q, b, c, d, st)
  BY DEF Logged
<1>2. timerCmds \in Seq(TimerCommand) /\ Len(timerCmds) \in Nat /\ Len(q) \in Nat
  BY EmptyLength DEF TypeOK
<1>3. c = b + Len(timerCmds) /\ c <= d /\ d <= Len(q)
  BY <1>1, <1>2 DEF Track, Sends, Yields
<1>4. b <= Len(q)
  BY <1>2, <1>3
<1>5. ASSUME timerCmds # << >>
      PROVE  b + 1 \in DOMAIN q /\ Head(timerCmds) = q[b + 1]
  <2>1. Head(timerCmds) = timerCmds[1] /\ 1 \in DOMAIN timerCmds /\ Len(timerCmds) \in Nat \ {0}
    BY <1>2, <1>5, TailElements
  <2>2. b + 1 <= Len(q)
    BY <1>2, <1>3, <2>1
  <2>3. b + 1 \in DOMAIN q
    BY <1>2, <2>2
  <2> QED BY <1>1, <2>1, <2>3 DEF Track
<1>6. ASSUME Quiet, timerCmds = << >>
      PROVE  b = Len(q)
  <2>1. Len(timerCmds) = 0 /\ Pipe = << >> /\ doing = << >> /\ outbox = << >>
    BY <1>6, PipeType DEF Quiet
  <2>2. Len(Pipe) = 0
    BY <2>1
  <2>3. d = c
    BY <1>1, <2>1 DEF Track, Sends
  <2>4. st[1] = d
    BY <1>1, <2>1 DEF Track, Yields
  <2>5. st[1] = Len(q)
    BY <1>1, <2>2 DEF Track, Newest
  <2> QED BY <1>3, <2>1, <2>3, <2>4, <2>5
<1> QED BY <1>4, <1>5, <1>6

\* The commands of a vector are put at the end of the log.
LEMMA LogGrows ==
  ASSUME TypeOK, NEW q \in Seq(TimerCommand), NEW b \in Nat, Logged(q, b),
         UNCHANGED << doing, outbox, timerCmds >>,
         NEW v \in Seq(Action), Pipe' = Append(Pipe, v),
         NEW r \in Seq(TimerCommand), Len(q) <= Len(r), \A i \in DOMAIN q : r[i] = q[i],
         Yields(v, r, Len(q), Len(r))
  PROVE  Logged(r, b)'
<1>1. PICK c \in Nat, d \in Nat, st \in Seq(Nat) : Track(q, b, c, d, st)
  BY DEF Logged
<1>2. timerCmds \in Seq(TimerCommand) /\ Len(timerCmds) \in Nat /\ Len(q) \in Nat /\ Len(r) \in Nat
      /\ Pipe \in Seq(Seq(Action)) /\ Len(Pipe) \in Nat
  BY EmptyLength, PipeType DEF TypeOK
<1>3. ASSUME NEW w, NEW a, NEW z, Yields(w, q, a, z)
      PROVE  Yields(w, r, a, z)
  <2>1. a \in Nat /\ z \in Nat /\ a <= z /\ z <= Len(r) /\ z <= Len(q)
    BY <1>2, <1>3 DEF Yields
  <2>2. (z = a + 1 \/ z = a + 2) => z \in DOMAIN q /\ a + 1 \in DOMAIN q
    BY <1>2, <2>1
  <2>3. (z = a + 1 \/ z = a + 2) => r[z] = q[z] /\ r[a + 1] = q[a + 1]
    BY <2>2
  <2> QED BY <1>3, <2>1, <2>3 DEF Yields
<1>4. PICK next : next = Append(st, Len(r))
  OBVIOUS
<1>5. /\ next \in Seq(Nat) /\ Len(next) = Len(st) + 1 /\ Newest(next) = Len(r)
      /\ \A i \in DOMAIN st : next[i] = st[i]
      /\ next[Len(st) + 1] = Len(r)
  BY <1>2, <1>4, AppendElements, NewestOfAppend
<1>6. /\ Pipe' \in Seq(Seq(Action)) /\ Len(Pipe') = Len(Pipe) + 1
      /\ \A i \in DOMAIN Pipe : Pipe'[i] = Pipe[i]
      /\ Pipe'[Len(Pipe) + 1] = v
      /\ \A i \in DOMAIN Pipe' : i = Len(Pipe) + 1 \/ i \in DOMAIN Pipe
  BY <1>2, AppendElements
<1>7. Len(st) = Len(Pipe) + 1 /\ Newest(st) = Len(q) /\ 1 \in DOMAIN st
  BY <1>1, <1>2 DEF Track
<1>8. \A i \in DOMAIN Pipe' : Yields(Pipe'[i], r, next[i], next[i + 1])
  <2>1. SUFFICES ASSUME NEW i \in DOMAIN Pipe'
                 PROVE  Yields(Pipe'[i], r, next[i], next[i + 1])
    OBVIOUS
  <2>2. CASE i \in DOMAIN Pipe
    <3>1. i \in DOMAIN st /\ i + 1 \in DOMAIN st
      BY <1>2, <1>7, <2>2
    <3>2. next[i] = st[i] /\ next[i + 1] = st[i + 1] /\ Pipe'[i] = Pipe[i]
      BY <1>5, <1>6, <2>2, <3>1
    <3> QED BY <1>1, <1>3, <2>2, <3>2 DEF Track
  <2>3. CASE i = Len(Pipe) + 1
    <3>1. i = Len(st) /\ i \in DOMAIN st /\ i + 1 = Len(st) + 1
      BY <1>2, <1>7, <2>3
    <3>2. next[i] = Len(q) /\ next[i + 1] = Len(r) /\ Pipe'[i] = v
      BY <1>5, <1>6, <1>7, <2>3, <3>1 DEF Newest
    <3> QED BY <3>2
  <2> QED BY <1>6, <2>2, <2>3
<1>9. next[1] = st[1] /\ Len(next) = Len(Pipe') + 1
  BY <1>2, <1>5, <1>6, <1>7
<1>10. Yields(doing', r, d, next[1])
  BY <1>1, <1>3, <1>9 DEF Track
<1>11. Sends(r, c, d)'
  <2>1. d = c + 1 /\ d <= Len(q) => d \in DOMAIN q /\ d <= Len(r)
    BY <1>2
  <2> QED BY <1>1, <2>1 DEF Track, Sends
<1>12. \A i \in DOMAIN timerCmds : r[b + i] = q[b + i]
  <2>1. c <= Len(q)
    <3>1. c <= d
      BY <1>1 DEF Track, Sends
    <3>2. d <= st[1] /\ st[1] <= Len(q) /\ st[1] \in Nat
      BY <1>1 DEF Track, Yields
    <3> QED BY <1>2, <3>1, <3>2
  <2>2. \A i \in DOMAIN timerCmds : b + i \in DOMAIN q
    BY <1>1, <1>2, <2>1 DEF Track
  <2> QED BY <2>2
<1>13. c = b + Len(timerCmds') /\ \A i \in DOMAIN timerCmds' : timerCmds'[i] = r[b + i]
  BY <1>1, <1>12 DEF Track
<1>14. Track(r, b, c, d, next)'
  BY <1>5, <1>8, <1>9, <1>10, <1>11, <1>13 DEF Track
<1> QED BY <1>5, <1>14 DEF Logged

\* The handler takes a vector, performs an action, or sends.
LEMMA LogTaken ==
  ASSUME TypeOK, NEW q \in Seq(TimerCommand), NEW b \in Nat, Logged(q, b), TakeActions
  PROVE  Logged(q, b)'
<1>1. PICK c \in Nat, d \in Nat, st \in Seq(Nat) : Track(q, b, c, d, st)
  BY DEF Logged
<1>2. /\ Pipe \in Seq(Seq(Action)) /\ Pipe # << >> /\ doing' = Head(Pipe) /\ Pipe' = Tail(Pipe)
      /\ doing = << >> /\ UNCHANGED << outbox, timerCmds >>
  BY PipeType, TakeIs DEF TakeActions, Idle, timerVars
<1>3. /\ doing' = Pipe[1] /\ 1 \in DOMAIN Pipe /\ Pipe' \in Seq(Seq(Action)) /\ Len(Pipe') = Len(Pipe) - 1
      /\ Len(Pipe) \in Nat \ {0}
      /\ \A i \in DOMAIN Pipe' : i \in Nat \ {0} /\ i + 1 \in DOMAIN Pipe /\ Pipe'[i] = Pipe[i + 1]
  BY <1>2, TailElements
<1>4. Len(st) = Len(Pipe) + 1 /\ Newest(st) = Len(q) /\ d = st[1] /\ Yields(Pipe[1], q, st[1], st[2])
  <2>1. Yields(Pipe[1], q, st[1], st[1 + 1])
    BY <1>1, <1>3 DEF Track
  <2>2. d = st[1]
    BY <1>1, <1>2 DEF Track, Yields
  <2>3. 1 + 1 = 2
    OBVIOUS
  <2> QED BY <1>1, <2>1, <2>2, <2>3, Zenon DEF Track
<1>5. st # << >> /\ Len(st) \in Nat \ {0} /\ Len(st) - 1 \in Nat \ {0}
  BY <1>3, <1>4, EmptyLength
<1>6. PICK next : next = Tail(st)
  OBVIOUS
<1>7. /\ next \in Seq(Nat) /\ Len(next) = Len(st) - 1
      /\ \A i \in DOMAIN next : next[i] = st[i + 1]
  BY <1>5, <1>6, TailElements
<1>8. next # << >> /\ Newest(next) = Len(q)
  <2>1. next # << >>
    BY <1>5, <1>7, EmptyLength
  <2> QED BY <1>4, <1>5, <1>6, <2>1, NewestOfTail
<1>9. Len(next) = Len(Pipe') + 1 /\ Len(next) \in Nat \ {0}
  <2>1. PICK n, k, m, p : n = Len(Pipe) /\ k = Len(st) /\ m = Len(next) /\ p = Len(Pipe')
    OBVIOUS
  <2>2. k = n + 1 /\ p = n - 1 /\ m = k - 1 /\ n \in Nat \ {0}
    BY <1>3, <1>4, <1>7, <2>1, Zenon
  <2>3. m = p + 1 /\ m \in Nat \ {0}
    BY <2>2
  <2> QED BY <2>1, <2>3, Zenon
<1>10. \A i \in DOMAIN Pipe' : Yields(Pipe'[i], q, next[i], next[i + 1])
  <2>1. SUFFICES ASSUME NEW i \in DOMAIN Pipe'
                 PROVE  Yields(Pipe'[i], q, next[i], next[i + 1])
    OBVIOUS
  <2>2. i \in DOMAIN next /\ i + 1 \in DOMAIN next /\ i + 1 \in DOMAIN Pipe
    <3>1. PICK m, k : m = Len(next) /\ k = Len(Pipe')
      OBVIOUS
    <3>2. DOMAIN next = 1 .. m /\ DOMAIN Pipe' = 1 .. k /\ m \in Nat /\ k \in Nat /\ m = k + 1
      BY <1>3, <1>7, <1>9, <3>1, EmptyLength, Zenon
    <3>3. i \in 1 .. m /\ i + 1 \in 1 .. m
      BY <3>2
    <3> QED BY <1>3, <3>2, <3>3
  <2>3. next[i] = st[i + 1] /\ next[i + 1] = st[(i + 1) + 1] /\ Pipe'[i] = Pipe[i + 1]
    BY <1>3, <1>7, <2>2
  <2> QED BY <1>1, <2>2, <2>3 DEF Track
<1>11. Len(next) = Len(Pipe') + 1 /\ next[1] = st[2]
  <2>1. 1 \in DOMAIN next
    BY <1>7, <1>9
  <2>2. next[1] = st[1 + 1]
    BY <1>7, <2>1
  <2> QED BY <1>9, <2>2
<1>12. Track(q, b, c, d, next)'
  BY <1>1, <1>2, <1>3, <1>4, <1>8, <1>10, <1>11 DEF Track, Sends
<1> QED BY <1>7, <1>12 DEF Logged

LEMMA LogPerformed ==
  ASSUME TypeOK, NEW q \in Seq(TimerCommand), NEW b \in Nat, Logged(q, b), Perform
  PROVE  Logged(q, b)'
<1>1. PICK c \in Nat, d \in Nat, st \in Seq(Nat) : Track(q, b, c, d, st)
  BY DEF Logged
<1>2. /\ doing # << >> /\ doing' = Tail(doing) /\ outbox = << >> /\ outbox' = Messages(Head(doing))
      /\ Pipe' = Pipe /\ UNCHANGED timerCmds
  BY DEF Perform, fsmVars, timerVars, Pipe
<1>3. d = c /\ Yields(doing, q, d, st[1])
  BY <1>1, <1>2 DEF Track, Sends
<1>4. ASSUME NEW e \in Nat, Sends(q, c, e)', Yields(doing', q, e, st[1])
      PROVE  Logged(q, b)'
  <2>1. Track(q, b, c, e, st)'
    BY <1>1, <1>2, <1>4 DEF Track
  <2> QED BY <2>1 DEF Logged
<1>5. ASSUME NEW old \in Status, NEW new \in Status, Head(doing) = SendStatusConditional(old, new)
      PROVE  Sends(q, c, c)'
  <2>1. CASE old = new
    BY <1>2, <1>5, <2>1 DEF Sends, Messages, SendStatusConditional
  <2>2. CASE old # new
    <3>1. PICK x, y, w : x = Tell("metrics", new) /\ y = Tell("data", new) /\ w = Tell("message", new)
      OBVIOUS
    <3>2. outbox' = << x, y, w >>
      BY <1>2, <1>5, <2>2, <3>1 DEF Messages, SendStatusConditional
    <3>3. x.to # "timer" /\ y.to # "timer" /\ w.to # "timer"
      BY <3>1 DEF Tell
    <3>4. DOMAIN outbox' = 1 .. 3 /\ outbox'[1] = x /\ outbox'[2] = y /\ outbox'[3] = w
      BY <3>2
    <3>5. \A i \in DOMAIN outbox' : i = 1 \/ i = 2 \/ i = 3
      BY <3>4
    <3> QED BY <3>3, <3>4, <3>5 DEF Sends
  <2> QED BY <2>1, <2>2
<1>6. CASE doing = << OnEntry("DeadServer") >> /\ st[1] = d
  <2>1. outbox' = << >> /\ doing' = << >>
    BY <1>2, <1>6 DEF Messages, OnEntry
  <2>2. Sends(q, c, c)' /\ Yields(doing', q, c, st[1])
    BY <1>3, <1>6, <2>1 DEF Sends, Yields
  <2> QED BY <1>4, <2>2
<1>7. CASE /\ \E old, new \in Status : doing = << SendStatusConditional(old, new), OnEntry("DeadServer") >>
           /\ st[1] = d
  <2>1. PICK old \in Status, new \in Status : doing = << SendStatusConditional(old, new), OnEntry("DeadServer") >>
    BY <1>7
  <2>2. Head(doing) = SendStatusConditional(old, new) /\ doing' = << OnEntry("DeadServer") >>
    BY <1>2, <2>1
  <2>3. Yields(doing', q, c, st[1])
    BY <1>3, <1>7, <2>2 DEF Yields
  <2> QED BY <1>4, <1>5, <2>2, <2>3
<1>8. CASE /\ \E s \in State \ {"DeadServer"} : doing = << OnEntry(s) >>
           /\ st[1] = d + 1 /\ q[st[1]] = "InitTimer"
  <2>1. PICK s \in State \ {"DeadServer"} : doing = << OnEntry(s) >>
    BY <1>8
  <2>2. Head(doing) = OnEntry(s) /\ doing' = << >> /\ s \in {"StartingWait", "NotHeartbeatYet", "ItsAlive"}
    BY <1>2, <2>1 DEF State
  <2>3. outbox' = << ToTimer("InitTimer") >>
    BY <1>2, <2>2 DEF Messages, OnEntry
  <2>4. Sends(q, c, st[1])' /\ Yields(doing', q, st[1], st[1]) /\ st[1] \in Nat
    BY <1>3, <1>8, <2>2, <2>3 DEF Sends, Yields
  <2> QED BY <1>4, <2>4
<1>9. CASE /\ \E s \in State \ {"DeadServer"} : doing = << StopTimer, OnEntry(s) >>
           /\ st[1] = d + 2 /\ q[d + 1] = "StopTimer" /\ q[st[1]] = "InitTimer"
  <2>1. PICK s \in State \ {"DeadServer"} : doing = << StopTimer, OnEntry(s) >>
    BY <1>9
  <2>2. Head(doing) = StopTimer /\ doing' = << OnEntry(s) >>
    BY <1>2, <2>1
  <2>3. outbox' = << ToTimer("StopTimer") >>
    BY <1>2, <2>2 DEF Messages, StopTimer
  <2>4. Sends(q, c, d + 1)' /\ Yields(doing', q, d + 1, st[1]) /\ d + 1 \in Nat
    BY <1>3, <1>9, <2>2, <2>3 DEF Sends, Yields
  <2> QED BY <1>4, <2>4
<1>10. CASE /\ \E s \in State \ {"DeadServer"}, old, new \in Status :
                 doing = << SendStatusConditional(old, new), StopTimer, OnEntry(s) >>
            /\ st[1] = d + 2 /\ q[d + 1] = "StopTimer" /\ q[st[1]] = "InitTimer"
  <2>1. PICK s \in State \ {"DeadServer"}, old \in Status, new \in Status :
               doing = << SendStatusConditional(old, new), StopTimer, OnEntry(s) >>
    BY <1>10
  <2>2. Head(doing) = SendStatusConditional(old, new) /\ doing' = << StopTimer, OnEntry(s) >>
    BY <1>2, <2>1
  <2>3. Yields(doing', q, c, st[1])
    BY <1>3, <1>10, <2>2 DEF Yields
  <2> QED BY <1>4, <1>5, <2>2, <2>3
<1> QED BY <1>2, <1>3, <1>6, <1>7, <1>8, <1>9, <1>10 DEF Yields

LEMMA LogSent ==
  ASSUME TypeOK, NEW q \in Seq(TimerCommand), NEW b \in Nat, Logged(q, b), HandlerSend
  PROVE  Logged(q, b)'
<1>1. PICK c \in Nat, d \in Nat, st \in Seq(Nat) : Track(q, b, c, d, st)
  BY DEF Logged
<1>2. /\ outbox \in Seq(Message) /\ outbox # << >> /\ outbox' = Tail(outbox) /\ Pipe' = Pipe /\ doing' = doing
      /\ timerCmds \in Seq(TimerCommand) /\ Len(timerCmds) \in Nat
  BY EmptyLength DEF TypeOK, HandlerSend, fsmVars, Pipe
<1>3. PICK m : m = Head(outbox)
  OBVIOUS
<1>4. CASE d = c /\ \A i \in DOMAIN outbox : outbox[i].to # "timer"
  <2>1. m.to # "timer" /\ \A i \in DOMAIN outbox' : outbox'[i].to # "timer"
    BY <1>2, <1>3, <1>4, TailElements
  <2>2. timerCmds' = timerCmds
    BY <1>3, <2>1 DEF HandlerSend
  <2>3. Track(q, b, c, d, st)'
    BY <1>1, <1>2, <1>4, <2>1, <2>2 DEF Track, Sends
  <2> QED BY <2>3 DEF Logged
<1>5. CASE d = c + 1 /\ d <= Len(q) /\ outbox = << ToTimer(q[d]) >>
  <2>1. m = ToTimer(q[d]) /\ outbox' = << >>
    BY <1>2, <1>3, <1>5
  <2>2. timerCmds' = Append(timerCmds, q[d])
    BY <1>3, <2>1 DEF HandlerSend, ToTimer, Services
  <2>3. q[d] \in TimerCommand
    BY <1>5
  <2>4. /\ Len(timerCmds') = Len(timerCmds) + 1 /\ timerCmds'[Len(timerCmds) + 1] = q[d]
        /\ \A i \in DOMAIN timerCmds : timerCmds'[i] = timerCmds[i]
        /\ \A i \in DOMAIN timerCmds' : i = Len(timerCmds) + 1 \/ i \in DOMAIN timerCmds
    BY <1>2, <2>2, <2>3, AppendElements
  <2>5. c = b + Len(timerCmds) /\ \A i \in DOMAIN timerCmds : timerCmds[i] = q[b + i]
    BY <1>1 DEF Track
  <2>6. d = b + Len(timerCmds') /\ d = b + (Len(timerCmds) + 1)
    BY <1>2, <1>5, <2>4, <2>5
  <2>7. \A i \in DOMAIN timerCmds' : timerCmds'[i] = q[b + i]
    BY <2>4, <2>5, <2>6
  <2>8. Sends(q, d, d)'
    BY <2>1 DEF Sends
  <2>9. Track(q, b, d, d, st)'
    BY <1>1, <1>2, <2>6, <2>7, <2>8 DEF Track
  <2> QED BY <2>9 DEF Logged
<1> QED BY <1>1, <1>4, <1>5 DEF Track, Sends

\* The timer receives a command.
LEMMA LogReceived ==
  ASSUME TypeOK, NEW q \in Seq(TimerCommand), NEW b \in Nat, Logged(q, b), TimerReceive
  PROVE  Logged(q, b + 1)'
<1>1. PICK c \in Nat, d \in Nat, st \in Seq(Nat) : Track(q, b, c, d, st)
  BY DEF Logged
<1>2. /\ timerCmds \in Seq(TimerCommand) /\ timerCmds # << >> /\ timerCmds' = Tail(timerCmds)
      /\ Pipe' = Pipe /\ UNCHANGED << outbox, doing >>
  BY DEF TypeOK, TimerReceive, fsmVars, handlerVars, Pipe
<1>3. /\ Len(timerCmds') = Len(timerCmds) - 1 /\ Len(timerCmds) \in Nat \ {0}
      /\ \A i \in DOMAIN timerCmds' : i \in Nat \ {0} /\ i + 1 \in DOMAIN timerCmds /\ timerCmds'[i] = timerCmds[i + 1]
  BY <1>2, TailElements
<1>4. c = b + Len(timerCmds) /\ \A i \in DOMAIN timerCmds : timerCmds[i] = q[b + i]
  BY <1>1 DEF Track
<1>5. c = (b + 1) + Len(timerCmds')
  <2>1. PICK n, k : n = Len(timerCmds) /\ k = Len(timerCmds')
    OBVIOUS
  <2>2. k = n - 1 /\ n \in Nat \ {0} /\ c = b + n
    BY <1>3, <1>4, <2>1, Zenon
  <2>3. c = (b + 1) + k
    BY <2>2
  <2> QED BY <2>1, <2>3, Zenon
<1>6. \A i \in DOMAIN timerCmds' : timerCmds'[i] = q[(b + 1) + i]
  <2>1. SUFFICES ASSUME NEW i \in DOMAIN timerCmds'
                 PROVE  timerCmds'[i] = q[(b + 1) + i]
    OBVIOUS
  <2>2. i \in Nat /\ timerCmds'[i] = q[b + (i + 1)]
    BY <1>3, <1>4
  <2>3. b + (i + 1) = (b + 1) + i
    BY <2>2
  <2> QED BY <2>2, <2>3
<1>7. Track(q, b + 1, c, d, st)'
  BY <1>1, <1>2, <1>5, <1>6 DEF Track, Sends
<1> QED BY <1>7 DEF Logged

\* Nothing is sent or received.
LEMMA LogKept ==
  ASSUME NEW q \in Seq(TimerCommand), NEW b \in Nat, Logged(q, b), UNCHANGED << Pipe, doing, timerCmds >>,
         UNCHANGED outbox \/ (outbox = << >> /\ outbox' = << ToFsm >>)
  PROVE  Logged(q, b)'
<1>1. PICK c \in Nat, d \in Nat, st \in Seq(Nat) : Track(q, b, c, d, st)
  BY DEF Logged
<1>2. Sends(q, c, d)'
  <2>1. CASE UNCHANGED outbox
    BY <1>1, <2>1 DEF Track, Sends
  <2>2. CASE outbox = << >> /\ outbox' = << ToFsm >>
    <3>1. \A i \in DOMAIN outbox' : outbox'[i].to # "timer"
      BY <2>2 DEF ToFsm
    <3> QED BY <1>1, <2>2, <3>1 DEF Track, Sends
  <2> QED BY <2>1, <2>2
<1>3. Track(q, b, c, d, st)'
  BY <1>1, <1>2 DEF Track
<1> QED BY <1>3 DEF Logged
-----------------------------------------------------------------------------
(* No Timeout without a silence *)

\* A Timeout that the machine has not had yet.
Late == \E i \in DOMAIN events : events[i] = "Timeout"

\* A command to start that is behind another one, the second of which the timer has yet to
\* receive (and, if the first was the last it received, whose sleep is running).
Pair(q, b, i) ==
  /\ i \in DOMAIN q /\ i + 1 \in DOMAIN q /\ i >= b
  /\ q[i] = "InitTimer" /\ q[i + 1] = "InitTimer"
  /\ i = b => timer = "active"

\* Of Timeouts on their way, timers that are deaf and pairs there is one at most.
Alone(q, b) ==
  /\ \A i, j \in DOMAIN q : Pair(q, b, i) /\ Pair(q, b, j) => i = j
  /\ Late \/ timer \in {"firing", "deaf"} => \A i \in DOMAIN q : ~Pair(q, b, i)
  /\ timer \in {"firing", "deaf"} => ~Late
  /\ \A i, j \in DOMAIN events : events[i] = "Timeout" /\ events[j] = "Timeout" => i = j

\* Once warned, the machine has a Timeout only from a sleep that no beat has interrupted.
Warning(q, b) ==
  /\ Late => timer = "idle"
  /\ Late \/ timer = "firing" => b = Len(q) /\ silent
  /\ timer = "deaf" => b = Len(q)
  /\ \A i \in DOMAIN q : Pair(q, b, i) => i + 1 = Len(q)

Order(q, b) ==
  /\ timer = "active" => b \in DOMAIN q /\ q[b] = "InitTimer"
  /\ Alone(q, b)
  /\ fsm.state = "NotHeartbeatYet" => Warning(q, b)
  /\ fsm.state = "DeadServer" => b = Len(q) /\ timer = "idle" /\ ~Late
  /\ Sleeping(timer) /\ (\A i \in DOMAIN q : i > b => q[i] # "StopTimer") => fresh \/ silent

OrderInv == \E q \in Seq(TimerCommand), b \in Nat : Logged(q, b) /\ Order(q, b)

\* The entry into a state in which the timer runs is about one command to start.
LEMMA StartYields ==
  ASSUME NEW r, NEW n \in Nat, Len(r) = n + 1, r[n + 1] = "InitTimer", NEW s \in State \ {"DeadServer"}
  PROVE  Yields(<< OnEntry(s) >>, r, n, Len(r))
<1>1. PICK z, v : z = Len(r) /\ v = << OnEntry(s) >>
  OBVIOUS
<1>2. z \in Nat /\ n <= z /\ z <= Len(r) /\ z = n + 1 /\ r[z] = "InitTimer"
  BY <1>1
<1>3. Yields(v, r, n, z)
  BY <1>1, <1>2, Zenon DEF Yields
<1> QED BY <1>1, <1>3

\* A beat is taken: the commands of its vector stop the timer and start it, or start it
\* when it has been idle.
LEMMA BeatOrder ==
  ASSUME TypeOK, NEW q \in Seq(TimerCommand), NEW b \in Nat, Logged(q, b), Order(q, b),
         FsmTurn, Head(events) = "Heartbeat"
  PROVE  OrderInv'
<1>1. /\ events \in Seq(Event) /\ events # << >> /\ events' = Tail(events)
      /\ UNCHANGED << doing, outbox, timer, timerCmds >> /\ fsm \in Fsm
  BY DEF TypeOK, FsmTurn, handlerVars, timerVars
<1>2. Late' = Late /\ \A i, j \in DOMAIN events' : events'[i] = "Timeout" /\ events'[j] = "Timeout" => i = j
  <2>1. /\ events[1] = "Heartbeat"
        /\ \A i \in DOMAIN events' : i \in Nat \ {0} /\ i + 1 \in DOMAIN events /\ events'[i] = events[i + 1]
        /\ \A i \in DOMAIN events : i = 1 \/ (i - 1 \in DOMAIN events' /\ events[i] = events'[i - 1])
    BY <1>1, TailElements
  <2>2. \A i, j \in DOMAIN events' : events'[i] = "Timeout" /\ events'[j] = "Timeout" => i + 1 = j + 1
    BY <2>1 DEF Order, Alone
  <2> QED BY <2>1, <2>2 DEF Late
<1>3. /\ b <= Len(q) /\ Len(q) \in Nat /\ DOMAIN q = 1 .. Len(q)
  BY LogIs, EmptyLength
<1>4. PICK t \in Step("Heartbeat") : fsm' = t.to /\ Pipe' = Append(Pipe, t.acts)
  <2>1. CASE Step("Heartbeat") # {}
    BY <2>1, TurnIs
  <2>2. CASE Step("Heartbeat") = {}
    BY <1>1, <2>2 DEF Step, StepInner, To, ToStatus, Fsm, State
  <2> QED BY <2>1, <2>2
<1>5. Revived(t) \/ Beaten(t) \/ Returned(t)
  BY <1>1, StepIs DEF Event
<1>6. PICK v \in Seq(Action) : v = t.acts /\ Pipe' = Append(Pipe, v)
  BY <1>1, <1>4, StepType DEF Event
<1>7. CASE Revived(t) \/ Beaten(t)
  <2>1. PICK p : p = Append(q, "StopTimer")
    OBVIOUS
  <2>2. PICK r : r = Append(p, "InitTimer")
    OBVIOUS
  <2>3. /\ p \in Seq(TimerCommand) /\ Len(p) = Len(q) + 1 /\ p[Len(q) + 1] = "StopTimer"
        /\ \A i \in DOMAIN q : i \in DOMAIN p /\ p[i] = q[i]
    BY <2>1, AppendElements DEF TimerCommand
  <2>4. /\ r \in Seq(TimerCommand) /\ Len(r) = Len(p) + 1 /\ r[Len(p) + 1] = "InitTimer"
        /\ \A i \in DOMAIN p : i \in DOMAIN r /\ r[i] = p[i]
    BY <2>2, <2>3, AppendElements DEF TimerCommand
  <2>5. /\ Len(r) = Len(q) + 2 /\ r[Len(q) + 1] = "StopTimer" /\ r[Len(q) + 2] = "InitTimer"
        /\ \A i \in DOMAIN q : r[i] = q[i]
        /\ DOMAIN r = 1 .. Len(q) + 2
    <3>1. Len(q) + 1 \in DOMAIN p
      BY <1>3, <2>3
    <3>2. r[Len(q) + 1] = "StopTimer" /\ \A i \in DOMAIN q : r[i] = q[i]
      BY <2>3, <2>4, <3>1
    <3>3. Len(r) = Len(q) + 2 /\ Len(p) + 1 = Len(q) + 2
      BY <1>3, <2>3, <2>4
    <3> QED BY <2>4, <3>2, <3>3, EmptyLength
  <2>6. Yields(v, r, Len(q), Len(r))
    <3>1. "ItsAlive" \in State \ {"DeadServer"} /\ "StartingWait" \in State \ {"DeadServer"}
          /\ fsm.old_status \in Status /\ "Connected" \in Status
      BY <1>1 DEF State, Status, Fsm
    <3>2. \E s \in State \ {"DeadServer"} :
               \/ v = << StopTimer, OnEntry(s) >>
               \/ \E old, new \in Status : v = << SendStatusConditional(old, new), StopTimer, OnEntry(s) >>
      <4>1. CASE Beaten(t)
        BY <1>6, <3>1, <4>1 DEF Beaten
      <4>2. CASE Revived(t)
        <5>1. v = << SendStatusConditional(fsm.old_status, "Connected"), StopTimer, OnEntry("ItsAlive") >>
          BY <1>6, <4>2 DEF Revived
        <5> QED BY <3>1, <5>1, Zenon
      <4> QED BY <1>7, <4>1, <4>2
    <3>3. PICK a, z : a = Len(q) /\ z = Len(r)
      OBVIOUS
    <3>4. a \in Nat /\ z \in Nat /\ a <= z /\ z <= Len(r) /\ z = a + 2 /\ r[a + 1] = "StopTimer" /\ r[z] = "InitTimer"
      BY <1>3, <2>5, <3>3
    <3>5. Yields(v, r, a, z)
      BY <3>2, <3>4, Zenon DEF Yields
    <3> QED BY <3>3, <3>5
  <2>7. Logged(r, b)'
    <3>1. Len(q) <= Len(r) /\ \A i \in DOMAIN q : r[i] = q[i]
      BY <1>3, <2>5
    <3> QED BY <1>1, <1>6, <2>4, <2>6, <3>1, LogGrows
  <2>8. \A i \in DOMAIN r : Pair(r, b, i)' => i \in DOMAIN q /\ Pair(q, b, i)
    <3>1. SUFFICES ASSUME NEW i \in DOMAIN r, Pair(r, b, i)'
                   PROVE  i \in DOMAIN q /\ Pair(q, b, i)
      OBVIOUS
    <3>2. i + 1 \in DOMAIN r /\ i >= b /\ r[i] = "InitTimer" /\ r[i + 1] = "InitTimer" /\ (i = b => timer = "active")
      BY <1>1, <3>1 DEF Pair
    <3>3. i \in DOMAIN q /\ i + 1 \in DOMAIN q
      <4>1. i # Len(q) /\ i # Len(q) + 1
        BY <2>5, <3>2
      <4> QED BY <1>3, <2>5, <3>1, <3>2, <4>1
    <3> QED BY <2>5, <3>2, <3>3 DEF Pair
  <2>9. fsm'.state \in {"ItsAlive", "StartingWait"}
    BY <1>1, <1>4, <1>7 DEF Revived, Beaten, Fsm
  <2>10. timer' = "active" => b \in DOMAIN r /\ r[b] = "InitTimer"
    <3>1. timer' = "active" => b \in DOMAIN q /\ q[b] = "InitTimer"
      BY <1>1 DEF Order
    <3>2. b \in DOMAIN q => b \in DOMAIN r /\ r[b] = q[b]
      BY <1>3, <2>5
    <3> QED BY <3>1, <3>2
  <2>11. Alone(r, b)'
    BY <1>1, <1>2, <2>8 DEF Order, Alone
  <2>12. Len(q) + 1 \in DOMAIN r /\ Len(q) + 1 > b /\ r[Len(q) + 1] = "StopTimer"
    BY <1>3, <2>5
  <2>13. Order(r, b)'
    BY <2>9, <2>10, <2>11, <2>12 DEF Order
  <2> QED BY <2>4, <2>7, <2>13 DEF OrderInv
<1>8. CASE Returned(t)
  <2>1. PICK r : r = Append(q, "InitTimer")
    OBVIOUS
  <2>2. /\ r \in Seq(TimerCommand) /\ Len(r) = Len(q) + 1 /\ r[Len(q) + 1] = "InitTimer"
        /\ \A i \in DOMAIN q : i \in DOMAIN r /\ r[i] = q[i]
    BY <2>1, AppendElements DEF TimerCommand
  <2>3. Yields(v, r, Len(q), Len(r))
    <3>1. "StartingWait" \in State \ {"DeadServer"} /\ v = << OnEntry("StartingWait") >>
      BY <1>6, <1>8 DEF State, Returned
    <3> QED BY <1>3, <2>2, <3>1, StartYields
  <2>4. Logged(r, b)'
    <3>1. Len(q) <= Len(r) /\ \A i \in DOMAIN q : r[i] = q[i]
      BY <1>3, <2>2
    <3> QED BY <1>1, <1>6, <2>2, <2>3, <3>1, LogGrows
  <2>5. b = Len(q) /\ timer = "idle" /\ ~Late
    BY <1>8 DEF Order, Returned
  <2>6. \A i \in DOMAIN r : ~Pair(r, b, i)'
    <3>1. DOMAIN r = 1 .. Len(q) + 1
      BY <2>2, EmptyLength
    <3> QED BY <1>1, <1>3, <2>5, <3>1 DEF Pair
  <2>7. fsm'.state = "StartingWait"
    BY <1>1, <1>4, <1>8 DEF Returned, Fsm
  <2>8. Alone(r, b)'
    BY <1>1, <1>2, <2>5, <2>6 DEF Alone
  <2>9. Order(r, b)'
    BY <1>1, <2>5, <2>7, <2>8 DEF Order, Sleeping
  <2> QED BY <2>2, <2>4, <2>9 DEF OrderInv
<1> QED BY <1>5, <1>7, <1>8

\* The loss of the server is about no command.
LEMMA LossYields ==
  ASSUME NEW r, NEW n \in Nat, Len(r) = n, NEW old \in Status, NEW new \in Status
  PROVE  Yields(<< SendStatusConditional(old, new), OnEntry("DeadServer") >>, r, n, Len(r))
<1>1. PICK v : v = << SendStatusConditional(old, new), OnEntry("DeadServer") >>
  OBVIOUS
<1>2. n <= n /\ n <= Len(r)
  OBVIOUS
<1>3. Yields(v, r, n, n)
  BY <1>1, <1>2, Zenon DEF Yields
<1> QED BY <1>1, <1>3

\* A Timeout is taken: it is the only one, and either the machine starts the timer again,
\* which may be active, or it gives up, and nothing is left of the timer's commands.
LEMMA TimeoutOrder ==
  ASSUME TypeOK, NEW q \in Seq(TimerCommand), NEW b \in Nat, Logged(q, b), Order(q, b),
         FsmTurn, Head(events) = "Timeout"
  PROVE  OrderInv'
<1>1. /\ events \in Seq(Event) /\ events # << >> /\ events' = Tail(events)
      /\ UNCHANGED << doing, outbox, timer, timerCmds, silent, fresh >> /\ fsm \in Fsm
  BY DEF TypeOK, FsmTurn, handlerVars, timerVars
<1>2. Late /\ ~Late'
  <2>1. /\ 1 \in DOMAIN events /\ events[1] = "Timeout"
        /\ \A i \in DOMAIN events' : i \in Nat \ {0} /\ i + 1 \in DOMAIN events /\ events'[i] = events[i + 1]
    BY <1>1, TailElements
  <2>2. \A i \in DOMAIN events' : events'[i] = "Timeout" => i + 1 = 1
    BY <2>1 DEF Order, Alone
  <2> QED BY <2>1, <2>2 DEF Late
<1>3. /\ b <= Len(q) /\ Len(q) \in Nat /\ DOMAIN q = 1 .. Len(q)
  BY LogIs, EmptyLength
<1>4. timer \notin {"firing", "deaf"} /\ fsm.state # "DeadServer" /\ \A i \in DOMAIN q : ~Pair(q, b, i)
  BY <1>2 DEF Order, Alone
<1>5. PICK t \in Step("Timeout") : fsm' = t.to /\ Pipe' = Append(Pipe, t.acts)
  <2>1. CASE Step("Timeout") # {}
    BY <2>1, TurnIs
  <2>2. CASE Step("Timeout") = {}
    BY <1>1, <1>4, <2>2, StepSome DEF Event
  <2> QED BY <2>1, <2>2
<1>6. PICK v \in Seq(Action) : v = t.acts /\ Pipe' = Append(Pipe, v)
  BY <1>1, <1>5, StepType DEF Event
<1>7. CASE Warned(t)
  <2>1. PICK r : r = Append(q, "InitTimer")
    OBVIOUS
  <2>2. /\ r \in Seq(TimerCommand) /\ Len(r) = Len(q) + 1 /\ r[Len(q) + 1] = "InitTimer"
        /\ \A i \in DOMAIN q : i \in DOMAIN r /\ r[i] = q[i]
        /\ DOMAIN r = 1 .. Len(q) + 1
    <3>1. "InitTimer" \in TimerCommand
      BY DEF TimerCommand
    <3>2. r \in Seq(TimerCommand) /\ Len(r) = Len(q) + 1
      BY <2>1, <3>1, AppendElements
    <3> QED BY <2>1, <3>1, <3>2, AppendElements, EmptyLength
  <2>3. Yields(v, r, Len(q), Len(r))
    <3>1. "NotHeartbeatYet" \in State \ {"DeadServer"} /\ v = << OnEntry("NotHeartbeatYet") >>
      BY <1>6, <1>7 DEF State, Warned
    <3> QED BY <1>3, <2>2, <3>1, StartYields
  <2>4. Logged(r, b)'
    <3>1. Len(q) <= Len(r) /\ \A i \in DOMAIN q : r[i] = q[i]
      BY <1>3, <2>2
    <3> QED BY <1>1, <1>6, <2>2, <2>3, <3>1, LogGrows
  <2>5. \A i \in DOMAIN r : Pair(r, b, i)' => i + 1 = Len(r)
    <3>1. SUFFICES ASSUME NEW i \in DOMAIN r, Pair(r, b, i)', i + 1 # Len(r)
                   PROVE  FALSE
      OBVIOUS
    <3>2. i + 1 \in DOMAIN r /\ i >= b /\ r[i] = "InitTimer" /\ r[i + 1] = "InitTimer" /\ (i = b => timer = "active")
      BY <1>1, <3>1 DEF Pair
    <3>3. i \in DOMAIN q /\ i + 1 \in DOMAIN q
      BY <1>3, <2>2, <3>1, <3>2
    <3>4. Pair(q, b, i)
      BY <2>2, <3>2, <3>3 DEF Pair
    <3> QED BY <1>4, <3>3, <3>4
  <2>6. \A i, j \in DOMAIN r : i + 1 = Len(r) /\ j + 1 = Len(r) => i = j
    BY <1>3, <2>2
  <2>7. \A i, j \in DOMAIN events' : ~(events'[i] = "Timeout" /\ events'[j] = "Timeout")
    BY <1>2 DEF Late
  <2>8. Alone(r, b)'
    BY <1>1, <1>2, <1>4, <2>5, <2>6, <2>7 DEF Alone
  <2>9. Warning(r, b)'
    BY <1>1, <1>2, <1>4, <2>5 DEF Warning
  <2>10. fsm'.state = "NotHeartbeatYet"
    BY <1>1, <1>5, <1>7 DEF Warned, Fsm
  <2>11. timer' = "active" => b \in DOMAIN r /\ r[b] = "InitTimer"
    BY <1>1, <2>2 DEF Order
  <2>12. Sleeping(timer') /\ (\A i \in DOMAIN r : i > b => r[i] # "StopTimer") => fresh' \/ silent'
    BY <1>1, <2>2 DEF Order
  <2>13. Order(r, b)'
    BY <2>8, <2>9, <2>10, <2>11, <2>12 DEF Order
  <2> QED BY <2>2, <2>4, <2>13 DEF OrderInv
<1>8. CASE Lost(t)
  <2>1. b = Len(q) /\ timer = "idle"
    BY <1>2, <1>8 DEF Order, Warning, Lost
  <2>2. Yields(v, q, Len(q), Len(q))
    <3>1. fsm.old_status \in Status /\ "Disconnected" \in Status
      BY <1>1 DEF Fsm, Status
    <3>2. v = << SendStatusConditional(fsm.old_status, "Disconnected"), OnEntry("DeadServer") >>
      BY <1>6, <1>8 DEF Lost
    <3> QED BY <1>3, <3>1, <3>2, LossYields
  <2>3. Logged(q, b)'
    <3>1. Len(q) <= Len(q) /\ \A i \in DOMAIN q : q[i] = q[i]
      BY <1>3
    <3> QED BY <1>1, <1>6, <2>2, <3>1, LogGrows
  <2>4. fsm'.state = "DeadServer"
    BY <1>5, <1>8 DEF Lost
  <2>5. \A i, j \in DOMAIN events' : ~(events'[i] = "Timeout" /\ events'[j] = "Timeout")
    BY <1>2 DEF Late
  <2>6. Alone(q, b)'
    BY <1>1, <1>2, <1>4, <2>5 DEF Alone, Pair
  <2>7. Order(q, b)'
    BY <1>1, <1>2, <2>1, <2>4, <2>6 DEF Order, Sleeping
  <2> QED BY <2>3, <2>7 DEF OrderInv
<1> QED BY <1>1, <1>7, <1>8, StepIs DEF Event

\* The timer receives a command: one behind a command to start is only ever a stop, or the
\* second of the pair, which makes the timer deaf.
LEMMA ReceiveOrder ==
  ASSUME TypeOK, NEW q \in Seq(TimerCommand), NEW b \in Nat, Logged(q, b), Order(q, b), TimerReceive
  PROVE  Order(q, b + 1)'
<1>1. /\ timer \in {"idle", "active"} /\ timerCmds # << >> /\ timer' = Received(timer, Head(timerCmds))
      /\ fresh' = (fresh \/ (~Sleeping(timer) /\ Sleeping(timer')))
      /\ UNCHANGED << fsm, events, silent >>
  BY DEF TimerReceive, Listening, fsmVars, handlerVars
<1>2. b + 1 \in DOMAIN q /\ Head(timerCmds) = q[b + 1] /\ Len(q) \in Nat /\ DOMAIN q = 1 .. Len(q) /\ b < Len(q)
  <2>1. b + 1 \in DOMAIN q /\ Head(timerCmds) = q[b + 1]
    BY <1>1, LogIs
  <2>2. Len(q) \in Nat /\ DOMAIN q = 1 .. Len(q)
    BY EmptyLength
  <2> QED BY <2>1, <2>2
<1>3. Late' = Late /\ fsm.state # "DeadServer" /\ (fsm.state = "NotHeartbeatYet" => ~Late)
  <2>1. Late' = Late
    BY <1>1 DEF Late
  <2>2. b # Len(q)
    <3>1. \A n \in Nat : b < n => b # n
      OBVIOUS
    <3> QED BY <1>2, <3>1, Zenon
  <2> QED BY <2>1, <2>2 DEF Order, Warning
<1>4. \/ timer = "idle" /\ q[b + 1] = "InitTimer" /\ timer' = "active"
      \/ timer' = "idle"
      \/ timer = "active" /\ q[b + 1] = "InitTimer" /\ timer' = "deaf"
  <2>1. q[b + 1] \in {"InitTimer", "StopTimer"}
    BY <1>2 DEF TimerCommand
  <2> QED BY <1>1, <1>2, <2>1 DEF Received
<1>5. \A i \in DOMAIN q : Pair(q, b + 1, i)' => Pair(q, b, i) /\ i # b /\ (i = b + 1 => timer' = "active")
  BY <1>2 DEF Pair
<1>6. CASE timer = "idle" /\ q[b + 1] = "InitTimer" /\ timer' = "active"
  <2>1. fresh'
    BY <1>1, <1>6 DEF Sleeping
  <2>2. Alone(q, b + 1)'
    BY <1>1, <1>3, <1>5, <1>6 DEF Order, Alone
  <2>3. fsm.state = "NotHeartbeatYet" => Warning(q, b + 1)'
    BY <1>1, <1>3, <1>5, <1>6 DEF Order, Warning
  <2> QED BY <1>1, <1>2, <1>3, <1>6, <2>1, <2>2, <2>3 DEF Order
<1>7. CASE timer' = "idle"
  <2>1. Alone(q, b + 1)'
    BY <1>1, <1>3, <1>5, <1>7 DEF Order, Alone
  <2>2. fsm.state = "NotHeartbeatYet" => Warning(q, b + 1)'
    BY <1>1, <1>3, <1>5, <1>7 DEF Order, Warning
  <2> QED BY <1>1, <1>3, <1>7, <2>1, <2>2 DEF Order, Sleeping
<1>8. CASE timer = "active" /\ q[b + 1] = "InitTimer" /\ timer' = "deaf"
  <2>1. b \in DOMAIN q /\ Pair(q, b, b)
    BY <1>2, <1>8 DEF Order, Pair
  <2>2. \A i \in DOMAIN q : ~Pair(q, b + 1, i)'
    BY <1>5, <2>1 DEF Order, Alone
  <2>3. ~Late
    BY <2>1 DEF Order, Alone
  <2>4. Alone(q, b + 1)'
    BY <1>1, <1>3, <1>8, <2>2, <2>3 DEF Order, Alone
  <2>5. fsm.state = "NotHeartbeatYet" => Warning(q, b + 1)'
    BY <1>1, <1>3, <1>8, <2>1, <2>2, <2>3 DEF Order, Warning
  <2>6. (\A i \in DOMAIN q : i > b + 1 => q[i] # "StopTimer") => fresh' \/ silent'
    <3>1. \A i \in DOMAIN q : i > b => i = b + 1 \/ i > b + 1
      BY <1>2
    <3> QED BY <1>1, <1>8, <3>1 DEF Order, Sleeping
  <2> QED BY <1>1, <1>3, <1>8, <2>4, <2>5, <2>6 DEF Order
<1> QED BY <1>4, <1>6, <1>7, <1>8

\* A sleep ends when nothing is on its way to the timer, or it is deaf.
LEMMA ExpireOrder ==
  ASSUME TypeOK, NEW q \in Seq(TimerCommand), NEW b \in Nat, Logged(q, b), Order(q, b), TimerExpire
  PROVE  Order(q, b)'
<1>1. /\ timer \in {"active", "deaf"} /\ AllWait /\ timer' = "firing"
      /\ silent' = (silent \/ fresh) /\ UNCHANGED << fsm, events >>
  BY DEF TimerExpire, Sleeping, fsmVars
<1>2. b <= Len(q) /\ Len(q) \in Nat /\ DOMAIN q = 1 .. Len(q)
  BY LogIs, EmptyLength
<1>3. ~Late /\ ~Late'
  <2>1. CASE timer = "deaf"
    BY <1>1, <2>1 DEF Order, Alone, Late
  <2>2. CASE timer = "active"
    <3>1. events = << >>
      BY <1>1, <2>2 DEF AllWait, Quiet
    <3> QED BY <1>1, <3>1 DEF Late
  <2> QED BY <1>1, <2>1, <2>2
<1>4. timer = "active" => b = Len(q)
  BY <1>1, LogIs DEF AllWait, Quiet
<1>5. \A i \in DOMAIN q : ~Pair(q, b, i)
  <2>1. CASE timer = "deaf"
    BY <2>1 DEF Order, Alone
  <2>2. CASE timer = "active"
    BY <1>2, <1>4, <2>2 DEF Pair
  <2> QED BY <1>1, <2>1, <2>2
<1>6. \A i \in DOMAIN q : ~Pair(q, b, i)'
  BY <1>1, <1>5 DEF Pair
<1>7. Alone(q, b)'
  BY <1>1, <1>3, <1>6 DEF Order, Alone
<1>8. ASSUME fsm.state = "NotHeartbeatYet"
      PROVE  Warning(q, b)'
  <2>1. b = Len(q)
    BY <1>1, <1>4, <1>8 DEF Order, Warning
  <2>2. \A i \in DOMAIN q : ~(i > b)
    BY <1>2, <2>1
  <2>3. fresh \/ silent
    BY <1>1, <2>2 DEF Order, Sleeping
  <2> QED BY <1>1, <1>3, <1>6, <2>1, <2>3 DEF Warning
<1> QED BY <1>1, <1>3, <1>7, <1>8 DEF Order, Sleeping

\* The Timeout of a sleep finds no other before it.
LEMMA FireOrder ==
  ASSUME TypeOK, NEW q \in Seq(TimerCommand), NEW b \in Nat, Order(q, b), TimerFire
  PROVE  Order(q, b)'
<1>1. /\ timer = "firing" /\ timer' = "idle" /\ events \in Seq(Event) /\ events' = Append(events, "Timeout")
      /\ UNCHANGED << fsm, silent, fresh >>
  BY DEF TypeOK, TimerFire, fsmVars, serverVars
<1>2. /\ \A i \in DOMAIN q : ~Pair(q, b, i)
      /\ ~Late
  BY <1>1 DEF Order, Alone
<1>3. \A i, j \in DOMAIN events' : events'[i] = "Timeout" /\ events'[j] = "Timeout" => i = j
  <2>1. "Timeout" \in Event
    BY DEF Event
  <2>2. /\ \A i \in DOMAIN events : events'[i] = events[i]
        /\ \A i \in DOMAIN events' : i = Len(events) + 1 \/ i \in DOMAIN events
    BY <1>1, <2>1, AppendElements
  <2> QED BY <1>2, <2>2 DEF Late
<1>4. \A i \in DOMAIN q : ~Pair(q, b, i)'
  BY <1>1, <1>2 DEF Pair
<1>5. Alone(q, b)'
  BY <1>1, <1>3, <1>4 DEF Alone
<1>6. fsm.state = "NotHeartbeatYet" => Warning(q, b)'
  BY <1>1, <1>4 DEF Order, Warning
<1> QED BY <1>1, <1>5, <1>6 DEF Order, Sleeping

\* The rest of the steps leave the machine and the timer alone, and bring no Timeout.
LEMMA OrderKept ==
  ASSUME NEW q \in Seq(TimerCommand), NEW b \in Nat, Order(q, b), events \in Seq(Event),
         UNCHANGED << fsm, timer, silent, fresh >>,
         UNCHANGED events \/ events' = Append(events, "Heartbeat")
  PROVE  Order(q, b)'
<1>1. /\ Late' = Late
      /\ \A i, j \in DOMAIN events' : events'[i] = "Timeout" /\ events'[j] = "Timeout" => i = j
  <2>1. CASE UNCHANGED events
    BY <2>1 DEF Late, Order, Alone
  <2>2. CASE events' = Append(events, "Heartbeat")
    <3>1. "Heartbeat" \in Event
      BY DEF Event
    <3>2. /\ \A i \in DOMAIN events : i \in DOMAIN events' /\ events'[i] = events[i]
          /\ \A i \in DOMAIN events' : i = Len(events) + 1 \/ i \in DOMAIN events
          /\ events'[Len(events) + 1] = "Heartbeat"
      BY <2>2, <3>1, AppendElements
    <3> QED BY <3>2 DEF Late, Order, Alone
  <2> QED BY <2>1, <2>2
<1>2. \A i : Pair(q, b, i)' <=> Pair(q, b, i)
  BY DEF Pair
<1>3. Alone(q, b)'
  BY <1>1, <1>2 DEF Order, Alone
<1>4. fsm.state = "NotHeartbeatYet" => Warning(q, b)'
  BY <1>1, <1>2 DEF Order, Warning
<1> QED BY <1>1, <1>3, <1>4 DEF Order

LEMMA OrderInduction ==
  ASSUME TypeOK, OrderInv, [Next]_vars
  PROVE  OrderInv'
<1>1. PICK q \in Seq(TimerCommand), b \in Nat : Logged(q, b) /\ Order(q, b)
  BY DEF OrderInv
<1>2. events \in Seq(Event) /\ outbox \in Seq(Message)
  BY DEF TypeOK
<1>3. CASE FsmTurn
  <2>1. Head(events) \in {"Heartbeat", "Timeout"}
    BY <1>3, TurnIs DEF Event
  <2> QED BY <1>1, <1>3, <2>1, BeatOrder, TimeoutOrder
<1>4. ASSUME \/ FsmUnblocked \/ TakeBeat \/ Beat \/ UNCHANGED vars
      PROVE  OrderInv'
  <2>1. UNCHANGED << fsm, timer, silent, fresh, events, doing, timerCmds >>
    BY <1>4 DEF FsmUnblocked, TakeBeat, Beat, vars, fsmVars, handlerVars, timerVars, serverVars
  <2>2. Pipe' = Pipe
    <3>1. CASE FsmUnblocked
      BY <3>1, UnblockedIs
    <3>2. CASE TakeBeat \/ Beat \/ UNCHANGED vars
      BY <3>2 DEF TakeBeat, Beat, vars, fsmVars, Pipe
    <3> QED BY <1>4, <3>1, <3>2
  <2>3. UNCHANGED outbox \/ (outbox = << >> /\ outbox' = << ToFsm >>)
    BY <1>4 DEF FsmUnblocked, TakeBeat, Idle, Beat, vars, handlerVars
  <2>4. Logged(q, b)'
    BY <1>1, <2>1, <2>2, <2>3, LogKept
  <2>5. Order(q, b)'
    BY <1>1, <1>2, <2>1, OrderKept
  <2> QED BY <2>4, <2>5 DEF OrderInv
<1>5. CASE TakeActions \/ Perform
  <2>1. UNCHANGED << fsm, timer, silent, fresh, events >>
    BY <1>5 DEF TakeActions, Perform, fsmVars, timerVars, serverVars
  <2>2. Logged(q, b)'
    BY <1>1, <1>5, LogTaken, LogPerformed
  <2>3. Order(q, b)'
    BY <1>1, <1>2, <2>1, OrderKept
  <2> QED BY <2>2, <2>3 DEF OrderInv
<1>6. CASE HandlerSend
  <2>1. UNCHANGED << fsm, timer, silent, fresh >>
    BY <1>6 DEF HandlerSend, fsmVars, serverVars
  <2>2. UNCHANGED events \/ events' = Append(events, "Heartbeat")
    <3>1. PICK m : m = Head(outbox)
      OBVIOUS
    <3>2. m \in Message
      BY <1>2, <1>6, <3>1, TailElements DEF HandlerSend
    <3>3. m.to = "fsm" => m.msg = "Heartbeat"
      BY <3>2 DEF Message, ToFsm, Services
    <3> QED BY <1>6, <3>1, <3>3 DEF HandlerSend
  <2>3. Logged(q, b)'
    BY <1>1, <1>6, LogSent
  <2>4. Order(q, b)'
    BY <1>1, <1>2, <2>1, <2>2, OrderKept
  <2> QED BY <2>3, <2>4 DEF OrderInv
<1>7. CASE TimerReceive
  <2>1. Logged(q, b + 1)' /\ Order(q, b + 1)' /\ b + 1 \in Nat
    BY <1>1, <1>7, LogReceived, ReceiveOrder
  <2> QED BY <2>1 DEF OrderInv
<1>8. CASE TimerExpire \/ TimerFire
  <2>1. Order(q, b)'
    BY <1>1, <1>8, ExpireOrder, FireOrder
  <2>2. Pipe' = Pipe /\ UNCHANGED << doing, timerCmds, outbox >>
    BY <1>8 DEF TimerExpire, TimerFire, fsmVars, handlerVars, Pipe
  <2>3. Logged(q, b)'
    BY <1>1, <2>2, LogKept
  <2> QED BY <2>1, <2>3 DEF OrderInv
<1> QED BY <1>3, <1>4, <1>5, <1>6, <1>7, <1>8 DEF Next, RunFsm, Handler, Timer

LEMMA InitOrder == Init => OrderInv
<1> SUFFICES ASSUME Init PROVE OrderInv
  OBVIOUS
<1>1. TypeOK
  BY InitType
<1> DEFINE q == << >>
<1>2. q \in Seq(TimerCommand) /\ Len(q) = 0 /\ DOMAIN q = {}
  BY EmptyLength
<1>3. timerCmds = << >> /\ outbox = << >> /\ doing = << >> /\ Pipe = << >> /\ events = << >> /\ timer = "idle"
      /\ fsm.state = "StartingWait"
  BY <1>1, PipeType DEF Init, NewFsm
<1>4. Logged(q, 0)
  <2>1. PICK st : st = << 0 >>
    OBVIOUS
  <2>2. st \in Seq(Nat) /\ Len(st) = 1 /\ st[1] = 0 /\ Newest(st) = 0
    BY <2>1 DEF Newest
  <2>3. Len(timerCmds) = 0 /\ DOMAIN timerCmds = {} /\ Len(Pipe) = 0 /\ DOMAIN Pipe = {} /\ DOMAIN outbox = {}
    BY <1>3
  <2>4. Sends(q, 0, 0)
    BY <2>3 DEF Sends
  <2>5. Yields(doing, q, 0, 0)
    BY <1>2, <1>3 DEF Yields
  <2>6. Track(q, 0, 0, 0, st)
    BY <1>2, <2>2, <2>3, <2>4, <2>5 DEF Track
  <2> QED BY <2>2, <2>6 DEF Logged
<1>5. Order(q, 0)
  <2>1. ~Late /\ DOMAIN events = {}
    BY <1>3 DEF Late
  <2> HIDE DEF q
  <2>2. Alone(q, 0)
    BY <1>2, <1>3, <2>1 DEF Alone
  <2> QED BY <1>3, <2>2 DEF Order, Sleeping
<1> QED BY <1>2, <1>4, <1>5 DEF OrderInv

\* Only a silence makes the machine give the server up.
LEMMA LossIsSilent ==
  ASSUME TypeOK, OrderInv, FsmTurn, fsm.status # "Disconnected", fsm'.status = "Disconnected"
  PROVE  silent /\ UNCHANGED silent
<1>1. PICK q \in Seq(TimerCommand), b \in Nat : Logged(q, b) /\ Order(q, b)
  BY DEF OrderInv
<1>2. fsm \in Fsm /\ events \in Seq(Event) /\ events # << >>
  BY DEF TypeOK, FsmTurn
<1>3. PICK t \in Step(Head(events)) : fsm' = t.to
  BY TurnIs
<1>4. Head(events) = "Timeout" /\ Lost(t)
  <2>1. Head(events) \in Event
    BY TurnIs
  <2> QED BY <1>2, <1>3, <2>1, StepIs DEF Revived, Warned, Beaten, Returned, Fsm
<1>5. Late
  BY <1>2, <1>4, TailElements DEF Late
<1>6. silent
  BY <1>1, <1>4, <1>5 DEF Lost, Order, Warning
<1>7. UNCHANGED silent
  BY <1>4 DEF FsmTurn
<1> QED BY <1>6, <1>7

\* Every step of the monitor is a step of the failure detector, or none.
LEMMA DetectorStep ==
  ASSUME TypeOK, OrderInv, [Next]_vars
  PROVE  [Detector!Next]_(Detector!vars)
<1>1. silent \in BOOLEAN /\ fsm \in Fsm
  BY DEF TypeOK
<1>2. CASE FsmTurn
  <2>1. Head(events) \in {"Heartbeat", "Timeout"}
    BY <1>2, TurnIs DEF Event
  <2>2. CASE Head(events) = "Heartbeat"
    <3>1. silent' = FALSE
      BY <1>2, <2>2 DEF FsmTurn
    <3>2. fsm.status # "Disconnected" => fsm'.status # "Disconnected"
      <4>1. CASE fsm' = fsm
        BY <4>1
      <4>2. ASSUME NEW t \in Step("Heartbeat"), fsm' = t.to
            PROVE  fsm.status # "Disconnected" => fsm'.status # "Disconnected"
        BY <1>1, <4>2, StepIs DEF Event, Revived, Beaten, Returned, Fsm
      <4> QED BY <1>2, <2>2, <4>1, <4>2, TurnIs
    <3>3. Detector!Hear
      BY <3>1, <3>2 DEF Detector!Hear
    <3> QED BY <3>3 DEF Detector!Next
  <2>3. CASE Head(events) = "Timeout"
    <3>1. UNCHANGED silent
      BY <1>2, <2>3 DEF FsmTurn
    <3>2. CASE (fsm'.status = "Disconnected") = (fsm.status = "Disconnected")
      BY <3>1, <3>2 DEF Detector!vars
    <3>3. CASE fsm.status # "Disconnected" /\ fsm'.status = "Disconnected"
      <4>1. silent
        BY <1>2, <3>3, LossIsSilent
      <4>2. Detector!Suspect
        BY <3>1, <3>3, <4>1 DEF Detector!Suspect
      <4> QED BY <4>2 DEF Detector!Next
    <3>4. fsm.status = "Disconnected" => fsm'.status = "Disconnected"
      <4>1. CASE fsm' = fsm
        BY <4>1
      <4>2. ASSUME NEW t \in Step("Timeout"), fsm' = t.to
            PROVE  fsm.status = "Disconnected" => fsm'.status = "Disconnected"
        BY <1>1, <4>2, StepIs DEF Event, Warned, Lost, Fsm
      <4> QED BY <1>2, <2>3, <4>1, <4>2, TurnIs
    <3> QED BY <3>2, <3>3, <3>4
  <2> QED BY <2>1, <2>2, <2>3
<1>3. CASE TimerExpire
  <2>1. fsm' = fsm /\ silent' \in {silent, TRUE}
    BY <1>1, <1>3 DEF TimerExpire, TypeOK, fsmVars
  <2>2. CASE silent' = TRUE
    BY <2>1, <2>2 DEF Detector!Elapse, Detector!Next
  <2>3. CASE UNCHANGED silent
    BY <2>1, <2>3 DEF Detector!vars
  <2> QED BY <2>1, <2>2, <2>3
<1>4. ASSUME \/ FsmUnblocked \/ TakeBeat \/ Perform \/ HandlerSend \/ TakeActions
             \/ TimerReceive \/ TimerFire \/ Beat \/ UNCHANGED vars
      PROVE  UNCHANGED Detector!vars
  <2>1. UNCHANGED << fsm, silent >>
    BY <1>4 DEF FsmUnblocked, TakeBeat, Perform, HandlerSend, TakeActions, TimerReceive, TimerFire, Beat,
                vars, fsmVars, serverVars
  <2> QED BY <2>1 DEF Detector!vars
<1> QED BY <1>2, <1>3, <1>4 DEF Next, RunFsm, Handler, Timer

\* The monitor implements the safety of the failure detector: the server is suspected only
\* after a silence (a Timeout that raced a beat never loses it), and trusted again only when
\* it is heard.
THEOREM DetectsSafely == Spec => Detector!Init /\ [][Detector!Next]_(Detector!vars)
<1>1. Init => Detector!Init
  BY DEF Init, NewFsm, Detector!Init
<1>2. TypeOK /\ OrderInv /\ [Next]_vars => OrderInv'
  BY OrderInduction
<1>3. TypeOK /\ OrderInv /\ [Next]_vars => [Detector!Next]_(Detector!vars)
  BY DetectorStep
<1> QED BY <1>1, <1>2, <1>3, InitOrder, TypeCorrect, PTL DEF Spec
=============================================================================
