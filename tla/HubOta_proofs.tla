---------------------------- MODULE HubOta_proofs ----------------------------
(***************************************************************************)
(* Theorems about the firmware service, for all networks of finitely many  *)
(* hubs, every capacity and every number of requests and answers.          *)
(***************************************************************************)
EXTENDS HubOta, SequenceLemmas, FiniteSetTheorems

LEMMA Bounds ==
  /\ InboxCap \in Nat /\ CmdCap \in Nat /\ TimerCap \in Nat
  /\ MaxRequests \in Nat /\ MaxUpdates \in Nat /\ MaxAnswers \in Nat
BY CapsAssumption
-----------------------------------------------------------------------------
(* What hub_ota sends *)

\* The messages of hub_ota are of the type of messages.
LEMMA MessageTypes ==
  /\ \A c \in TimerCommand : ToTimer(c) \in Message
  /\ \A h \in Hubs : ToHub(h) \in Message
  /\ \A n \in Networks \cup {NoNetwork} : ToServer(n) \in Message
  /\ Panic \in Message
BY DEF Message

\* What is sent for the hub in hand, when the one before is done with.
LEMMA AskIs ==
  ASSUME NEW o, o.vector[o.index] \in Status
  PROVE  /\ Ask(o) = << ToHub(o.vector[o.index].id), ToTimer("InitTimer") >>
         /\ Ask(o) \in Seq(Message)
         /\ << ToTimer("StopTimer") >> \o Ask(o) \in Seq(Message)
         /\ << ToTimer("StopTimer") >> \o Ask(o)
              = << ToTimer("StopTimer"), ToHub(o.vector[o.index].id), ToTimer("InitTimer") >>
<1>1. PICK a, b, c : /\ a = ToTimer("StopTimer") /\ b = ToHub(o.vector[o.index].id)
                     /\ c = ToTimer("InitTimer")
  OBVIOUS
<1>2. a \in Message /\ b \in Message /\ c \in Message
  BY <1>1, MessageTypes DEF Status, TimerCommand
<1>3. Ask(o) = << b, c >>
  BY <1>1 DEF Ask
<1>4. << a >> \o << b, c >> = << a, b, c >>
  BY <1>2, ConsPair
<1>5. << b, c >> \in Seq(Message) /\ << a, b, c >> \in Seq(Message)
  BY <1>2
<1> QED BY <1>1, <1>3, <1>4, <1>5
-----------------------------------------------------------------------------
(* The types *)

\* The variables of hub_ota.
Rollout == [state : State, vector : Seq(Status), index : Nat \ {0}, network : Networks \cup {NoNetwork}]

\* A rollout over the hubs of a network, in any order.
LEMMA BeginIs ==
  ASSUME NEW n \in Networks, Begin(n)
  PROVE  /\ ota' \in Rollout
         /\ \A i \in DOMAIN ota'.vector : ~ota'.vector[i].updated
         /\ \/ ota'.state = "Sleeping" /\ outbox' = << ToServer(n) >>
            \/ ota'.state = "Working" /\ ota'.index \in DOMAIN ota'.vector /\ outbox' = Ask(ota')
<1>1. HubsOf[n] \subseteq Hubs /\ IsFiniteSet(HubsOf[n])
  BY NetworksAssumption
<1>2. PICK k : k = Cardinality(HubsOf[n])
  OBVIOUS
<1>3. k \in Nat /\ (k = 0 <=> HubsOf[n] = {})
  BY <1>1, <1>2, FS_CardinalityType, FS_EmptySet
<1>4. PICK order \in Bijection(1 .. k, HubsOf[n]) :
        LET o == [state  |-> "Working", index |-> 1, network |-> n,
                  vector |-> [i \in DOMAIN order |-> [id |-> order[i], updated |-> FALSE]]]
        IN  IF HubsOf[n] = {}
            THEN ota' = [o EXCEPT !.state = "Sleeping"] /\ outbox' = << ToServer(n) >>
            ELSE ota' = o /\ outbox' = Ask(o)
  BY <1>2 DEF Begin
<1>5. order \in [1 .. k -> HubsOf[n]]
  BY DEF Bijection, Injection
<1>6. PICK vector : vector = [i \in DOMAIN order |-> [id |-> order[i], updated |-> FALSE]]
  OBVIOUS
<1>7. /\ vector \in Seq(Status) /\ DOMAIN vector = 1 .. k
      /\ \A i \in DOMAIN vector : ~vector[i].updated
  <2>1. vector \in [1 .. k -> Status]
    BY <1>1, <1>5, <1>6 DEF Status
  <2> QED BY <1>3, <1>5, <1>6, <2>1
<1>8. PICK o : o = [state |-> "Working", index |-> 1, network |-> n, vector |-> vector]
  OBVIOUS
<1>9. IF HubsOf[n] = {}
      THEN ota' = [o EXCEPT !.state = "Sleeping"] /\ outbox' = << ToServer(n) >>
      ELSE ota' = o /\ outbox' = Ask(o)
  BY <1>4, <1>6, <1>8
<1>10. o \in Rollout /\ o.vector = vector /\ o.index = 1 /\ o.state = "Working"
  BY <1>7, <1>8 DEF State, Rollout
<1>11. CASE HubsOf[n] = {}
  <2>1. PICK idle : idle = [o EXCEPT !.state = "Sleeping"]
    OBVIOUS
  <2>2. idle \in Rollout /\ idle.vector = vector /\ idle.state = "Sleeping"
    BY <1>10, <2>1 DEF State, Rollout
  <2> QED BY <1>7, <1>9, <1>11, <2>1, <2>2
<1>12. CASE HubsOf[n] # {}
  <2>1. 1 \in DOMAIN vector
    BY <1>3, <1>7, <1>12
  <2> QED BY <1>7, <1>9, <1>10, <1>12, <2>1
<1> QED BY <1>11, <1>12

\* The next hub is asked once the timer is stopped, or the server gets the outcome.
LEMMA AdvanceIs ==
  ASSUME NEW o \in Rollout,
         Advance(o)
  PROVE  /\ ota' \in Rollout
         /\ ota'.vector = o.vector /\ ota'.index = o.index + 1
         /\ \/ ota'.state = "Sleeping" /\ outbox' = << ToTimer("StopTimer"), ToServer(o.network) >>
            \/ /\ ota'.state = o.state /\ ota'.index \in DOMAIN ota'.vector
               /\ outbox' = << ToTimer("StopTimer") >> \o Ask(ota')
<1>1. PICK next : next = [o EXCEPT !.index = @ + 1]
  OBVIOUS
<1>2. /\ next \in Rollout
      /\ next.vector = o.vector /\ next.index = o.index + 1 /\ next.state = o.state
  BY <1>1 DEF Rollout
<1>3. IF next.index <= Len(o.vector)
      THEN ota' = next /\ outbox' = << ToTimer("StopTimer") >> \o Ask(next)
      ELSE ota' = [next EXCEPT !.state = "Sleeping"]
           /\ outbox' = << ToTimer("StopTimer"), ToServer(o.network) >>
  BY <1>1 DEF Advance
<1>4. CASE next.index <= Len(o.vector)
  <2>1. next.index \in DOMAIN next.vector
    BY <1>2, <1>4 DEF Rollout
  <2> QED BY <1>2, <1>3, <1>4, <2>1
<1>5. CASE ~(next.index <= Len(o.vector))
  BY <1>2, <1>3, <1>5 DEF State, Rollout
<1> QED BY <1>4, <1>5

\* The hub in hand has answered, or its time is over.
LEMMA MarkIs ==
  ASSUME TypeOK, ota.index \in DOMAIN ota.vector, NEW ok \in BOOLEAN, NEW o,
         o = [ota EXCEPT !.vector[ota.index].updated = ok]
  PROVE  /\ o \in Rollout
         /\ o.state = ota.state /\ o.index = ota.index /\ DOMAIN o.vector = DOMAIN ota.vector
         /\ o.vector[ota.index].updated = ok
         /\ \A i \in DOMAIN o.vector : /\ o.vector[i].id = ota.vector[i].id
                                       /\ i # ota.index => o.vector[i] = ota.vector[i]
<1>1. PICK v : v = ota.vector
  OBVIOUS
<1>2. PICK k : k = ota.index
  OBVIOUS
<1>3. v \in Seq(Status) /\ k \in DOMAIN v
  BY <1>1, <1>2 DEF TypeOK
<1>4. PICK w : w = [v EXCEPT ![k] = [@ EXCEPT !.updated = ok]]
  OBVIOUS
<1>5. o = [ota EXCEPT !.vector = w]
  BY <1>1, <1>2, <1>4 DEF TypeOK
<1>6. v[k] \in Status /\ [v[k] EXCEPT !.updated = ok] \in Status
  <2>1. v[k] \in Status
    BY <1>3
  <2> QED BY <2>1 DEF Status
<1>7. /\ w \in Seq(Status) /\ DOMAIN w = DOMAIN v /\ w[k] = [v[k] EXCEPT !.updated = ok]
      /\ \A i \in DOMAIN v : i # k => w[i] = v[i]
  BY <1>3, <1>4, <1>6
<1>8. w[k].updated = ok /\ w[k].id = v[k].id
  BY <1>6, <1>7 DEF Status
<1>9. /\ o \in Rollout
      /\ o.state = ota.state /\ o.index = ota.index /\ o.vector = w
  BY <1>5, <1>7 DEF TypeOK, Rollout
<1> QED BY <1>1, <1>2, <1>7, <1>8, <1>9

\* A request, an answer or a Timeout leaves a rollout and messages.
LEMMA OtaType ==
  ASSUME TypeOK, TakeRequest \/ TakeResponse \/ TakeTimeout
  PROVE  ota' \in Rollout /\ outbox' \in Seq(Message)
<1>1. ota \in Rollout /\ outbox \in Seq(Message) /\ cmds \in Seq(HubCommand)
  BY DEF TypeOK, Rollout
<1>2. \A o \in Rollout : /\ o.index \in DOMAIN o.vector => o.vector[o.index] \in Status
                         /\ o.network \in Networks \cup {NoNetwork} /\ o.vector \in Seq(Status)
  BY DEF Rollout
<1>3. /\ \A n \in Networks \cup {NoNetwork} :
           << ToServer(n) >> \in Seq(Message) /\ << ToTimer("StopTimer"), ToServer(n) >> \in Seq(Message)
      /\ << ToTimer("StopTimer"), Panic >> \in Seq(Message)
  BY MessageTypes DEF TimerCommand
<1>4. ASSUME NEW o \in Rollout, Advance(o)
      PROVE  ota' \in Rollout /\ outbox' \in Seq(Message)
  BY <1>2, <1>3, <1>4, AdvanceIs, AskIs
<1>5. CASE TakeRequest
  <2>1. CASE Begin(Head(cmds).net)
    <3>1. Head(cmds).net \in Networks
      BY <1>1, <1>5 DEF TakeRequest, HubCommand, UpdateHub, AckFromHub
    <3> QED BY <1>2, <1>3, <2>1, <3>1, BeginIs, AskIs
  <2>2. CASE /\ ota' = [ota EXCEPT !.state = "Sleeping", !.vector = << >>, !.index = 1]
             /\ outbox' = << ToServer(ota.network) >>
    <3>1. ota' \in Rollout
      <4>1. << >> \in Seq(Status) /\ "Sleeping" \in State /\ 1 \in Nat \ {0}
        BY DEF State
      <4> QED BY <1>1, <2>2, <4>1 DEF Rollout
    <3> QED BY <1>1, <1>2, <1>3, <2>2, <3>1
  <2> QED BY <1>5, <2>1, <2>2 DEF TakeRequest
<1>6. CASE TakeResponse
  <2>1. CASE Expected(Head(cmds).hub)
    <3>1. Head(cmds).ok \in BOOLEAN
      BY <1>1, <1>6 DEF TakeResponse, HubCommand, UpdateHub, AckFromHub
    <3>2. ota.index \in DOMAIN ota.vector
      BY <1>1, <2>1 DEF Expected, Rollout
    <3> QED BY <1>4, <1>6, <2>1, <3>1, <3>2, MarkIs DEF TakeResponse
  <2>2. CASE UNCHANGED otaVars
    BY <1>1, <2>2 DEF otaVars
  <2> QED BY <1>6, <2>1, <2>2 DEF TakeResponse
<1>7. CASE TakeTimeout
  <2>1. CASE ota.index <= Len(ota.vector)
    <3>1. ota.index \in DOMAIN ota.vector
      BY <1>1, <2>1 DEF Rollout
    <3> QED BY <1>4, <1>7, <2>1, <3>1, MarkIs DEF TakeTimeout, GiveUp
  <2>2. CASE ~(ota.index <= Len(ota.vector))
    BY <1>1, <1>3, <1>7, <2>2 DEF TakeTimeout, GiveUp
  <2> QED BY <2>1, <2>2
<1> QED BY <1>5, <1>6, <1>7

\* The commands of the relay.
LEMMA CommandTypes ==
  /\ \A c \in HubCommand \cup EdgeCommand : ForEdge(c) => c \in EdgeCommand
  /\ \A c \in HubCommand \cup EdgeCommand : ~ForEdge(c) => c \in HubCommand
  /\ \A n \in Networks : UpdateHub(n) \in HubCommand
  /\ \A h \in Hubs, ok \in BOOLEAN : AckFromHub(h, ok) \in HubCommand
  /\ \A mine \in BOOLEAN : UpdateEdge(mine) \in EdgeCommand
<1>1. \A c \in HubCommand : ~ForEdge(c)
  BY DEF HubCommand, ForEdge, UpdateHub, AckFromHub
<1>2. \A c \in EdgeCommand : ForEdge(c)
  BY DEF EdgeCommand, ForEdge, UpdateEdge
<1> QED BY <1>1, <1>2 DEF HubCommand, EdgeCommand

\* A command of the server or an answer of a hub enters the inbox.
LEMMA DeliverType ==
  ASSUME TypeOK, NEW c \in HubCommand \cup EdgeCommand, Deliver(c)
  PROVE  inbox' \in Seq(HubCommand \cup EdgeCommand) /\ Len(inbox') <= InboxCap
<1>1. inbox \in Seq(HubCommand \cup EdgeCommand) /\ Len(inbox) < InboxCap /\ inbox' = Append(inbox, c)
  BY DEF TypeOK, Deliver
<1>2. inbox' \in Seq(HubCommand \cup EdgeCommand) /\ Len(inbox') = Len(inbox) + 1
  BY <1>1, AppendElements
<1> QED BY <1>1, <1>2, Bounds

\* Requests, updates and answers stay below their bounds.
LEMMA SentType ==
  ASSUME TypeOK,
         \/ sent.requests < MaxRequests /\ sent' = [sent EXCEPT !.requests = @ + 1]
         \/ sent.updates < MaxUpdates /\ sent' = [sent EXCEPT !.updates = @ + 1]
         \/ sent.answers < MaxAnswers /\ sent' = [sent EXCEPT !.answers = @ + 1]
  PROVE  sent' \in [requests : 0 .. MaxRequests, updates : 0 .. MaxUpdates, answers : 0 .. MaxAnswers]
<1>1. sent \in [requests : 0 .. MaxRequests, updates : 0 .. MaxUpdates, answers : 0 .. MaxAnswers]
  BY DEF TypeOK
<1> QED BY <1>1, Bounds

\* The types are kept by every step.
LEMMA TypeInduction ==
  ASSUME TypeOK, [Next]_vars
  PROVE  TypeOK'
<1>1. CASE Relay
  <2>1. PICK c : c = Head(inbox)
    OBVIOUS
  <2>2. /\ c \in HubCommand \cup EdgeCommand /\ inbox' \in Seq(HubCommand \cup EdgeCommand)
        /\ Len(inbox') <= InboxCap
    <3>1. inbox \in Seq(HubCommand \cup EdgeCommand) /\ inbox # << >> /\ inbox' = Tail(inbox) /\ Len(inbox) <= InboxCap
      BY <1>1 DEF Relay, TypeOK
    <3>2. /\ c \in HubCommand \cup EdgeCommand /\ inbox' \in Seq(HubCommand \cup EdgeCommand)
          /\ Len(inbox') = Len(inbox) - 1 /\ Len(inbox) \in Nat
      BY <2>1, <3>1, TailElements
    <3> QED BY <3>1, <3>2, Bounds
  <2>3. \/ c \in HubCommand /\ cmds' = Append(cmds, c) /\ UNCHANGED edgeCmds
        \/ c \in EdgeCommand /\ edgeCmds' = Append(edgeCmds, c) /\ UNCHANGED cmds
    BY <1>1, <2>1, <2>2, CommandTypes DEF Relay
  <2>4. cmds' \in Seq(HubCommand) /\ edgeCmds' \in Seq(EdgeCommand)
    <3>1. cmds \in Seq(HubCommand) /\ edgeCmds \in Seq(EdgeCommand)
      BY DEF TypeOK
    <3> QED BY <2>3, <3>1, AppendElements
  <2> QED BY <1>1, <2>2, <2>4 DEF Relay, TypeOK, otaVars, timerVars, worldVars
<1>2. CASE TakeRequest \/ TakeResponse
  <2>1. cmds' \in Seq(HubCommand)
    <3>1. cmds \in Seq(HubCommand) /\ cmds # << >> /\ cmds' = Tail(cmds)
      BY <1>2 DEF TakeRequest, TakeResponse, TypeOK
    <3> QED BY <3>1, TailElements
  <2>2. UNCHANGED << inbox, edgeVars, timerVars, alive, worldVars >>
    BY <1>2 DEF TakeRequest, TakeResponse
  <2>3. ota' \in Rollout /\ outbox' \in Seq(Message)
    BY <1>2, OtaType
  <2> QED BY <2>1, <2>2, <2>3 DEF TypeOK, Rollout, edgeVars, timerVars, worldVars
<1>3. CASE TakeTimeout
  <2>1. timeouts' \in 0 .. TimerCap
    BY <1>3, Bounds DEF TakeTimeout, TypeOK
  <2>2. UNCHANGED << inbox, cmds, edgeVars, timer, timerCmds, alive, worldVars >>
    BY <1>3 DEF TakeTimeout
  <2>3. ota' \in Rollout /\ outbox' \in Seq(Message)
    BY <1>3, OtaType
  <2> QED BY <2>1, <2>2, <2>3 DEF TypeOK, Rollout, edgeVars, worldVars
<1>4. CASE OtaSend
  <2>1. PICK m : m = Head(outbox)
    OBVIOUS
  <2>2. m \in Message /\ outbox' \in Seq(Message)
    BY <1>4, <2>1 DEF OtaSend, TypeOK
  <2>3. /\ m.to = "timer" => m.msg \in TimerCommand
        /\ m.to = "hub" => m.msg \in Hubs
    BY <2>2 DEF Message, ToTimer, ToHub, ToServer, Panic
  <2>4. timerCmds' \in Seq(TimerCommand)
    <3>1. timerCmds \in Seq(TimerCommand)
      BY DEF TypeOK
    <3>2. CASE m.to = "timer" /\ timerCmds' = Append(timerCmds, m.msg)
      BY <2>3, <3>1, <3>2
    <3>3. CASE UNCHANGED timerCmds
      BY <3>1, <3>3
    <3> QED BY <1>4, <2>1, <3>2, <3>3 DEF OtaSend
  <2>5. asked' \subseteq Hubs /\ alive' \in BOOLEAN
    BY <1>4, <2>1, <2>3 DEF OtaSend, TypeOK
  <2> QED BY <1>4, <2>2, <2>4, <2>5 DEF OtaSend, TypeOK, edgeVars
<1>5. CASE EdgeTake
  BY <1>5 DEF EdgeTake, TypeOK, otaVars, timerVars, worldVars
<1>6. CASE EdgeUpdate
  BY <1>6 DEF EdgeUpdate, TypeOK, otaVars, timerVars, worldVars
<1>7. CASE EdgeExit
  BY <1>7 DEF EdgeExit, TypeOK, edgeVars, otaVars, timerVars, worldVars
<1>8. CASE TimerReceive
  <2>1. Head(timerCmds) \in TimerCommand /\ timerCmds' \in Seq(TimerCommand)
    BY <1>8 DEF TimerReceive, TypeOK
  <2>2. timer' \in TimerState
    BY <1>8, <2>1 DEF TimerReceive, Listening, Received, TimerCommand, TimerState
  <2> QED BY <1>8, <2>1, <2>2 DEF TimerReceive, TypeOK, edgeVars, otaVars, worldVars
<1>9. CASE TimerExpire
  BY <1>9 DEF TimerExpire, TypeOK, TimerState, edgeVars, otaVars, worldVars
<1>10. CASE TimerFire
  <2>1. timeouts' \in 0 .. TimerCap
    BY <1>10, Bounds DEF TimerFire, TypeOK
  <2> QED BY <1>10, <2>1 DEF TimerFire, TypeOK, TimerState, edgeVars, otaVars, worldVars
<1>11. CASE Restart
  <2>1. ota' \in Rollout
    BY <1>11 DEF Restart, NewOta, Rollout, State
  <2>2. outbox' \in Seq(Message)
    BY <1>11, MessageTypes DEF Restart, TimerCommand
  <2>3. timeouts' \in 0 .. TimerCap /\ inbox' \in Seq(HubCommand \cup EdgeCommand) /\ Len(inbox') <= InboxCap
    BY <1>11, Bounds DEF Restart
  <2> QED BY <1>11, <2>1, <2>2, <2>3 DEF Restart, TypeOK, Rollout, TimerState, worldVars
<1>12. CASE ServerRequest
  <2>1. PICK n \in Networks : Deliver(UpdateHub(n))
    BY <1>12 DEF ServerRequest
  <2>2. inbox' \in Seq(HubCommand \cup EdgeCommand) /\ Len(inbox') <= InboxCap
    BY <2>1, CommandTypes, DeliverType
  <2>3. sent' \in [requests : 0 .. MaxRequests, updates : 0 .. MaxUpdates, answers : 0 .. MaxAnswers]
    BY <1>12, SentType DEF ServerRequest
  <2> QED BY <1>12, <2>1, <2>2, <2>3 DEF ServerRequest, Deliver, TypeOK, edgeVars, otaVars, timerVars
<1>13. CASE ServerUpdate
  <2>1. PICK mine \in BOOLEAN : Deliver(UpdateEdge(mine))
    BY <1>13 DEF ServerUpdate
  <2>2. inbox' \in Seq(HubCommand \cup EdgeCommand) /\ Len(inbox') <= InboxCap
    BY <2>1, CommandTypes, DeliverType
  <2>3. sent' \in [requests : 0 .. MaxRequests, updates : 0 .. MaxUpdates, answers : 0 .. MaxAnswers]
    BY <1>13, SentType DEF ServerUpdate
  <2> QED BY <1>13, <2>1, <2>2, <2>3 DEF ServerUpdate, Deliver, TypeOK, edgeVars, otaVars, timerVars
<1>14. CASE HubAnswer
  <2>1. PICK h \in asked, ok \in BOOLEAN : /\ Deliver(AckFromHub(h, ok))
                                           /\ reported' = IF ok THEN reported \cup {h} ELSE reported
    BY <1>14 DEF HubAnswer
  <2>2. h \in Hubs /\ reported' \subseteq Hubs
    BY <2>1 DEF TypeOK
  <2>3. inbox' \in Seq(HubCommand \cup EdgeCommand) /\ Len(inbox') <= InboxCap
    BY <2>1, <2>2, CommandTypes, DeliverType
  <2>4. sent' \in [requests : 0 .. MaxRequests, updates : 0 .. MaxUpdates, answers : 0 .. MaxAnswers]
    BY <1>14, SentType DEF HubAnswer
  <2> QED BY <2>1, <2>2, <2>3, <2>4 DEF Deliver, TypeOK, edgeVars, otaVars, timerVars
<1>15. CASE UNCHANGED vars
  BY <1>15 DEF TypeOK, vars, edgeVars, otaVars, timerVars, worldVars
<1> QED BY <1>1, <1>2, <1>3, <1>4, <1>5, <1>6, <1>7, <1>8, <1>9, <1>10, <1>11, <1>12, <1>13, <1>14, <1>15
        DEF Next, Ota, Edge, Timer

LEMMA InitType == Init => TypeOK
<1> SUFFICES ASSUME Init PROVE TypeOK
  OBVIOUS
<1>1. ota \in Rollout
  BY DEF Init, NewOta, Rollout, State
<1>2. outbox \in Seq(Message)
  BY MessageTypes DEF Init, TimerCommand
<1>3. timeouts \in 0 .. TimerCap /\ inbox \in Seq(HubCommand \cup EdgeCommand) /\ Len(inbox) <= InboxCap
  BY Bounds DEF Init
<1>4. sent \in [requests : 0 .. MaxRequests, updates : 0 .. MaxUpdates, answers : 0 .. MaxAnswers]
  BY Bounds DEF Init
<1> QED BY <1>1, <1>2, <1>3, <1>4 DEF Init, TypeOK, Rollout, TimerState

\* The channels and the variables of the tasks keep their types, and the inbox its bound.
THEOREM TypeCorrect == Spec => []TypeOK
<1>1. TypeOK /\ [Next]_vars => TypeOK'
  BY TypeInduction
<1> QED BY InitType, <1>1, PTL DEF Spec
-----------------------------------------------------------------------------
(* The outcome of a rollout *)

\* An answer that is still on its way and says that a hub has updated comes from that hub.
Truthful(q) == \A i \in DOMAIN q : q[i].name = "AckFromHub" /\ q[i].ok => q[i].hub \in reported

ReportedInv == Truthful(inbox) /\ Truthful(cmds) /\ OnlyReported

\* Receiving, and sending on, keeps the answers truthful.
LEMMA TruthfulTail ==
  ASSUME NEW S, NEW q \in Seq(S), q # << >>, Truthful(q)
  PROVE  Truthful(Tail(q)) /\ (Head(q).name = "AckFromHub" /\ Head(q).ok => Head(q).hub \in reported)
<1>1. /\ Head(q) = q[1] /\ 1 \in DOMAIN q
      /\ \A i \in DOMAIN Tail(q) : i + 1 \in DOMAIN q /\ Tail(q)[i] = q[i + 1]
  BY TailElements
<1> QED BY <1>1 DEF Truthful

LEMMA TruthfulAppend ==
  ASSUME NEW S, NEW q \in Seq(S), NEW c \in S, Truthful(q),
         c.name = "AckFromHub" /\ c.ok => c.hub \in reported
  PROVE  Truthful(Append(q, c))
<1>1. /\ \A i \in DOMAIN q : Append(q, c)[i] = q[i]
      /\ Append(q, c)[Len(q) + 1] = c
      /\ \A i \in DOMAIN Append(q, c) : i = Len(q) + 1 \/ i \in DOMAIN q
  BY AppendElements
<1> QED BY <1>1 DEF Truthful

LEMMA ReportedInduction ==
  ASSUME TypeOK, ReportedInv, [Next]_vars
  PROVE  ReportedInv'
<1>1. /\ inbox \in Seq(HubCommand \cup EdgeCommand) /\ cmds \in Seq(HubCommand)
      /\ ota \in Rollout /\ ota.vector \in Seq(Status)
  BY DEF TypeOK, Rollout
<1>2. CASE Relay
  <2>1. inbox # << >> /\ inbox' = Tail(inbox) /\ UNCHANGED << ota, reported >>
    BY <1>2 DEF Relay, otaVars, worldVars
  <2>2. PICK c : c = Head(inbox)
    OBVIOUS
  <2>3. c \in HubCommand \cup EdgeCommand
    BY <1>1, <2>1, <2>2, TailElements
  <2>4. cmds' = cmds \/ (c \in HubCommand /\ cmds' = Append(cmds, c))
    BY <1>2, <2>2, <2>3, CommandTypes DEF Relay
  <2>5. Truthful(Tail(inbox)) /\ (c.name = "AckFromHub" /\ c.ok => c.hub \in reported)
    BY <1>1, <2>1, <2>2, TruthfulTail DEF ReportedInv
  <2>6. Truthful(cmds')
    BY <1>1, <2>4, <2>5, TruthfulAppend DEF ReportedInv
  <2> QED BY <2>1, <2>5, <2>6 DEF ReportedInv, OnlyReported, Truthful
<1>3. CASE TakeRequest
  <2>1. cmds # << >> /\ cmds' = Tail(cmds) /\ UNCHANGED << inbox, reported >>
    BY <1>3 DEF TakeRequest, worldVars
  <2>2. Truthful(Tail(cmds))
    BY <1>1, <2>1, TruthfulTail DEF ReportedInv
  <2>3. \A i \in DOMAIN ota'.vector : ~ota'.vector[i].updated
    <3>1. CASE Begin(Head(cmds).net)
      <4>1. Head(cmds).net \in Networks
        BY <1>1, <1>3 DEF TakeRequest, HubCommand, UpdateHub, AckFromHub
      <4> QED BY <3>1, <4>1, BeginIs
    <3>2. CASE ota' = [ota EXCEPT !.state = "Sleeping", !.vector = << >>, !.index = 1]
      BY <1>1, <3>2 DEF Rollout
    <3> QED BY <1>3, <3>1, <3>2 DEF TakeRequest
  <2> QED BY <2>1, <2>2, <2>3 DEF ReportedInv, OnlyReported, Truthful
<1>4. CASE TakeResponse
  <2>1. cmds # << >> /\ cmds' = Tail(cmds) /\ UNCHANGED << inbox, reported >>
    BY <1>4 DEF TakeResponse, worldVars
  <2>2. PICK c : c = Head(cmds)
    OBVIOUS
  <2>3. Truthful(Tail(cmds)) /\ (c.name = "AckFromHub" /\ c.ok => c.hub \in reported)
    BY <1>1, <2>1, <2>2, TruthfulTail DEF ReportedInv
  <2>4. c.name = "AckFromHub" /\ c.ok \in BOOLEAN
    BY <1>1, <1>4, <2>2 DEF TakeResponse, HubCommand, UpdateHub, AckFromHub
  <2>5. CASE Expected(c.hub)
    <3>1. ota.index \in DOMAIN ota.vector /\ ota.vector[ota.index].id = c.hub
      BY <1>1, <2>5 DEF Expected, Rollout
    <3>2. PICK ok : ok = c.ok
      OBVIOUS
    <3>3. PICK o : o = [ota EXCEPT !.vector[ota.index].updated = ok]
      OBVIOUS
    <3>4. /\ o \in Rollout /\ DOMAIN o.vector = DOMAIN ota.vector
          /\ \A i \in DOMAIN o.vector : /\ o.vector[i].id = ota.vector[i].id
                                        /\ i # ota.index => o.vector[i] = ota.vector[i]
      <4>1. ok \in BOOLEAN
        BY <2>4, <3>2
      <4> QED BY <3>1, <3>3, <4>1, MarkIs
    <3>5. ok = FALSE => o.vector[ota.index].updated = FALSE
      <4>1. CASE ok = FALSE
        BY <3>1, <3>3, <4>1, MarkIs
      <4> QED BY <4>1
    <3>6. ota'.vector = o.vector
      BY <1>4, <2>2, <2>5, <3>2, <3>3, <3>4, AdvanceIs DEF TakeResponse
    <3>7. OnlyReported'
      <4>1. SUFFICES ASSUME NEW i \in DOMAIN ota.vector, o.vector[i].updated
                     PROVE  o.vector[i].id \in reported
        BY <2>1, <3>4, <3>6 DEF OnlyReported
      <4>2. CASE i = ota.index
        BY <2>3, <2>4, <3>1, <3>2, <3>4, <3>5, <4>1, <4>2
      <4>3. CASE i # ota.index
        BY <3>4, <4>1, <4>3 DEF ReportedInv, OnlyReported
      <4> QED BY <4>2, <4>3
    <3> QED BY <2>1, <2>3, <3>7 DEF ReportedInv, Truthful
  <2>6. CASE UNCHANGED ota
    BY <2>1, <2>3, <2>6 DEF ReportedInv, OnlyReported, Truthful
  <2> QED BY <1>4, <2>2, <2>5, <2>6 DEF TakeResponse, otaVars
<1>5. CASE TakeTimeout
  <2>1. UNCHANGED << inbox, cmds, reported >>
    BY <1>5 DEF TakeTimeout, worldVars
  <2>2. OnlyReported'
    <3>1. CASE ota.index <= Len(ota.vector)
      <4>1. ota.index \in DOMAIN ota.vector
        BY <1>1, <3>1 DEF Rollout
      <4>2. PICK o : o = [ota EXCEPT !.vector[ota.index].updated = FALSE]
        OBVIOUS
      <4>3. /\ o \in Rollout /\ DOMAIN o.vector = DOMAIN ota.vector /\ o.vector[ota.index].updated = FALSE
            /\ \A i \in DOMAIN o.vector : /\ o.vector[i].id = ota.vector[i].id
                                          /\ i # ota.index => o.vector[i] = ota.vector[i]
        BY <4>1, <4>2, MarkIs
      <4>4. ota'.vector = o.vector
        BY <1>5, <3>1, <4>2, <4>3, AdvanceIs DEF TakeTimeout, GiveUp
      <4> QED BY <2>1, <4>3, <4>4 DEF ReportedInv, OnlyReported
    <3>2. CASE ~(ota.index <= Len(ota.vector))
      BY <1>5, <2>1, <3>2 DEF TakeTimeout, GiveUp, ReportedInv, OnlyReported
    <3> QED BY <3>1, <3>2
  <2> QED BY <2>1, <2>2 DEF ReportedInv, Truthful
<1>6. CASE Restart
  <2>1. inbox' = << >> /\ cmds' = << >> /\ ota'.vector = << >>
    BY <1>6 DEF Restart, NewOta
  <2> QED BY <2>1 DEF ReportedInv, Truthful, OnlyReported
<1>7. CASE ServerRequest \/ ServerUpdate
  <2>1. PICK c \in HubCommand \cup EdgeCommand : Deliver(c) /\ c.name # "AckFromHub"
    BY <1>7, CommandTypes DEF ServerRequest, ServerUpdate, UpdateHub, UpdateEdge
  <2>2. UNCHANGED << cmds, ota, reported >> /\ inbox' = Append(inbox, c)
    BY <1>7, <2>1 DEF ServerRequest, ServerUpdate, Deliver, otaVars
  <2>3. Truthful(inbox')
    BY <1>1, <2>1, <2>2, TruthfulAppend DEF ReportedInv
  <2> QED BY <2>2, <2>3 DEF ReportedInv, Truthful, OnlyReported
<1>8. CASE HubAnswer
  <2>1. PICK h \in asked, ok \in BOOLEAN : /\ Deliver(AckFromHub(h, ok))
                                           /\ reported' = IF ok THEN reported \cup {h} ELSE reported
    BY <1>8 DEF HubAnswer
  <2>2. PICK c : c = AckFromHub(h, ok)
    OBVIOUS
  <2>3. h \in Hubs /\ c \in HubCommand \cup EdgeCommand /\ c.hub = h /\ c.ok = ok
    BY <2>1, <2>2, CommandTypes DEF TypeOK, AckFromHub
  <2>4. inbox' = Append(inbox, c) /\ UNCHANGED << cmds, ota >>
    BY <2>1, <2>2 DEF Deliver, otaVars
  <2>5. reported \subseteq reported' /\ (c.ok => c.hub \in reported')
    BY <2>1, <2>3
  <2>6. Truthful(inbox)' /\ Truthful(cmds)'
    <3>1. /\ \A i \in DOMAIN inbox : inbox'[i] = inbox[i]
          /\ inbox'[Len(inbox) + 1] = c
          /\ \A i \in DOMAIN inbox' : i = Len(inbox) + 1 \/ i \in DOMAIN inbox
      BY <1>1, <2>3, <2>4, AppendElements
    <3> QED BY <2>4, <2>5, <3>1 DEF ReportedInv, Truthful
  <2> QED BY <2>4, <2>5, <2>6 DEF ReportedInv, OnlyReported
<1>9. CASE OtaSend \/ Edge \/ Timer \/ TimerExpire \/ UNCHANGED vars
  <2>1. UNCHANGED << inbox, cmds, ota, reported >>
    BY <1>9 DEF OtaSend, Edge, EdgeTake, EdgeUpdate, EdgeExit, Timer, TimerReceive, TimerFire, TimerExpire,
                vars, otaVars, worldVars
  <2> QED BY <2>1 DEF ReportedInv, Truthful, OnlyReported
<1> QED BY <1>2, <1>3, <1>4, <1>5, <1>6, <1>7, <1>8, <1>9 DEF Next, Ota

\* The outcome of a rollout counts no hub that did not report success itself.
THEOREM OnlyReportedCorrect == Spec => []OnlyReported
<1>1. Init => ReportedInv
  BY DEF Init, NewOta, ReportedInv, Truthful, OnlyReported
<1>2. TypeOK /\ ReportedInv /\ [Next]_vars => ReportedInv'
  BY ReportedInduction
<1>3. ReportedInv => OnlyReported
  BY DEF ReportedInv
<1> QED BY TypeCorrect, <1>1, <1>2, <1>3, PTL DEF Spec
-----------------------------------------------------------------------------
(* The watchdog of a rollout *)

\* The timer has a sleep to end, or will have: its last command starts one, or there is none
\* left and it sleeps, is about to fire or has fired.
Timed ==
  \/ timerCmds # << >> /\ timerCmds[Len(timerCmds)] = "InitTimer"
  \/ timerCmds = << >> /\ (timer \in {"active", "deaf", "firing"} \/ timeouts > 0)

\* The hub in hand was asked and is timed, or hub_ota is still to do so.
InHand ==
  LET h == ota.vector[ota.index].id
  IN  \/ outbox = << >> /\ h \in asked /\ Timed
      \/ outbox = << ToTimer("InitTimer") >> /\ h \in asked
      \/ outbox = << ToHub(h), ToTimer("InitTimer") >>
      \/ outbox = << ToTimer("StopTimer"), ToHub(h), ToTimer("InitTimer") >>

WatchedInv == alive /\ ota.state = "Working" => ota.index \in DOMAIN ota.vector /\ InHand

\* A new rollout, or the next hub of one.
LEMMA AskedInHand ==
  ASSUME ota' \in Rollout, ota'.index \in DOMAIN ota'.vector,
         outbox' = Ask(ota') \/ outbox' = << ToTimer("StopTimer") >> \o Ask(ota')
  PROVE  InHand'
<1>1. ota'.vector[ota'.index] \in Status
  BY DEF Rollout
<1> QED BY <1>1, AskIs DEF InHand

LEMMA WatchedInduction ==
  ASSUME TypeOK, WatchedInv, [Next]_vars
  PROVE  WatchedInv'
<1>1. /\ cmds \in Seq(HubCommand) /\ ota \in Rollout /\ ota.vector \in Seq(Status)
      /\ outbox \in Seq(Message) /\ timerCmds \in Seq(TimerCommand) /\ timeouts \in Nat
  BY Bounds DEF TypeOK, Rollout
<1>2. CASE TakeRequest
  <2>1. CASE Begin(Head(cmds).net)
    <3>1. Head(cmds).net \in Networks
      BY <1>1, <1>2 DEF TakeRequest, HubCommand, UpdateHub, AckFromHub
    <3> QED BY <2>1, <3>1, BeginIs, AskedInHand DEF WatchedInv
  <2>2. CASE ota' = [ota EXCEPT !.state = "Sleeping", !.vector = << >>, !.index = 1]
    <3>1. ota'.state = "Sleeping"
      BY <1>1, <2>2 DEF Rollout
    <3> QED BY <3>1 DEF WatchedInv
  <2> QED BY <1>2, <2>1, <2>2 DEF TakeRequest
<1>3. ASSUME NEW o \in Rollout, Advance(o)
      PROVE  ota'.state = "Working" => ota'.index \in DOMAIN ota'.vector /\ InHand'
  BY <1>3, AdvanceIs, AskedInHand
<1>4. CASE TakeResponse
  <2>1. PICK c : c = Head(cmds)
    OBVIOUS
  <2>2. CASE Expected(c.hub)
    <3>1. ota.index \in DOMAIN ota.vector /\ c.ok \in BOOLEAN
      BY <1>1, <1>4, <2>1, <2>2 DEF Expected, Rollout, TakeResponse, HubCommand, UpdateHub, AckFromHub
    <3>2. PICK ok, o : ok = c.ok /\ o = [ota EXCEPT !.vector[ota.index].updated = ok]
      OBVIOUS
    <3>3. o \in Rollout
      BY <3>1, <3>2, MarkIs
    <3> QED BY <1>3, <1>4, <2>1, <2>2, <3>2, <3>3 DEF TakeResponse, WatchedInv
  <2>3. CASE UNCHANGED otaVars
    BY <1>4, <2>3 DEF TakeResponse, otaVars, timerVars, worldVars, WatchedInv, InHand, Timed
  <2> QED BY <1>4, <2>1, <2>2, <2>3 DEF TakeResponse
<1>5. CASE TakeTimeout
  <2>1. CASE ota.index <= Len(ota.vector)
    <3>1. ota.index \in DOMAIN ota.vector
      BY <1>1, <2>1 DEF Rollout
    <3>2. PICK o : o = [ota EXCEPT !.vector[ota.index].updated = FALSE]
      OBVIOUS
    <3>3. o \in Rollout
      BY <3>1, <3>2, MarkIs
    <3> QED BY <1>3, <1>5, <2>1, <3>2, <3>3 DEF TakeTimeout, GiveUp, WatchedInv
  <2>2. CASE ~(ota.index <= Len(ota.vector))
    BY <1>1, <1>5, <2>2 DEF TakeTimeout, GiveUp, WatchedInv
  <2> QED BY <2>1, <2>2
<1>6. CASE OtaSend
  <2> SUFFICES ASSUME alive', ota'.state = "Working"
               PROVE  ota'.index \in DOMAIN ota'.vector /\ InHand'
    BY DEF WatchedInv
  <2>1. UNCHANGED ota /\ alive /\ outbox' = Tail(outbox) /\ outbox # << >>
    BY <1>6 DEF OtaSend
  <2>2. PICK h : h = ota.vector[ota.index].id
    OBVIOUS
  <2>3. ota.index \in DOMAIN ota.vector /\ InHand
    BY <2>1 DEF WatchedInv
  <2>4. CASE outbox = << ToTimer("InitTimer") >> /\ h \in asked
    <3>1. outbox' = << >> /\ Head(outbox) = ToTimer("InitTimer")
      BY <2>1, <2>4
    <3>2. timerCmds' = Append(timerCmds, "InitTimer") /\ asked' = asked
      BY <1>6, <3>1 DEF OtaSend, ToTimer, Panic
    <3>3. timerCmds' # << >> /\ timerCmds'[Len(timerCmds')] = "InitTimer"
      BY <1>1, <3>2, AppendElements DEF TimerCommand
    <3> QED BY <2>1, <2>2, <2>3, <2>4, <3>1, <3>2, <3>3 DEF InHand, Timed
  <2>5. CASE outbox = << ToHub(h), ToTimer("InitTimer") >>
    <3>1. outbox' = << ToTimer("InitTimer") >> /\ Head(outbox) = ToHub(h)
      BY <2>1, <2>5
    <3>2. asked' = asked \cup {h}
      BY <1>6, <3>1 DEF OtaSend, ToHub, Panic
    <3> QED BY <2>1, <2>2, <2>3, <3>1, <3>2 DEF InHand
  <2>6. CASE outbox = << ToTimer("StopTimer"), ToHub(h), ToTimer("InitTimer") >>
    <3>1. outbox' = << ToHub(h), ToTimer("InitTimer") >>
      BY <2>1, <2>6
    <3> QED BY <2>1, <2>2, <2>3, <3>1 DEF InHand
  <2> QED BY <2>1, <2>2, <2>3, <2>4, <2>5, <2>6 DEF InHand
<1>7. ASSUME UNCHANGED << ota, outbox, alive >>, asked \subseteq asked', Timed => Timed'
      PROVE  WatchedInv'
  BY <1>7 DEF WatchedInv, InHand
<1>8. CASE TimerReceive
  <2>1. UNCHANGED << ota, outbox, alive, asked, timeouts >>
    BY <1>8 DEF TimerReceive, otaVars, worldVars
  <2>2. /\ timerCmds # << >> /\ timerCmds' = Tail(timerCmds)
        /\ timer \in {"idle", "active"} /\ timer' = Received(timer, timerCmds[1])
    BY <1>1, <1>8 DEF TimerReceive, Listening
  <2>3. CASE timerCmds' = << >>
    <3>1. Len(timerCmds) = 1
      <4>1. /\ Len(Tail(timerCmds)) = Len(timerCmds) - 1 /\ Len(timerCmds) \in Nat
            /\ Tail(timerCmds) \in Seq(TimerCommand)
        BY <1>1, <2>2, TailElements
      <4>2. Tail(timerCmds) = << >>
        BY <2>2, <2>3
      <4>3. Len(Tail(timerCmds)) = 0
        BY <4>1, <4>2, EmptyLength
      <4>4. \A n \in Nat : n - 1 = 0 => n = 1
        OBVIOUS
      <4> QED BY <4>1, <4>3, <4>4, Zenon
    <3>2. timerCmds[1] = "InitTimer" => timer' \in {"active", "deaf"}
      BY <2>2 DEF Received
    <3> QED BY <1>7, <2>1, <2>2, <2>3, <3>1, <3>2 DEF Timed
  <2>4. CASE timerCmds' # << >>
    <3>1. timerCmds'[Len(timerCmds')] = timerCmds[Len(timerCmds)]
      BY <1>1, <2>2, <2>4
    <3> QED BY <1>7, <2>1, <2>2, <2>4, <3>1 DEF Timed
  <2> QED BY <2>3, <2>4
<1>9. CASE TimerExpire
  <2>1. UNCHANGED << ota, outbox, alive, asked, timeouts, timerCmds >> /\ timer' = "firing"
    BY <1>9 DEF TimerExpire, otaVars, worldVars
  <2> QED BY <1>7, <2>1 DEF Timed
<1>10. CASE TimerFire
  <2>1. UNCHANGED << ota, outbox, alive, asked, timerCmds >> /\ timeouts' = timeouts + 1
    BY <1>10 DEF TimerFire, otaVars, worldVars
  <2> QED BY <1>1, <1>7, <2>1 DEF Timed
<1>11. CASE EdgeExit
  BY <1>11 DEF EdgeExit, WatchedInv
<1>12. CASE Restart
  <2>1. ota'.state = "Sleeping"
    BY <1>12 DEF Restart, NewOta
  <2> QED BY <2>1 DEF WatchedInv
<1>13. CASE \/ Relay \/ EdgeTake \/ EdgeUpdate \/ ServerRequest \/ ServerUpdate \/ HubAnswer
            \/ UNCHANGED vars
  <2>1. UNCHANGED << ota, outbox, alive, asked, timer, timerCmds, timeouts >>
    BY <1>13 DEF Relay, EdgeTake, EdgeUpdate, ServerRequest, ServerUpdate, HubAnswer, Deliver,
                 vars, otaVars, timerVars, worldVars
  <2> QED BY <1>7, <2>1 DEF Timed
<1> QED BY <1>2, <1>4, <1>5, <1>6, <1>8, <1>9, <1>10, <1>11, <1>12, <1>13 DEF Next, Ota, Edge, Timer

\* A rollout never waits for a hub that nobody times, whatever requests and Timeouts
\* overlapped, and for every capacity of the channels.
THEOREM WatchedCorrect == Spec => []Watched
<1>1. Init => WatchedInv
  BY DEF Init, NewOta, WatchedInv
<1>2. TypeOK /\ WatchedInv /\ [Next]_vars => WatchedInv'
  BY WatchedInduction
<1>3. ASSUME TypeOK, WatchedInv, alive, Quiet, ota.state = "Working"
      PROVE  /\ Sleeping(timer)
             /\ ota.index <= Len(ota.vector) /\ ota.vector[ota.index].id \in asked
  <2>1. outbox = << >> /\ timeouts = 0 /\ timer # "firing" /\ (timerCmds = << >> \/ timer = "deaf")
    BY <1>3 DEF Quiet
  <2>2. ota.index \in DOMAIN ota.vector /\ ota.vector[ota.index].id \in asked /\ Timed
    BY <1>3, <2>1 DEF WatchedInv, InHand
  <2>3. ota.index <= Len(ota.vector)
    BY <1>3, <2>2 DEF TypeOK
  <2> QED BY <2>1, <2>2, <2>3 DEF Timed, Sleeping
<1>4. TypeOK /\ WatchedInv => Watched
  BY <1>3 DEF Watched
<1> QED BY TypeCorrect, <1>1, <1>2, <1>4, PTL DEF Spec
=============================================================================
