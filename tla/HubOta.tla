------------------------------- MODULE HubOta -------------------------------
(***************************************************************************)
(* The firmware service (src/third_layer/firmware): the relay of           *)
(* FirmwareService::run, hub_ota, which rolls a version out to the hubs of *)
(* a network one after the other, edge_ota, which replaces the edge's own  *)
(* binary and exits, and firmware_watchdog_timer.  The release build       *)
(* aborts on a panic (Cargo.toml), so an index out of bounds in hub_ota    *)
(* ends the process, as the exit of edge_ota does; a supervisor starts it  *)
(* again.  Sleeps end as in HeartbeatMonitor; a hub may answer late, more  *)
(* than once or never.                                                     *)
(***************************************************************************)
EXTENDS Watchdog, Naturals, Sequences, FiniteSets, Functions

CONSTANTS
  Networks,    \* the networks of the server's requests
  HubsOf,      \* the hubs the edge knows in each of them
  InboxCap,    \* capacity of the channel of FirmwareHandle
  CmdCap,      \* capacity of the channels into hub_ota and edge_ota
  TimerCap,    \* capacity of the channels to and from the watchdog
  MaxRequests, \* bound: rollouts the server asks for
  MaxUpdates,  \* bound: updates of the edge the server asks for
  MaxAnswers   \* bound: answers of the hubs

Hubs == UNION { HubsOf[n] : n \in Networks }

ASSUME NetworksAssumption ==
  HubsOf \in [Networks -> SUBSET Hubs] /\ \A n \in Networks : IsFiniteSet(HubsOf[n])
ASSUME CapsAssumption ==
  {InboxCap, CmdCap, TimerCap, MaxRequests, MaxUpdates, MaxAnswers} \subseteq Nat

VARIABLES
  inbox,     \* FirmwareHandle -> FirmwareService::run
  cmds,      \* tx_msg -> rx_msg of hub_ota
  edgeCmds,  \* tx_msg_edge -> rx of edge_ota
  edge,      \* edge_ota
  ota,       \* hub_ota: its local variables
  outbox,    \* hub_ota: what the event in hand still has to send
  timer,     \* firmware_watchdog_timer
  timerCmds, \* tx_to_timer -> cmd_rx
  timeouts,  \* tx_to_update -> rx_timer (number of Timeouts)
  alive,     \* the process runs
  asked,     \* the hubs that were asked to update (now or in an earlier rollout)
  sent,      \* how many requests, updates and answers there have been
  reported   \* not in the code: the hubs that have ever reported success

edgeVars  == << edgeCmds, edge >>
otaVars   == << ota, outbox >>
timerVars == << timer, timerCmds, timeouts >>
worldVars == << asked, sent, reported >>
vars == << inbox, cmds, edgeVars, otaVars, timerVars, alive, worldVars >>

NoNetwork == "no network"
State     == {"Sleeping", "Working"}
Status    == [id : Hubs, updated : BOOLEAN]

\* InternalFirmwareCommand, handed on as CommandToHubOta or UpdateEdgeFirmware.
UpdateHub(n)       == [name |-> "UpdateHub", net |-> n]
AckFromHub(h, ok)  == [name |-> "AckFromHub", hub |-> h, ok |-> ok]
UpdateEdge(mine)   == [name |-> "UpdateEdge", mine |-> mine]
HubCommand  == { UpdateHub(n) : n \in Networks } \cup { AckFromHub(h, ok) : h \in Hubs, ok \in BOOLEAN }
EdgeCommand == { UpdateEdge(mine) : mine \in BOOLEAN }
ForEdge(c)  == c.name = "UpdateEdge"

\* What hub_ota sends; Panic is the index out of bounds between two sends.
ToTimer(c)   == [to |-> "timer", msg |-> c]
ToHub(h)     == [to |-> "hub", msg |-> h]
ToServer(n)  == [to |-> "server", msg |-> n]
Panic        == [to |-> "nobody", msg |-> "panic"]
Message == { ToTimer(c) : c \in TimerCommand } \cup { ToHub(h) : h \in Hubs }
           \cup { ToServer(n) : n \in Networks \cup {NoNetwork} } \cup {Panic}

TypeOK ==
  /\ inbox \in Seq(HubCommand \cup EdgeCommand) /\ Len(inbox) <= InboxCap
  /\ cmds \in Seq(HubCommand) /\ edgeCmds \in Seq(EdgeCommand)
  /\ edge \in {"waiting", "updating", "leaving"}
  /\ ota \in [state : State, vector : Seq(Status), index : Nat \ {0},
             network : Networks \cup {NoNetwork}]
  /\ outbox \in Seq(Message)
  /\ timer \in TimerState /\ timerCmds \in Seq(TimerCommand) /\ timeouts \in 0 .. TimerCap
  /\ alive \in BOOLEAN /\ asked \subseteq Hubs /\ reported \subseteq Hubs
  /\ sent \in [requests : 0 .. MaxRequests, updates : 0 .. MaxUpdates, answers : 0 .. MaxAnswers]

NewOta == [state |-> "Sleeping", vector |-> << >>, index |-> 1, network |-> NoNetwork]

Init ==
  /\ inbox = << >> /\ cmds = << >> /\ edgeCmds = << >> /\ edge = "waiting"
  /\ ota = NewOta /\ outbox = << ToTimer("StopTimer") >>
  /\ timer = "idle" /\ timerCmds = << >> /\ timeouts = 0 /\ alive = TRUE
  /\ asked = {} /\ reported = {} /\ sent = [requests |-> 0, updates |-> 0, answers |-> 0]

\* The tasks have nothing to do: the relay may be waiting for edge_ota, which is downloading.
Quiet ==
  /\ cmds = << >> /\ outbox = << >> /\ timeouts = 0
  /\ timer # "firing" /\ (timerCmds = << >> \/ timer = "deaf")
  /\ edgeCmds = << >> \/ edge # "waiting"
  /\ inbox # << >> => ForEdge(Head(inbox)) /\ Len(edgeCmds) = CmdCap

\* No task goes on before the sleep ends.
AllWait ==
  \/ Quiet
  \/ timer = "deaf" /\ Len(timerCmds) = TimerCap /\ outbox # << >> /\ Head(outbox).to = "timer"
-----------------------------------------------------------------------------
(* FirmwareService::run *)

Relay ==
  /\ alive /\ inbox # << >>
  /\ inbox' = Tail(inbox)
  /\ \/ /\ ~ForEdge(Head(inbox)) /\ Len(cmds) < CmdCap
        /\ cmds' = Append(cmds, Head(inbox)) /\ UNCHANGED edgeCmds
     \/ /\ ForEdge(Head(inbox)) /\ Len(edgeCmds) < CmdCap
        /\ edgeCmds' = Append(edgeCmds, Head(inbox)) /\ UNCHANGED cmds
  /\ UNCHANGED << edge, otaVars, timerVars, alive, worldVars >>
-----------------------------------------------------------------------------
(* hub_ota *)

\* Ask the hub in hand, and give it OTA_TIMEOUT.
Ask(o) == << ToHub(o.vector[o.index].id), ToTimer("InitTimer") >>

\* On to the next hub; the outcome is for the server once there is none.
Advance(o) ==
  LET next == [o EXCEPT !.index = @ + 1]
  IN  IF next.index <= Len(o.vector)
      THEN ota' = next /\ outbox' = << ToTimer("StopTimer") >> \o Ask(next)
      ELSE ota' = [next EXCEPT !.state = "Sleeping"]
           /\ outbox' = << ToTimer("StopTimer"), ToServer(o.network) >>

\* Mutant: nobody waits for the first hub.
Begin_NoTimer(n) ==
  \E order \in Bijection(1 .. Cardinality(HubsOf[n]), HubsOf[n]) :
    LET o == [state  |-> "Working", index |-> 1, network |-> n,
              vector |-> [i \in DOMAIN order |-> [id |-> order[i], updated |-> FALSE]]]
    IN  IF HubsOf[n] = {}
        THEN ota' = [o EXCEPT !.state = "Sleeping"] /\ outbox' = << ToServer(n) >>
        ELSE ota' = o /\ outbox' = << ToHub(o.vector[1].id) >>

\* A rollout over the hubs of the network, in the order of a HashSet; over none, an error.
Begin(n) ==
  \E order \in Bijection(1 .. Cardinality(HubsOf[n]), HubsOf[n]) :
    LET o == [state  |-> "Working", index |-> 1, network |-> n,
              vector |-> [i \in DOMAIN order |-> [id |-> order[i], updated |-> FALSE]]]
    IN  IF HubsOf[n] = {}
        THEN ota' = [o EXCEPT !.state = "Sleeping"] /\ outbox' = << ToServer(n) >>
        ELSE ota' = o /\ outbox' = Ask(o)

\* A request, whether a rollout is going on or not.  When the version cannot be fetched
\* the error names the network of the rollout before.
TakeRequest ==
  /\ alive /\ outbox = << >> /\ cmds # << >> /\ Head(cmds).name = "UpdateHub"
  /\ cmds' = Tail(cmds)
  /\ \/ Begin(Head(cmds).net)
     \/ /\ ota' = [ota EXCEPT !.state = "Sleeping", !.vector = << >>, !.index = 1]
        /\ outbox' = << ToServer(ota.network) >>
  /\ UNCHANGED << inbox, edgeVars, timerVars, alive, worldVars >>

\* Mutant: the ack of any hub is taken for the one in hand.
Expected_Any(h) == ota.state = "Working" /\ ota.index <= Len(ota.vector)

Expected(h) == ota.state = "Working" /\ ota.index <= Len(ota.vector) /\ ota.vector[ota.index].id = h

TakeResponse ==
  /\ alive /\ outbox = << >> /\ cmds # << >> /\ Head(cmds).name = "AckFromHub"
  /\ cmds' = Tail(cmds)
  /\ IF Expected(Head(cmds).hub)
     THEN Advance([ota EXCEPT !.vector[ota.index].updated = Head(cmds).ok])
     ELSE UNCHANGED otaVars
  /\ UNCHANGED << inbox, edgeVars, timerVars, alive, worldVars >>

\* Mutant: the silent hub is asked again.
GiveUp_Retry ==
  IF ota.index <= Len(ota.vector)
  THEN UNCHANGED ota /\ outbox' = << ToTimer("StopTimer") >> \o Ask(ota)
  ELSE UNCHANGED ota /\ outbox' = << ToTimer("StopTimer"), Panic >>

\* The hub in hand has not updated; there may be none, as the state is not looked at.
GiveUp ==
  IF ota.index <= Len(ota.vector)
  THEN Advance([ota EXCEPT !.vector[ota.index].updated = FALSE])
  ELSE UNCHANGED ota /\ outbox' = << ToTimer("StopTimer"), Panic >>

TakeTimeout ==
  /\ alive /\ outbox = << >> /\ timeouts > 0
  /\ timeouts' = timeouts - 1 /\ GiveUp
  /\ UNCHANGED << inbox, cmds, edgeVars, timer, timerCmds, alive, worldVars >>

OtaSend ==
  /\ alive /\ outbox # << >>
  /\ LET m == Head(outbox)
     IN  \/ /\ m.to = "timer" /\ Len(timerCmds) < TimerCap
            /\ timerCmds' = Append(timerCmds, m.msg) /\ UNCHANGED << asked, alive >>
         \/ /\ m.to = "hub"
            /\ asked' = asked \cup {m.msg} /\ UNCHANGED << timerCmds, alive >>
         \/ m.to = "server" /\ UNCHANGED << timerCmds, asked, alive >>
         \/ m = Panic /\ alive' = FALSE /\ UNCHANGED << timerCmds, asked >>
  /\ outbox' = Tail(outbox)
  /\ UNCHANGED << inbox, cmds, edgeVars, ota, timer, timeouts, sent, reported >>
-----------------------------------------------------------------------------
(* edge_ota *)

EdgeTake ==
  /\ alive /\ edge = "waiting" /\ edgeCmds # << >>
  /\ edgeCmds' = Tail(edgeCmds)
  /\ edge' = IF Head(edgeCmds).mine THEN "updating" ELSE "waiting"
  /\ UNCHANGED << inbox, cmds, otaVars, timerVars, alive, worldVars >>

\* The update fails or there is nothing newer, and the server is told; or the binary is
\* replaced, the server is told, and five seconds later the process exits.
EdgeUpdate ==
  /\ alive /\ edge = "updating"
  /\ edge' \in {"waiting", "leaving"}
  /\ UNCHANGED << inbox, cmds, edgeCmds, otaVars, timerVars, alive, worldVars >>

EdgeExit ==
  /\ alive /\ edge = "leaving"
  /\ alive' = FALSE
  /\ UNCHANGED << inbox, cmds, edgeVars, otaVars, timerVars, worldVars >>

\* Whatever was in memory is gone.
Restart ==
  /\ ~alive /\ alive' = TRUE
  /\ inbox' = << >> /\ cmds' = << >> /\ edgeCmds' = << >> /\ edge' = "waiting"
  /\ ota' = NewOta /\ outbox' = << ToTimer("StopTimer") >>
  /\ timer' = "idle" /\ timerCmds' = << >> /\ timeouts' = 0
  /\ UNCHANGED worldVars
-----------------------------------------------------------------------------
(* firmware_watchdog_timer *)

TimerReceive ==
  /\ alive /\ Listening(timer) /\ timerCmds # << >>
  /\ timer' = Received(timer, Head(timerCmds)) /\ timerCmds' = Tail(timerCmds)
  /\ UNCHANGED << inbox, cmds, edgeVars, otaVars, timeouts, alive, worldVars >>

TimerExpire ==
  /\ alive /\ Sleeping(timer) /\ AllWait
  /\ timer' = "firing"
  /\ UNCHANGED << inbox, cmds, edgeVars, otaVars, timerCmds, timeouts, alive, worldVars >>

TimerFire ==
  /\ alive /\ timer = "firing" /\ timeouts < TimerCap
  /\ timeouts' = timeouts + 1 /\ timer' = "idle"
  /\ UNCHANGED << inbox, cmds, edgeVars, otaVars, timerCmds, alive, worldVars >>
-----------------------------------------------------------------------------
(* The server and the hubs, through the second layer. *)

\* Mutant: a handle does not wait for room.
Deliver_Unbounded(c) ==
  /\ alive /\ inbox' = Append(inbox, c)
  /\ UNCHANGED << cmds, edgeVars, otaVars, timerVars, alive, asked >>

Deliver(c) ==
  /\ alive /\ Len(inbox) < InboxCap /\ inbox' = Append(inbox, c)
  /\ UNCHANGED << cmds, edgeVars, otaVars, timerVars, alive, asked >>

ServerRequest ==
  /\ sent.requests < MaxRequests /\ sent' = [sent EXCEPT !.requests = @ + 1]
  /\ \E n \in Networks : Deliver(UpdateHub(n))
  /\ UNCHANGED reported

ServerUpdate ==
  /\ sent.updates < MaxUpdates /\ sent' = [sent EXCEPT !.updates = @ + 1]
  /\ \E mine \in BOOLEAN : Deliver(UpdateEdge(mine))
  /\ UNCHANGED reported

HubAnswer ==
  /\ sent.answers < MaxAnswers /\ sent' = [sent EXCEPT !.answers = @ + 1]
  /\ \E h \in asked, ok \in BOOLEAN :
       /\ Deliver(AckFromHub(h, ok))
       /\ reported' = IF ok THEN reported \cup {h} ELSE reported

Ota   == TakeRequest \/ TakeResponse \/ TakeTimeout \/ OtaSend
Edge  == EdgeTake \/ EdgeUpdate \/ EdgeExit
Timer == TimerReceive \/ TimerFire

Next ==
  \/ Relay \/ Ota \/ Edge \/ Timer \/ TimerExpire \/ Restart
  \/ ServerRequest \/ ServerUpdate \/ HubAnswer

Spec == Init /\ [][Next]_vars

\* The tasks run when they can, downloads and sleeps end, and the supervisor starts the
\* process again.  Neither the server nor the hubs need do anything.
FairSpec ==
  /\ Spec
  /\ WF_vars(Relay) /\ WF_vars(Ota) /\ WF_vars(Edge)
  /\ WF_vars(Timer) /\ WF_vars(TimerExpire) /\ WF_vars(Restart)
-----------------------------------------------------------------------------
(* Properties *)

\* A rollout never waits for a hub that nobody times: when all is quiet the hub in hand
\* has been asked and the watchdog runs, whatever requests and Timeouts overlapped.
Watched ==
  alive /\ Quiet /\ ota.state = "Working" =>
    /\ Sleeping(timer)
    /\ ota.index <= Len(ota.vector) /\ ota.vector[ota.index].id \in asked

\* The outcome counts no hub that did not report success itself, whichever answers were
\* late and whichever Timeouts raced them.  An answer names no rollout, so one that a hub
\* gave in an earlier rollout may be counted for it in a later one.
OnlyReported ==
  \A i \in DOMAIN ota.vector : ota.vector[i].updated => ota.vector[i].id \in reported

\* A rollout comes to an end, though hubs fall silent and requests overlap.
RolloutEnds == ota.state = "Working" ~> ota.state = "Sleeping"

\* hub_ota: the Timeout is "para abortar la operación que tardó demasiado"; one that was
\* overtaken by the last answer finds no operation, and no hub in hand.
TimeoutOfRollout == [][TakeTimeout => ota.state = "Working" /\ ota.index <= Len(ota.vector)]_vars
=============================================================================
