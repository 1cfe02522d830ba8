--------------------------- MODULE NetworkTopology ---------------------------
(***************************************************************************)
(* The topology: NetworkService (src/third_layer/network), which keeps the *)
(* networks and hubs in memory and in the database, the part of the data   *)
(* service that answers it, and the creation of the FSM's runtime by the   *)
(* third layer's middleware, with the MQTT client of MqttClient.  A        *)
(* command changes the memory first and the database after; what it still  *)
(* has to do is a sequence of steps, one per await, and the process may    *)
(* die between any two.                                                    *)
(***************************************************************************)
EXTENDS MqttClient, FiniteSets

CONSTANTS
  Hubs,        \* the identifiers of hubs
  InboxCap,    \* capacity of the channel of NetworkHandle
  RunCap,      \* capacity of the channels of NetworkServiceResponse
  MaxCommands, \* bound: commands of the server and requests of hubs
  MaxCrashes,  \* bound: times the process dies
  MaxFaults    \* bound: SQL statements that fail

\* The id of a HubRow that was given none, and what identifies a row of the table hub.
Nameless == ""
Row      == Hubs \cup {Nameless}

ASSUME TopologyAssumption ==
  /\ {InboxCap, RunCap, MaxCommands, MaxCrashes, MaxFaults} \subseteq Nat
  /\ Networks \cap {"none", Linkage} = {} /\ Nameless \notin Hubs

VARIABLES
  hubs,     \* NetworkManager.hubs
  dbNet,    \* the table network
  dbHub,    \* the table hub: the network_id of each row
  inbox,    \* NetworkHandle -> NetworkService
  todo,     \* NetworkService: what is left of the command in hand
  runs,     \* its own channel tx -> rx_response (number of Run)
  starting, \* Run on its way to FsmService
  runtime,  \* FsmService: the runtime exists
  fsmLink,  \* the last connection event the runtime was given
  spent,    \* commands, crashes and faults so far
  acked     \* not in the code: what the server was last told of each network

memory   == << networks, hubs >>
db       == << dbNet, dbHub >>
fsmVars  == << runs, starting, runtime, fsmLink >>
vars == << mqttVars, memory, db, inbox, todo, fsmVars, spent, acked >>

\* InternalNetworkCommand.
Net(n, active, delete) == [name |-> "Net", net |-> n, active |-> active, delete |-> delete]
LinkageReq(h, n)       == [name |-> "LinkageReq", hub |-> h, net |-> n]
SettingsServer(n)      == [name |-> "SettingsServer", net |-> n]
Command == { Net(n, a, d) : n \in Networks, a \in BOOLEAN, d \in BOOLEAN }
           \cup { LinkageReq(h, n) : h \in Hubs, n \in Networks }
           \cup { SettingsServer(n) : n \in Networks }

Flag(active) == IF active THEN "active" ELSE "paused"

\* SQL statements.
InsertNetwork(n, flag) == [sql |-> "insert network", net |-> n, flag |-> flag]
UpsertNetwork(n, flag) == [sql |-> "upsert network", net |-> n, flag |-> flag]
DeleteNetwork(n)       == [sql |-> "delete network", net |-> n]
DeleteHubs(n)          == [sql |-> "delete hubs", net |-> n]
InsertHub(h, n)        == [sql |-> "insert hub", net |-> n, hub |-> h]
Statement == [sql : {"insert network", "upsert network"}, net : Networks, flag : {"active", "paused"}]
             \cup [sql : {"delete network", "delete hubs"}, net : Networks]
             \cup [sql : {"insert hub"}, net : Networks, hub : Row]

\* Steps: a statement, with what is done instead of the rest when it fails; a command to
\* the MQTT client; an answer to the server or to a hub; Run; the load of the memory.
Sql(stmt, otherwise) == [do |-> "sql", stmt |-> stmt, otherwise |-> otherwise]
ToMqtt(c)            == [do |-> "mqtt", cmd |-> c]
NetworkAck(n, what)  == [do |-> "ack", net |-> n, what |-> what]
LinkageAck           == [do |-> "linkage ack"]
Config               == [do |-> "config"]
Run                  == [do |-> "run"]
Load                 == [do |-> "load"]

\* A DataHandle answers true whatever the statement did: the rest follows in any case.
Regardless(stmt, rest) == << Sql(stmt, rest) >> \o rest

\* A statement that fails may leave statements to do that may fail themselves.
SqlStep(S) == [do : {"sql"}, stmt : Statement, otherwise : Seq(S)]
PlainStep  == [do : {"mqtt"}, cmd : MqttServiceCommand]
              \cup [do : {"ack"}, net : Networks, what : Activity \cup {"nothing"}]
              \cup [do : {"linkage ack", "config", "run"}]
RetryStep  == PlainStep \cup SqlStep(PlainStep)
Step       == RetryStep \cup SqlStep(RetryStep) \cup {Load}

TypeOK ==
  /\ MqttTypeOK
  /\ hubs \in [Networks -> SUBSET Row]
  /\ dbNet \in [Networks -> Activity] /\ dbHub \in [Row -> Networks \cup {"none"}]
  /\ inbox \in Seq(Command) /\ Len(inbox) <= InboxCap
  /\ todo \in Seq(Step)
  /\ runs \in 0 .. RunCap /\ starting \in 0 .. RunCap /\ runtime \in BOOLEAN
  /\ fsmLink \in LinkEvent \cup {"Unknown"}
  /\ spent \in [commands : 0 .. MaxCommands, crashes : 0 .. MaxCrashes, faults : 0 .. MaxFaults]
  /\ acked \in [Networks -> Activity \cup {"nothing"}]

Init ==
  /\ MqttInit /\ networks = [n \in Networks |-> "absent"] /\ hubs = [n \in Networks |-> {}]
  /\ dbNet = [n \in Networks |-> "absent"] /\ dbHub = [h \in Row |-> "none"]
  /\ inbox = << >> /\ todo = << Load >>
  /\ runs = 0 /\ starting = 0 /\ runtime = FALSE /\ fsmLink = "Unknown"
  /\ spent = [commands |-> 0, crashes |-> 0, faults |-> 0]
  /\ acked = [n \in Networks |-> "nothing"]
-----------------------------------------------------------------------------
(* The commands: what changes in memory, and the steps that follow. *)

\* Mutant: the server is answered first.
InsertSteps_AckFirst(n, flag) ==
  << NetworkAck(n, flag), Sql(InsertNetwork(n, flag), << >>), ToMqtt("NetworksUpdated") >>

InsertSteps(n, flag) ==
  Regardless(InsertNetwork(n, flag), << ToMqtt("NetworksUpdated"), NetworkAck(n, flag) >>)

UpdateSteps(n, flag) ==
  Regardless(UpsertNetwork(n, flag), << ToMqtt("NetworksUpdated"), NetworkAck(n, flag) >>)

\* Mutant: the hubs are left to the call that deletes all of them, however the first one ends.
DeleteSteps_AckFirst(n) ==
  LET failed == Regardless(DeleteHubs(n), << NetworkAck(n, "nothing") >>)
  IN  << Sql(DeleteNetwork(n), failed), NetworkAck(n, "absent") >>
      \o Regardless(DeleteHubs(n), << ToMqtt("NetworksUpdated") >>)

\* delete_network is answered truly, and delete_all_hubs_by_network follows in any case.
DeleteSteps(n) ==
  LET failed == Regardless(DeleteHubs(n), << NetworkAck(n, "nothing") >>)
  IN  << Sql(DeleteNetwork(n), failed), Sql(DeleteHubs(n), failed) >>
      \o Regardless(DeleteHubs(n), << ToMqtt("NetworksUpdated"), NetworkAck(n, "absent") >>)

\* network, with handle_action and the steps of handle_event.
Network(c) ==
  LET n == c.net
      known == networks[n] # "absent"
  IN  CASE known /\ c.delete -> networks' = [networks EXCEPT ![n] = "absent"] /\ todo' = DeleteSteps(n)
        [] known /\ ~c.delete /\ networks[n] # Flag(c.active) ->
             networks' = [networks EXCEPT ![n] = Flag(c.active)] /\ todo' = UpdateSteps(n, Flag(c.active))
        [] ~known /\ ~c.delete ->
             networks' = [networks EXCEPT ![n] = Flag(c.active)] /\ todo' = InsertSteps(n, Flag(c.active))
        [] OTHER -> UNCHANGED << networks, todo >>

TakeNetwork ==
  /\ todo = << >> /\ inbox # << >> /\ Head(inbox).name = "Net"
  /\ inbox' = Tail(inbox) /\ Network(Head(inbox))
  /\ acked' = IF networks' = networks THEN acked ELSE [acked EXCEPT ![Head(inbox).net] = "nothing"]
  /\ UNCHANGED << mqttVars, hubs, db, fsmVars, spent >>

NoHubs == \A n \in Networks : hubs[n] = {}

\* search_hub: a hub of an unknown network counts as registered.
SearchHub(h, n) == networks[n] = "absent" \/ h \in hubs[n]

\* Mutant: the hubs are counted after the new one has been added.
LinkageSteps_CountsItself(h, n) == Regardless(InsertHub(h, n), << LinkageAck >>)

\* The first hub of all starts the FSM; a failed INSERT goes unnoticed.
LinkageSteps(h, n) ==
  Regardless(InsertHub(h, n), IF NoHubs THEN << Run, LinkageAck >> ELSE << LinkageAck >>)

TakeLinkage ==
  /\ todo = << >> /\ inbox # << >> /\ Head(inbox).name = "LinkageReq"
  /\ inbox' = Tail(inbox)
  /\ LET h == Head(inbox).hub
         n == Head(inbox).net
     IN  IF SearchHub(h, n)
         THEN todo' = << LinkageAck >> /\ UNCHANGED hubs
         ELSE todo' = LinkageSteps(h, n) /\ hubs' = [hubs EXCEPT ![n] = @ \cup {h}]
  /\ UNCHANGED << mqttVars, networks, db, fsmVars, spent, acked >>

\* settings_from_server: a row goes to the database only (hub_hash_aux is never read), and
\* cast_settings_to_hub_row gives it no id: all settings are one row of the table.
TakeSettings ==
  /\ todo = << >> /\ inbox # << >> /\ Head(inbox).name = "SettingsServer"
  /\ inbox' = Tail(inbox)
  /\ todo' = Regardless(InsertHub(Nameless, Head(inbox).net), << Config >>)
  /\ UNCHANGED << mqttVars, memory, db, fsmVars, spent, acked >>
-----------------------------------------------------------------------------
(* The steps. *)

\* What a statement does to the tables; an INSERT of a key that is there, or of a hub when
\* there is no network, does nothing.
Effect(stmt) ==
  CASE stmt.sql = "insert network" ->
         /\ dbNet' = IF dbNet[stmt.net] = "absent" THEN [dbNet EXCEPT ![stmt.net] = stmt.flag] ELSE dbNet
         /\ UNCHANGED dbHub
    [] stmt.sql = "upsert network" -> dbNet' = [dbNet EXCEPT ![stmt.net] = stmt.flag] /\ UNCHANGED dbHub
    [] stmt.sql = "delete network" -> dbNet' = [dbNet EXCEPT ![stmt.net] = "absent"] /\ UNCHANGED dbHub
    [] stmt.sql = "delete hubs" ->
         /\ dbHub' = [h \in Row |-> IF dbHub[h] = stmt.net THEN "none" ELSE dbHub[h]]
         /\ UNCHANGED dbNet
    [] stmt.sql = "insert hub" ->
         /\ dbHub' = IF dbHub[stmt.hub] = "none" /\ \E n \in Networks : dbNet[n] # "absent"
                     THEN [dbHub EXCEPT ![stmt.hub] = stmt.net] ELSE dbHub
         /\ UNCHANGED dbNet

Execute ==
  /\ todo # << >> /\ Head(todo).do = "sql"
  /\ Effect(Head(todo).stmt) /\ todo' = Tail(todo)
  /\ UNCHANGED << mqttVars, memory, inbox, fsmVars, spent, acked >>

Fault == spent.faults < MaxFaults /\ spent' = [spent EXCEPT !.faults = @ + 1]

ExecuteFails ==
  /\ todo # << >> /\ Head(todo).do = "sql" /\ Fault
  /\ todo' = Head(todo).otherwise
  /\ UNCHANGED << mqttVars, memory, db, inbox, fsmVars, acked >>

\* update_networks or networks_ready.
TellMqtt ==
  /\ todo # << >> /\ Head(todo).do = "mqtt" /\ Len(netCmds) < CmdCap
  /\ netCmds' = Append(netCmds, Head(todo).cmd) /\ todo' = Tail(todo)
  /\ UNCHANGED << memory, db, inbox, fsmVars, spent, acked >>
  /\ UNCHANGED << client, subs, requests, session, broker, outages, linkEvents >>

\* An answer is handed to the message service.
Answer ==
  /\ todo # << >> /\ Head(todo).do \in {"ack", "linkage ack", "config"}
  /\ acked' = IF Head(todo).do = "ack" THEN [acked EXCEPT ![Head(todo).net] = Head(todo).what] ELSE acked
  /\ todo' = Tail(todo)
  /\ UNCHANGED << mqttVars, memory, db, inbox, fsmVars, spent >>

SendRun ==
  /\ todo # << >> /\ Head(todo).do = "run" /\ runs < RunCap
  /\ runs' = runs + 1 /\ todo' = Tail(todo)
  /\ UNCHANGED << mqttVars, memory, db, inbox, starting, runtime, fsmLink, spent, acked >>

\* Mutant: the networks are read, their active flags are not.
Remembered_AllActive == [n \in Networks |-> IF dbNet[n] = "absent" THEN "absent" ELSE "active"]

Remembered == [n \in Networks |-> dbNet[n]]

\* load_memory: without networks the client is not started; without hubs the FSM is not.
LoadMemory ==
  /\ todo # << >> /\ Head(todo).do = "load"
  /\ IF \A n \in Networks : dbNet[n] = "absent"
     THEN todo' = << >> /\ UNCHANGED memory
     ELSE /\ networks' = Remembered
          /\ hubs' = [n \in Networks |-> { h \in Row : dbHub[h] = n }]
          /\ todo' = IF \E h \in Row : dbHub[h] # "none"
                     THEN << ToMqtt("NetworksReady"), Run >> ELSE << ToMqtt("NetworksReady") >>
  /\ UNCHANGED << mqttVars, db, inbox, fsmVars, spent, acked >>

\* A query fails: nothing is loaded, or the networks without their hubs.
LoadFails ==
  /\ todo # << >> /\ Head(todo).do = "load" /\ Fault
  /\ \/ todo' = << >> /\ UNCHANGED networks
     \/ /\ \E n \in Networks : dbNet[n] # "absent"
        /\ todo' = << ToMqtt("NetworksReady") >> /\ networks' = Remembered
  /\ UNCHANGED << mqttVars, hubs, db, inbox, fsmVars, acked >>
-----------------------------------------------------------------------------
(* The runtime of the FSM. *)

\* Between two commands NetworkService hands a Run on to the middleware.
ForwardRun ==
  /\ todo = << >> /\ runs > 0 /\ starting < RunCap
  /\ runs' = runs - 1 /\ starting' = starting + 1
  /\ UNCHANGED << mqttVars, memory, db, inbox, todo, runtime, fsmLink, spent, acked >>

\* create_runtime; there is one at most.
CreateRuntime ==
  /\ starting > 0 /\ starting' = starting - 1 /\ runtime' = TRUE
  /\ UNCHANGED << mqttVars, memory, db, inbox, todo, runs, fsmLink, spent, acked >>

\* A connection event; before there is a runtime it is dropped.
DeliverLink ==
  /\ linkEvents # << >> /\ linkEvents' = Tail(linkEvents)
  /\ fsmLink' = IF runtime THEN Head(linkEvents) ELSE fsmLink
  /\ UNCHANGED << memory, db, inbox, todo, runs, starting, runtime, spent, acked >>
  /\ UNCHANGED << client, subs, netCmds, requests, session, broker, outages >>
-----------------------------------------------------------------------------
(* The server, the hubs and the process. *)

\* Mutant: a handle does not wait for room.
Deliver_Unbounded(c) ==
  /\ spent.commands < MaxCommands /\ spent' = [spent EXCEPT !.commands = @ + 1]
  /\ inbox' = Append(inbox, c)
  /\ UNCHANGED << mqttVars, memory, db, todo, fsmVars, acked >>

Deliver(c) ==
  /\ spent.commands < MaxCommands /\ spent' = [spent EXCEPT !.commands = @ + 1]
  /\ Len(inbox) < InboxCap /\ inbox' = Append(inbox, c)
  /\ UNCHANGED << mqttVars, memory, db, todo, fsmVars, acked >>

ServerNetwork  == \E n \in Networks, active, delete \in BOOLEAN : Deliver(Net(n, active, delete))
ServerSettings == \E n \in Networks : Deliver(SettingsServer(n))

\* A hub is heard through the broker only.
HubLinkage ==
  /\ client.state = "Work" /\ client.link = "up" /\ Linkage \in session
  /\ \E h \in Hubs, n \in Networks : Deliver(LinkageReq(h, n))

\* The process dies, at any point, and is started again.
Crash ==
  /\ spent.crashes < MaxCrashes /\ spent' = [spent EXCEPT !.crashes = @ + 1]
  /\ MqttRestart /\ networks' = [n \in Networks |-> "absent"] /\ hubs' = [n \in Networks |-> {}]
  /\ inbox' = << >> /\ todo' = << Load >>
  /\ runs' = 0 /\ starting' = 0 /\ runtime' = FALSE /\ fsmLink' = "Unknown"
  /\ UNCHANGED << db, acked >>

topologyVars == << hubs, db, inbox, todo, fsmVars, spent, acked >>

Service ==
  \/ TakeNetwork \/ TakeLinkage \/ TakeSettings
  \/ Execute \/ TellMqtt \/ Answer \/ SendRun \/ LoadMemory \/ ForwardRun

Environment == ServerNetwork \/ ServerSettings \/ HubLinkage \/ ExecuteFails \/ LoadFails \/ Crash

Next ==
  \/ Service \/ CreateRuntime \/ DeliverLink \/ Environment
  \/ (Mqtt \/ Broker) /\ UNCHANGED topologyVars

Spec == Init /\ [][Next]_vars

\* The tasks run when they can, and the select! of mqtt passes over none of its branches
\* for ever.  Nothing obliges the server, the hubs or the broker.
FairSpec ==
  /\ Spec /\ WF_vars(Service) /\ WF_vars(CreateRuntime) /\ WF_vars(DeliverLink)
  /\ WF_vars((Wait \/ Initialize \/ Connect \/ PollError \/ Recover) /\ UNCHANGED topologyVars)
  /\ SF_vars((TakeNetCommand \/ SendRequest) /\ UNCHANGED topologyVars)
-----------------------------------------------------------------------------
(* Properties *)

Idle == todo = << >>

\* What the server was told of a network is in the database, through every crash (as long
\* as no statement has failed).
AcksAreDurable ==
  spent.faults = 0 => \A n \in Networks : acked[n] # "nothing" => dbNet[n] = acked[n]

\* Between commands, and once a restart has loaded them, the networks in memory are those of
\* the database, with their flags.  Networks only: of the hubs it does not hold.
NetworksAreDatabase == spent.faults = 0 /\ Idle => networks = dbNet

\* A network whose deletion was acknowledged leaves no hub of its own behind, for a restart to
\* find, whichever statements failed and wherever the process died.
DeletionsAreComplete ==
  \A n \in Networks : acked[n] = "absent" => \A h \in Hubs : dbHub[h] # n

\* Once the client has caught up it hears exactly the networks in memory, however updates,
\* reconnections and restarts were interleaved.
HearsNetworks ==
  spent.faults = 0 /\ Idle /\ netCmds = << >> /\ requests = << >> /\ client.link = "up" =>
    session \cap Networks = Known

\* An edge that counts a hub runs the FSM: the first one to link starts it, or the restart.
\* The nameless row that a restart loads after a settings message counts as one.
HubsRunTheFsm ==
  Idle /\ runs = 0 /\ starting = 0 /\ (\E n \in Networks : hubs[n] # {}) => runtime

\* A client that was started gets (back) to the broker, however often and wherever it was
\* interrupted, unless the broker is gone again or the process has died.
Reconnects == client.state # "Waiting" ~> client.link = "up" \/ ~broker \/ todo = << Load >>

\* The FSM is not left with a wrong idea of the broker, though events are dropped until
\* there is a runtime: it takes it to be there until it is told otherwise.
FsmKnowsTheLink ==
  /\ <>[](~broker /\ client.state # "Waiting") => <>[](runtime => fsmLink = "LocalDisconnected")
  /\ <>[](client.link = "up") => <>[](fsmLink # "LocalDisconnected")

\* mqtt/domain.rs: after a change of the networks the client "debe actualizar sus
\* suscripciones"; then it hears the hubs of a network that ask to be linked.
HubsCanLink ==
  Idle /\ netCmds = << >> /\ requests = << >> /\ broker /\ Known # {}
    /\ client.state \in {"Waiting", "Work"} /\ client.link # "broken"
    /\ (client.state = "Work" => client.link = "up")
    => Linkage \in session
=============================================================================
