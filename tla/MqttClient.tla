----------------------------- MODULE MqttClient -----------------------------
(***************************************************************************)
(* The client of the local broker (src/first_layer/mqtt): the task mqtt,   *)
(* its record of subscriptions, the requests rumqttc holds until the event *)
(* loop is polled, and the broker's session, which is a clean one.  The    *)
(* eleven topics a network is subscribed with come and go together: the    *)
(* network stands for them.  Payloads to publish are left out.             *)
(***************************************************************************)
EXTENDS Naturals, Sequences

CONSTANTS
  Networks,  \* the identifiers of networks
  CmdCap,    \* capacity of the channels MqttHandle -> MqttService -> rx_net
  EventCap,  \* capacity of the channels tx -> MqttService -> FsmService
  MaxOutages \* bound: times the broker goes away or the client cannot be made

ASSUME MqttAssumption == {CmdCap, EventCap, MaxOutages} \subseteq Nat

VARIABLES
  networks,   \* NetworkManager.networks, which the client reads
  client,     \* mqtt: its StateClient, and the connection underneath
  subs,       \* mqtt: current_subs
  netCmds,    \* rx_net
  requests,   \* the client's requests that the event loop has not sent
  session,    \* the topics the broker forwards
  broker,     \* the broker runs
  outages,    \* how often it went away, or no client could be made
  linkEvents  \* LocalConnected and LocalDisconnected on their way to FsmService

mqttVars == << client, subs, netCmds, requests, session, broker, outages, linkEvents >>

Activity    == {"absent", "active", "paused"}
Linkage     == "linkage_request"
Topic       == Networks \cup {Linkage}
StateClient == {"Waiting", "Init", "Work", "Error"}
Request     == [add : SUBSET Topic, drop : SUBSET Topic]
MqttServiceCommand == {"NetworksReady", "NetworksUpdated"}
LinkEvent   == {"LocalConnected", "LocalDisconnected"}

MqttTypeOK ==
  /\ networks \in [Networks -> Activity]
  /\ client \in [state : StateClient, link : {"none", "up", "broken"}]
  /\ subs \subseteq Topic /\ session \subseteq Topic
  /\ netCmds \in Seq(MqttServiceCommand) /\ requests \in Seq(Request)
  /\ broker \in BOOLEAN /\ outages \in 0 .. MaxOutages /\ linkEvents \in Seq(LinkEvent)

Known == { n \in Networks : networks[n] # "absent" }

MqttInit ==
  /\ client = [state |-> "Waiting", link |-> "none"] /\ subs = {} /\ netCmds = << >>
  /\ requests = << >> /\ session = {} /\ broker = TRUE /\ outages = 0 /\ linkEvents = << >>

\* The process dies; the broker forgets its session.
MqttRestart ==
  /\ client' = [state |-> "Waiting", link |-> "none"] /\ subs' = {} /\ netCmds' = << >>
  /\ requests' = << >> /\ session' = {} /\ linkEvents' = << >>
  /\ UNCHANGED << broker, outages >>
-----------------------------------------------------------------------------
\* Any command but NetworksReady is dropped.
Wait ==
  /\ client.state = "Waiting" /\ netCmds # << >>
  /\ netCmds' = Tail(netCmds)
  /\ client' = [client EXCEPT !.state = IF Head(netCmds) = "NetworksReady" THEN "Init" ELSE @]
  /\ UNCHANGED << networks, subs, requests, session, broker, outages, linkEvents >>

\* The certificates cannot be read.
InitializeFails ==
  /\ client.state = "Init" /\ outages < MaxOutages /\ outages' = outages + 1
  /\ client' = [client EXCEPT !.state = "Error"]
  /\ UNCHANGED << networks, subs, netCmds, requests, session, broker, linkEvents >>

CollectSubscriptions == Known \cup {Linkage}

\* A new client, with every subscription asked for; it is not polled yet.
Initialize ==
  /\ client.state = "Init"
  /\ client' = [state |-> "Work", link |-> "none"]
  /\ subs' = CollectSubscriptions
  /\ requests' = << [add |-> CollectSubscriptions, drop |-> {}] >>
  /\ UNCHANGED << networks, netCmds, session, broker, outages, linkEvents >>

\* Mutant: the topics of a network that is gone stay subscribed.
UpdateSubscriptions_OnlyAdds ==
  /\ subs' = subs \cup Known
  /\ requests' = IF Known \subseteq subs THEN requests
                 ELSE Append(requests, [add |-> Known \ subs, drop |-> {}])

\* update_subscriptions: only the topics of the networks are marked active again.
UpdateSubscriptions ==
  /\ subs' = Known
  /\ requests' = IF Known = subs THEN requests
                 ELSE Append(requests, [add |-> Known \ subs, drop |-> subs \ Known])

TakeNetCommand ==
  /\ client.state = "Work" /\ netCmds # << >>
  /\ netCmds' = Tail(netCmds)
  /\ IF Head(netCmds) = "NetworksUpdated" THEN UpdateSubscriptions ELSE UNCHANGED << subs, requests >>
  /\ UNCHANGED << networks, client, session, broker, outages, linkEvents >>

\* poll: the connection, in a clean session.
Connect ==
  /\ client.state = "Work" /\ client.link = "none" /\ broker /\ Len(linkEvents) < EventCap
  /\ client' = [client EXCEPT !.link = "up"]
  /\ session' = {} /\ linkEvents' = Append(linkEvents, "LocalConnected")
  /\ UNCHANGED << networks, subs, netCmds, requests, broker, outages >>

\* poll: a request goes out.
SendRequest ==
  /\ client.state = "Work" /\ client.link = "up" /\ requests # << >>
  /\ session' = (session \cup Head(requests).add) \ Head(requests).drop
  /\ requests' = Tail(requests)
  /\ UNCHANGED << networks, client, subs, netCmds, broker, outages, linkEvents >>

\* Mutant: the FSM is not told of a connection that could not be made.
PollError_OnlyBroken ==
  /\ client.state = "Work" /\ Len(linkEvents) < EventCap
  /\ client.link = "broken" \/ (client.link = "none" /\ ~broker)
  /\ client' = [state |-> "Error", link |-> "none"]
  /\ requests' = << >> /\ session' = {}
  /\ linkEvents' = IF client.link = "none" THEN linkEvents ELSE Append(linkEvents, "LocalDisconnected")
  /\ UNCHANGED << networks, subs, netCmds, broker, outages >>

\* poll: the connection broke or could not be made; the client goes, and its requests with it.
PollError ==
  /\ client.state = "Work" /\ Len(linkEvents) < EventCap
  /\ client.link = "broken" \/ (client.link = "none" /\ ~broker)
  /\ client' = [state |-> "Error", link |-> "none"]
  /\ requests' = << >> /\ session' = {}
  /\ linkEvents' = Append(linkEvents, "LocalDisconnected")
  /\ UNCHANGED << networks, subs, netCmds, broker, outages >>

\* Mutant: the client waits for NetworksReady again.
Recover_Waits ==
  /\ client.state = "Error"
  /\ client' = [client EXCEPT !.state = "Waiting"]
  /\ UNCHANGED << networks, subs, netCmds, requests, session, broker, outages, linkEvents >>

\* Five seconds later.
Recover ==
  /\ client.state = "Error"
  /\ client' = [client EXCEPT !.state = "Init"]
  /\ UNCHANGED << networks, subs, netCmds, requests, session, broker, outages, linkEvents >>

BrokerDown ==
  /\ broker /\ outages < MaxOutages
  /\ broker' = FALSE /\ outages' = outages + 1 /\ session' = {}
  /\ client' = IF client.link = "up" THEN [client EXCEPT !.link = "broken"] ELSE client
  /\ UNCHANGED << networks, subs, netCmds, requests, linkEvents >>

BrokerUp ==
  /\ ~broker /\ broker' = TRUE
  /\ UNCHANGED << networks, client, subs, netCmds, requests, session, outages, linkEvents >>

\* The task mqtt; which branch its select! takes is not decided here.
Mqtt   == Wait \/ Initialize \/ TakeNetCommand \/ Connect \/ SendRequest \/ PollError \/ Recover
Broker == BrokerDown \/ BrokerUp \/ InitializeFails
=============================================================================
