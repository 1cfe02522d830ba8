------------------------------ MODULE GrpcLink ------------------------------
(***************************************************************************)
(* The link to the server (src/first_layer/grpc_service/domain.rs): the    *)
(* task grpc, which connects, works and backs off, and GrpcService::run,   *)
(* which forwards uploads to it and its events to the message service.     *)
(*                                                                         *)
(* A message is what it is (tag) and the readings of the hubs it carries   *)
(* (of): an upload may carry one reading, a batch of them or none.         *)
(***************************************************************************)
EXTENDS Naturals, Sequences, FiniteSets

CONSTANTS
  Readings,    \* what the hubs measure: pairs of a kind and a number
  HandleCap,   \* capacity of the channel of GrpcHandle
  OutboundCap, \* capacity of the channel of uploads into grpc
  EventsCap,   \* capacity of the channel of events out of grpc
  SessionCap,  \* capacity of the channel that feeds the stream
  InboxCap,    \* capacity of the channel into the message service (buffer_size)
  MaxOutages   \* bound: times the server goes away

VARIABLES
  handle,     \* channel of GrpcHandle -> GrpcService::rx
  forwarding, \* GrpcService::run: the message it is sending on (at most one)
  outbound,   \* channel tx -> rx_outbound
  grpcEvents, \* channel tx_to_core -> rx_from_grpc
  client,     \* the StateClient of grpc and how far into it the task is
  session,    \* channel tx_session -> the stream
  stream,     \* the bidirectional stream, as the network knows it
  server,     \* whether the server can be reached
  delivered,  \* how often the server has got each reading
  lost,       \* the readings in the session of a stream when it broke
  inbox,      \* channel of MqttService and GrpcService -> MessageService::receiver
  outages     \* how much of MaxOutages is used up

serviceVars == << handle, forwarding >>
clientVars  == << client, session, stream, lost >>
serverVars  == << server, delivered, outages >>
linkVars    == << serviceVars, outbound, grpcEvents, clientVars, serverVars, inbox >>

Tag     == {"Reading", "Batch", "EdgeState", "ServerConnected", "ServerDisconnected"}
Message == [tag : Tag, of : SUBSET Readings]
Sending == [to : {"outbound", "inbox", "own", "middleware", "data", "handle"}, msg : Message]

Plain(tag)    == [tag |-> tag, of |-> {}]
Send(to, msg) == [to |-> to, msg |-> msg]

\* "Greeting" is Init with the stream open, sending ServerConnected; "Backoff" is
\* Error with ServerDisconnected sent, in its sleep of 5 seconds.
StateClient == {"Init", "Greeting", "Work", "Error", "Backoff"}

LinkTypeOK ==
  /\ handle \in Seq(Message) /\ outbound \in Seq(Message) /\ session \in Seq(Message)
  /\ grpcEvents \in Seq(Message) /\ inbox \in Seq(Message)
  /\ forwarding \in Seq(Sending) /\ Len(forwarding) <= 1
  /\ client \in StateClient
  /\ stream \in {"none", "open", "broken"} /\ server \in {"up", "down"}
  /\ delivered \in [Readings -> Nat] /\ lost \subseteq Readings
  /\ outages \in 0 .. MaxOutages

LinkInit ==
  /\ handle = << >> /\ forwarding = << >> /\ outbound = << >> /\ grpcEvents = << >>
  /\ client = "Init" /\ session = << >> /\ stream = "none"
  /\ server = "up" /\ delivered = [r \in Readings |-> 0] /\ lost = {}
  /\ inbox = << >> /\ outages = 0

ReadingsIn(q) == UNION { q[i].of : i \in DOMAIN q }
-----------------------------------------------------------------------------
(* GrpcService::run.  While it waits for room for the message in hand it receives
   from neither side. *)

ForwardUpload ==
  /\ forwarding = << >> /\ handle # << >>
  /\ forwarding' = << Send("outbound", Head(handle)) >>
  /\ handle' = Tail(handle)
  /\ UNCHANGED << outbound, grpcEvents, clientVars, serverVars, inbox >>

ForwardEvent ==
  /\ forwarding = << >> /\ grpcEvents # << >>
  /\ forwarding' = << Send("inbox", Head(grpcEvents)) >>
  /\ grpcEvents' = Tail(grpcEvents)
  /\ UNCHANGED << handle, outbound, clientVars, serverVars, inbox >>

ForwardSend ==
  /\ forwarding # << >>
  /\ LET s == Head(forwarding)
     IN  \/ /\ s.to = "outbound" /\ Len(outbound) < OutboundCap
            /\ outbound' = Append(outbound, s.msg) /\ UNCHANGED inbox
         \/ /\ s.to = "inbox" /\ Len(inbox) < InboxCap
            /\ inbox' = Append(inbox, s.msg) /\ UNCHANGED outbound
  /\ forwarding' = << >>
  /\ UNCHANGED << handle, grpcEvents, clientVars, serverVars >>
-----------------------------------------------------------------------------
(* grpc.  Only Work receives from rx_outbound. *)

Emit(event) ==
  /\ Len(grpcEvents) < EventsCap
  /\ grpcEvents' = Append(grpcEvents, Plain(event))

\* create_tls_channel and connect_stream, with a new session.
Connect ==
  /\ client = "Init"
  /\ \/ /\ server = "up"
        /\ client' = "Greeting" /\ stream' = "open" /\ session' = << >>
     \/ /\ server = "down"
        /\ client' = "Error" /\ UNCHANGED << stream, session >>
  /\ UNCHANGED << serviceVars, outbound, grpcEvents, lost, serverVars, inbox >>

Greet ==
  /\ client = "Greeting"
  /\ Emit("ServerConnected")
  /\ client' = "Work"
  /\ UNCHANGED << serviceVars, outbound, session, stream, lost, serverVars, inbox >>

\* Upstream: into the session, as long as its receiver has not been dropped.
Upload ==
  /\ client = "Work" /\ outbound # << >> /\ Len(session) < SessionCap
  /\ session' = Append(session, Head(outbound))
  /\ outbound' = Tail(outbound)
  /\ UNCHANGED << serviceVars, grpcEvents, client, stream, lost, serverVars, inbox >>

\* Mutant: a stream that the server has closed is noticed by a failed send only.
StreamBreaks_OnSend ==
  /\ client = "Work" /\ stream = "broken" /\ outbound # << >>
  /\ lost' = lost \cup ReadingsIn(session) \cup Head(outbound).of
  /\ outbound' = Tail(outbound)
  /\ session' = << >> /\ stream' = "none" /\ client' = "Error"
  /\ UNCHANGED << serviceVars, grpcEvents, serverVars, inbox >>

\* The task notices that the stream is gone, from the side of the server (nothing more
\* is taken from outbound) or from a send into the dead session (its message is gone
\* too).  What waits in the session is dropped with it.
StreamBreaks ==
  /\ client = "Work" /\ stream = "broken"
  /\ \/ /\ lost' = lost \cup ReadingsIn(session)
        /\ UNCHANGED outbound
     \/ /\ outbound # << >>
        /\ lost' = lost \cup ReadingsIn(session) \cup Head(outbound).of
        /\ outbound' = Tail(outbound)
  /\ session' = << >> /\ stream' = "none" /\ client' = "Error"
  /\ UNCHANGED << serviceVars, grpcEvents, serverVars, inbox >>

Report ==
  /\ client = "Error"
  /\ Emit("ServerDisconnected")
  /\ client' = "Backoff"
  /\ UNCHANGED << serviceVars, outbound, session, stream, lost, serverVars, inbox >>

BackoffEnds ==
  /\ client = "Backoff" /\ client' = "Init"
  /\ UNCHANGED << serviceVars, outbound, grpcEvents, session, stream, lost, serverVars, inbox >>
-----------------------------------------------------------------------------
(* The network and the server *)

Deliver ==
  /\ stream = "open" /\ session # << >>
  /\ delivered' = [r \in Readings |-> IF r \in Head(session).of THEN delivered[r] + 1
                                                                ELSE delivered[r]]
  /\ session' = Tail(session)
  /\ UNCHANGED << serviceVars, outbound, grpcEvents, client, stream, lost, server, outages, inbox >>

ServerGoes ==
  /\ server = "up" /\ outages < MaxOutages
  /\ server' = "down" /\ outages' = outages + 1
  /\ stream' = IF stream = "open" THEN "broken" ELSE stream
  /\ UNCHANGED << serviceVars, outbound, grpcEvents, client, session, lost, delivered, inbox >>

ServerReturns ==
  /\ server = "down" /\ server' = "up"
  /\ UNCHANGED << serviceVars, outbound, grpcEvents, clientVars, delivered, outages, inbox >>
-----------------------------------------------------------------------------
ServiceNext == ForwardUpload \/ ForwardEvent \/ ForwardSend
ClientNext  == Connect \/ Greet \/ Upload \/ StreamBreaks \/ Report \/ BackoffEnds
NetworkNext == Deliver \/ ServerGoes \/ ServerReturns
LinkNext    == ServiceNext \/ ClientNext \/ NetworkNext

\* The two tasks run when they can, a broken stream is noticed (by the keep-alive), what
\* is in an open stream arrives, and the server comes back.
LinkFairness ==
  /\ WF_linkVars(ServiceNext) /\ WF_linkVars(ClientNext)
  /\ WF_linkVars(Deliver) /\ WF_linkVars(ServerReturns)
=============================================================================
