---------------------------- MODULE StoreForward ----------------------------
(***************************************************************************)
(* Store and forward: how a reading of a hub gets to the server, at once   *)
(* while the server is connected and through the local database while it   *)
(* is not.  The tasks are MessageService::run (second_layer/message), the  *)
(* middleware of the second layer, DataService::run with its buffer and    *)
(* tables (second_layer/database), and those of GrpcLink.                  *)
(*                                                                         *)
(* As in GrpcLink, an action is a task running from one await that can     *)
(* block to the next: a task keeps in sending, relaying or extracting what *)
(* it still has to send, and receives nothing until that is done.  Readings*)
(* are those of active networks; the other traffic of the edge is          *)
(* represented by the state it reports to the server every 10 seconds.     *)
(***************************************************************************)
EXTENDS GrpcLink

CONSTANTS
  Limit,      \* LIMIT: rows a DELETE ... RETURNING takes from a table
  BatchSize,  \* BATCH_SIZE: length at which a vector of the buffer asks for a flush
  OwnCap,     \* capacity of the channel of MessageHandle
  MiddleCap,  \* capacity of the channels of the middleware (buffer_size)
  DataCap,    \* capacity of the channel of DataHandle
  MaxReports, \* bound: states reported to the server
  MaxTurns    \* bound: times the heartbeat monitor changes its mind

VARIABLES
  own,        \* MessageService: channel of MessageHandle -> rx
  status,     \* MessageService: server_status
  sending,    \* MessageService: what it still has to send
  middle,     \* channel MessageService -> middleware
  relaying,   \* middleware: the message it is sending on (at most one)
  dataRx,     \* channel of DataHandle -> DataService::rx
  buffer,     \* DataService: the vectors of tdv
  table,      \* the tables of the database, as sequences of rows
  connected,  \* DataService: is_server_connected
  extracting, \* DataService: the batch it has popped and not yet sent (at most one)
  batches,    \* channel tx_batch -> middleware
  telling,    \* heartbeat monitor: whom it still has to tell its last status
  received,   \* the readings the hubs have published
  spent       \* how much of MaxReports and MaxTurns is used up

messageVars == << own, status, sending >>
dataVars    == << buffer, table, connected, extracting >>
edgeVars    == << messageVars, middle, relaying, dataRx, dataVars, batches >>
monitorVars == << telling, received, spent >>
vars        == << linkVars, edgeVars, monitorVars >>

Kinds   == {"measurement", "monitor", "alert_th", "alert_air"}
Kind(r) == r[1]
Rows    == [Kinds -> Seq(Readings)]

ASSUME StoreAssumption ==
  /\ Readings \subseteq Kinds \X Nat
  /\ {Limit, BatchSize, OwnCap, MiddleCap, DataCap, MaxReports, MaxTurns, HandleCap,
      OutboundCap, EventsCap, SessionCap, InboxCap, MaxOutages} \subseteq Nat

\* The order in which Repository::insert goes through the vectors.
InsertOrder == << "measurement", "monitor", "alert_th", "alert_air" >>

\* Of the four tables, only monitor is created with the column network_id that the
\* INSERT into each of them names: into the others it fails.
Insertable == {"monitor"}

NoRows == [k \in Kinds |-> << >>]
RowsIn(rows) == UNION { { rows[k][i] : i \in DOMAIN rows[k] } : k \in Kinds }

TypeOK ==
  /\ LinkTypeOK
  /\ own \in Seq(Message) /\ status \in {"ServerConnected", "ServerDisconnected"}
  /\ sending \in Seq(Sending)
  /\ middle \in Seq(Message) /\ batches \in Seq(Message) /\ dataRx \in Seq(Message)
  /\ relaying \in Seq(Sending) /\ Len(relaying) <= 1
  /\ buffer \in Rows /\ table \in Rows /\ connected \in BOOLEAN
  /\ extracting \in Seq(Message) /\ Len(extracting) <= 1
  /\ telling \in Seq(Sending) /\ received \subseteq Readings
  /\ spent \in [reports : 0 .. MaxReports, turns : 0 .. MaxTurns]

Init ==
  /\ LinkInit
  /\ own = << >> /\ status = "ServerConnected" /\ sending = << >>
  /\ middle = << >> /\ relaying = << >> /\ dataRx = << >>
  /\ buffer = NoRows /\ table = NoRows /\ connected = FALSE
  /\ extracting = << >> /\ batches = << >>
  /\ telling = << >> /\ received = {}
  /\ spent = [reports |-> 0, turns |-> 0]
-----------------------------------------------------------------------------
(* MessageService::run *)

\* convert_to_proto_upload: a batch becomes an upload for each kind it has rows of.
UploadOf(rows) == IF rows = {} THEN << >> ELSE << Send("handle", [tag |-> "Batch", of |-> rows]) >>

Uploads(msg) ==
  IF msg.tag = "Batch"
  THEN LET Part(k) == UploadOf({ r \in msg.of : Kind(r) = k })
       IN  Part("measurement") \o Part("monitor") \o Part("alert_air") \o Part("alert_th")
  ELSE << Send("handle", msg) >>

\* A command of its own channel: a status, or something for the server.
TakeCommand ==
  /\ sending = << >> /\ own # << >>
  /\ own' = Tail(own)
  /\ LET msg == Head(own)
     IN  IF msg.tag \in {"ServerConnected", "ServerDisconnected"}
         THEN status' = msg.tag /\ UNCHANGED sending
         ELSE sending' = Uploads(msg) /\ UNCHANGED status
  /\ UNCHANGED << linkVars, middle, relaying, dataRx, dataVars, batches, monitorVars >>

\* handle_mqtt_message: a reading goes back into the own channel, to be uploaded, or to
\* the database.  A status of the link is taken over.
TakeMessage ==
  /\ sending = << >> /\ inbox # << >>
  /\ inbox' = Tail(inbox)
  /\ LET msg == Head(inbox)
     IN  IF msg.tag = "Reading"
         THEN /\ sending' = << Send(IF status = "ServerConnected" THEN "own" ELSE "middleware", msg) >>
              /\ UNCHANGED status
         ELSE status' = msg.tag /\ UNCHANGED sending
  /\ UNCHANGED << serviceVars, outbound, grpcEvents, clientVars, serverVars,
                  own, middle, relaying, dataRx, dataVars, batches, monitorVars >>

MessageSend ==
  /\ sending # << >>
  /\ LET s == Head(sending)
     IN  \/ /\ s.to = "own" /\ Len(own) < OwnCap
            /\ own' = Append(own, s.msg) /\ UNCHANGED << middle, handle >>
         \/ /\ s.to = "middleware" /\ Len(middle) < MiddleCap
            /\ middle' = Append(middle, s.msg) /\ UNCHANGED << own, handle >>
         \/ /\ s.to = "handle" /\ Len(handle) < HandleCap
            /\ handle' = Append(handle, s.msg) /\ UNCHANGED << own, middle >>
  /\ sending' = Tail(sending)
  /\ UNCHANGED << forwarding, outbound, grpcEvents, clientVars, serverVars, inbox,
                  status, relaying, dataRx, dataVars, batches, monitorVars >>
-----------------------------------------------------------------------------
(* The middleware of the second layer *)

\* Mutant: it receives while it still has a message to send.
RelayReading_Greedy ==
  /\ middle # << >>
  /\ relaying' = Append(relaying, Send("data", Head(middle)))
  /\ middle' = Tail(middle)
  /\ UNCHANGED << linkVars, messageVars, dataRx, dataVars, batches, monitorVars >>

RelayReading ==
  /\ relaying = << >> /\ middle # << >>
  /\ relaying' = << Send("data", Head(middle)) >>
  /\ middle' = Tail(middle)
  /\ UNCHANGED << linkVars, messageVars, dataRx, dataVars, batches, monitorVars >>

RelayBatch ==
  /\ relaying = << >> /\ batches # << >>
  /\ relaying' = << Send("own", Head(batches)) >>
  /\ batches' = Tail(batches)
  /\ UNCHANGED << linkVars, messageVars, middle, dataRx, dataVars, monitorVars >>

RelaySend ==
  /\ relaying # << >>
  /\ LET s == Head(relaying)
     IN  \/ /\ s.to = "data" /\ Len(dataRx) < DataCap
            /\ dataRx' = Append(dataRx, s.msg) /\ UNCHANGED own
         \/ /\ s.to = "own" /\ Len(own) < OwnCap
            /\ own' = Append(own, s.msg) /\ UNCHANGED dataRx
  /\ relaying' = << >>
  /\ UNCHANGED << linkVars, status, sending, middle, dataVars, batches, monitorVars >>
-----------------------------------------------------------------------------
(* DataService::run *)

\* Repository::insert: the vectors in order, each in one INSERT, up to the first that fails.
Inserted(rows) ==
  LET Fails(i) == rows[InsertOrder[i]] # << >> /\ InsertOrder[i] \notin Insertable
      done     == { InsertOrder[i] : i \in { j \in 1 .. 4 : \A n \in 1 .. j : ~Fails(n) } }
  IN  [k \in Kinds |-> IF k \in done THEN table[k] \o rows[k] ELSE table[k]]

\* flush_to_db: the result of the insertion is ignored, and the vectors cleared.
FlushToDb(rows) == table' = Inserted(rows) /\ buffer' = NoRows

\* sort_by_vectors, and a flush if that filled a vector.
TakeReading ==
  /\ extracting = << >> /\ dataRx # << >> /\ Head(dataRx).tag = "Reading"
  /\ dataRx' = Tail(dataRx)
  /\ LET r    == CHOOSE x \in Head(dataRx).of : TRUE
         rows == [buffer EXCEPT ![Kind(r)] = Append(@, r)]
     IN  IF \E k \in Kinds : Len(rows[k]) = BatchSize
         THEN FlushToDb(rows)
         ELSE buffer' = rows /\ UNCHANGED table
  /\ UNCHANGED << linkVars, messageVars, middle, relaying, connected, extracting, batches,
                  monitorVars >>

TakeStatus ==
  /\ extracting = << >> /\ dataRx # << >> /\ Head(dataRx).tag # "Reading"
  /\ dataRx' = Tail(dataRx)
  /\ connected' = (Head(dataRx).tag = "ServerConnected")
  /\ UNCHANGED << linkVars, messageVars, middle, relaying, buffer, table, extracting, batches,
                  monitorVars >>

\* Mutant: the timer writes full vectors only.
FlushTick_FullOnly ==
  /\ extracting = << >> /\ \E k \in Kinds : Len(buffer[k]) = BatchSize
  /\ FlushToDb(buffer)
  /\ UNCHANGED << linkVars, messageVars, middle, relaying, dataRx, connected, extracting,
                  batches, monitorVars >>

FlushTick ==
  /\ extracting = << >> /\ buffer # NoRows
  /\ FlushToDb(buffer)
  /\ UNCHANGED << linkVars, messageVars, middle, relaying, dataRx, connected, extracting,
                  batches, monitorVars >>

\* Mutant: the rows are selected and not deleted.
PopBatch_Kept ==
  LET Upto(q) == IF Len(q) < Limit THEN Len(q) ELSE Limit
      popped  == [k \in Kinds |-> SubSeq(table[k], 1, Upto(table[k]))]
  IN  /\ table' = table
      /\ extracting' = IF popped = NoRows THEN << >>
                       ELSE << [tag |-> "Batch", of |-> RowsIn(popped)] >>

\* pop_batch: the oldest rows of every table are deleted and returned; the loop of
\* extract_and_send_batches ends when there were none.
PopBatch ==
  LET Upto(q) == IF Len(q) < Limit THEN Len(q) ELSE Limit
      popped  == [k \in Kinds |-> SubSeq(table[k], 1, Upto(table[k]))]
  IN  /\ table' = [k \in Kinds |-> SubSeq(table[k], Upto(table[k]) + 1, Len(table[k]))]
      /\ extracting' = IF popped = NoRows THEN << >>
                       ELSE << [tag |-> "Batch", of |-> RowsIn(popped)] >>

ExtractTick ==
  /\ extracting = << >> /\ connected /\ table # NoRows
  /\ PopBatch
  /\ UNCHANGED << linkVars, messageVars, middle, relaying, dataRx, buffer, connected, batches,
                  monitorVars >>

\* The batch is sent when there is room for it, and the next one popped, whatever the
\* status has become meanwhile.
SendBatch ==
  /\ extracting # << >> /\ Len(batches) < MiddleCap
  /\ batches' = Append(batches, Head(extracting))
  /\ PopBatch
  /\ UNCHANGED << linkVars, messageVars, middle, relaying, dataRx, buffer, connected, monitorVars >>
-----------------------------------------------------------------------------
(* What feeds the services: the hubs, edge_state and the heartbeat monitor *)

\* Readings of a kind are numbered as they are published.
HubPublishes ==
  /\ Len(inbox) < InboxCap
  /\ \E r \in Readings \ received :
       /\ \A x \in Readings \ received : Kind(x) = Kind(r) => r[2] <= x[2]
       /\ received' = received \cup {r}
       /\ inbox' = Append(inbox, [tag |-> "Reading", of |-> {r}])
  /\ UNCHANGED << serviceVars, outbound, grpcEvents, clientVars, serverVars, edgeVars, telling, spent >>

EdgeStateTick ==
  /\ spent.reports < MaxReports /\ Len(own) < OwnCap
  /\ spent' = [spent EXCEPT !.reports = @ + 1]
  /\ own' = Append(own, Plain("EdgeState"))
  /\ UNCHANGED << linkVars, status, sending, middle, relaying, dataRx, dataVars, batches,
                  telling, received >>

\* The monitor (HeartbeatService) declares the server dead, or alive when it hears it:
\* first to the data service, whose answer it waits for, then to the message service.
MonitorTurns ==
  /\ telling = << >> /\ spent.turns < MaxTurns
  /\ spent' = [spent EXCEPT !.turns = @ + 1]
  /\ LET event == IF spent.turns % 2 = 0 THEN "ServerConnected" ELSE "ServerDisconnected"
     IN  /\ event = "ServerConnected" => client = "Work" /\ stream = "open"
         /\ telling' = << Send("data", Plain(event)), Send("own", Plain(event)) >>
  /\ UNCHANGED << linkVars, edgeVars, received >>

MonitorTells ==
  /\ telling # << >>
  /\ LET s == Head(telling)
     IN  \/ /\ s.to = "data" /\ Len(dataRx) < DataCap
            /\ dataRx' = Append(dataRx, s.msg) /\ UNCHANGED own
         \/ /\ s.to = "own" /\ Len(own) < OwnCap
            /\ \A i \in DOMAIN dataRx : dataRx[i].tag = "Reading"
            /\ own' = Append(own, s.msg) /\ UNCHANGED dataRx
  /\ telling' = Tail(telling)
  /\ UNCHANGED << linkVars, status, sending, middle, relaying, dataVars, batches, received, spent >>
-----------------------------------------------------------------------------
MessageNext == TakeCommand \/ TakeMessage \/ MessageSend
MiddleNext  == RelayReading \/ RelayBatch \/ RelaySend
DataNext    == TakeReading \/ TakeStatus \/ FlushTick \/ ExtractTick \/ SendBatch
SourceNext  == HubPublishes \/ EdgeStateTick \/ MonitorTurns \/ MonitorTells
EdgeNext    == MessageNext \/ MiddleNext \/ DataNext \/ SourceNext

Next == (LinkNext /\ UNCHANGED << edgeVars, monitorVars >>) \/ EdgeNext

Spec == Init /\ [][Next]_vars

\* Every task runs when it can and its tickers tick; the monitor hears a server that can
\* be heard.  No choice of a select! need be fair: what each branch receives runs out.
Fairness ==
  /\ LinkFairness
  /\ WF_vars(MessageNext) /\ WF_vars(MiddleNext) /\ WF_vars(DataNext)
  /\ WF_vars(MonitorTurns) /\ WF_vars(MonitorTells)

FairSpec == Spec /\ Fairness
-----------------------------------------------------------------------------
(* Properties *)

Held(q, r)  == Cardinality({ i \in DOMAIN q : r \in q[i].of })
InHand(q, r) == Cardinality({ i \in DOMAIN q : r \in q[i].msg.of })
InRows(rows, r) == Cardinality({ i \in DOMAIN rows[Kind(r)] : rows[Kind(r)][i] = r })

\* How often a reading is somewhere on its way, or at the server.
Copies(r) ==
    Held(inbox, r) + Held(own, r) + Held(middle, r) + Held(dataRx, r) + Held(extracting, r)
  + Held(batches, r) + Held(handle, r) + Held(outbound, r) + Held(session, r)
  + InHand(sending, r) + InHand(relaying, r) + InHand(forwarding, r)
  + InRows(buffer, r) + InRows(table, r) + delivered[r]

\* "Guarantees data delivery" (README): a reading the edge has taken is in exactly one
\* place, on its way or at the server, neither dropped nor sent twice, unless the stream
\* broke while the reading was in its session.
Conserved == \A r \in received : Copies(r) = IF r \in lost THEN 0 ELSE 1

\* Every reading taken gets to the server, or is lost with the stream that carried it.
EventuallyDelivered ==
  \A r \in Readings : r \in received ~> delivered[r] > 0 \/ r \in lost

\* Once the server can be reached and stays so, the client gets back to work on an open
\* stream, and stays there.
Reconnects == <>[](server = "up") => <>[](client = "Work" /\ stream = "open")
=============================================================================
