------------------------- MODULE StoreForward_proofs -------------------------
(***************************************************************************)
(* Theorems about store and forward: what is in the channels, and that a   *)
(* reading is in one of them, in the vectors, in the database or at the    *)
(* server, and there once, unless the stream that carried it broke.        *)
(***************************************************************************)
EXTENDS StoreForward, SequenceLemmas, FiniteSetTheorems, FunctionTheorems

-----------------------------------------------------------------------------
(* Counting in a list *)

\* The places of a list that hold something in W.
Places(q, W) == { i \in DOMAIN q : q[i] \in W }
Count(q, W)  == Cardinality(Places(q, W))

\* One thing, counted.
One(x, W) == IF x \in W THEN 1 ELSE 0

LEMMA PlacesFinite ==
  ASSUME NEW S, NEW q \in Seq(S), NEW W
  PROVE  /\ IsFiniteSet(Places(q, W)) /\ Count(q, W) \in Nat
         /\ Places(q, W) \subseteq 1 .. Len(q)
         /\ Count(q, W) = 0 <=> \A i \in DOMAIN q : q[i] \notin W
<1>1. Len(q) \in Nat /\ DOMAIN q = 1 .. Len(q)
  BY EmptyLength
<1>2. Places(q, W) \in SUBSET (1 .. Len(q))
  BY <1>1 DEF Places
<1>3. IsFiniteSet(1 .. Len(q))
  BY <1>1, FS_Interval
<1>4. IsFiniteSet(Places(q, W))
  BY <1>2, <1>3, FS_Subset
<1>5. Count(q, W) \in Nat
  BY <1>4, FS_CardinalityType DEF Count
<1>6. Count(q, W) = 0 <=> Places(q, W) = {}
  BY <1>4, FS_EmptySet DEF Count
<1>7. Places(q, W) = {} <=> \A i \in DOMAIN q : q[i] \notin W
  BY DEF Places
<1> QED BY <1>2, <1>4, <1>5, <1>6, <1>7

\* Nothing is in the empty list.
LEMMA CountEmpty ==
  ASSUME NEW W
  PROVE  Count(<< >>, W) = 0
<1>1. Places(<< >>, W) = {}
  BY DEF Places
<1> QED BY <1>1, FS_EmptySet DEF Count

\* A send adds what it sends.
LEMMA CountAppend ==
  ASSUME NEW S, NEW q \in Seq(S), NEW x \in S, NEW W
  PROVE  Count(Append(q, x), W) = Count(q, W) + One(x, W)
<1>1. PICK n \in Nat : n = Len(q) /\ DOMAIN q = 1 .. n
  BY EmptyLength
<1>2. PICK r : r = Append(q, x)
  OBVIOUS
<1>3. DOMAIN r = 1 .. n + 1 /\ r[n + 1] = x /\ \A i \in 1 .. n : r[i] = q[i]
  BY <1>1, <1>2
<1>4. IsFiniteSet(Places(q, W)) /\ Count(q, W) \in Nat /\ n + 1 \notin Places(q, W)
  BY <1>1, PlacesFinite
<1>5. CASE x \in W
  <2>1. Places(r, W) = Places(q, W) \cup {n + 1}
    BY <1>1, <1>3, <1>5 DEF Places
  <2>2. Count(r, W) = Count(q, W) + 1
    BY <1>4, <2>1, FS_AddElement DEF Count
  <2> QED BY <1>2, <1>5, <2>2 DEF One
<1>6. CASE x \notin W
  <2>1. Places(r, W) = Places(q, W)
    BY <1>1, <1>3, <1>6 DEF Places
  <2> QED BY <1>2, <1>4, <1>6, <2>1 DEF One, Count
<1> QED BY <1>5, <1>6

\* A list with something in it.
LEMMA CountSingle ==
  ASSUME NEW x, NEW W
  PROVE  Count(<< x >>, W) = One(x, W)
<1>1. << >> \in Seq({x}) /\ Append(<< >>, x) = << x >>
  BY AppendIsList
<1>2. Count(Append(<< >>, x), W) = Count(<< >>, W) + One(x, W)
  BY <1>1, CountAppend
<1>3. Count(<< >>, W) = 0
  BY CountEmpty
<1> QED BY <1>1, <1>2, <1>3 DEF One

\* Two lists joined.
LEMMA CountConcat ==
  ASSUME NEW S, NEW p \in Seq(S), NEW q \in Seq(S), NEW W
  PROVE  Count(p \o q, W) = Count(p, W) + Count(q, W)
<1>1. PICK m \in Nat, n \in Nat : m = Len(p) /\ n = Len(q) /\ DOMAIN p = 1 .. m /\ DOMAIN q = 1 .. n
  BY EmptyLength
<1>2. PICK r : r = p \o q
  OBVIOUS
<1>3. /\ DOMAIN r = 1 .. m + n
      /\ \A i \in 1 .. m + n : r[i] = IF i <= m THEN p[i] ELSE q[i - m]
  <2>1. /\ r \in Seq(S) /\ Len(r) = m + n
        /\ \A i \in 1 .. m + n : r[i] = IF i <= m THEN p[i] ELSE q[i - m]
    BY <1>1, <1>2, ConcatProperties
  <2> QED BY <2>1, EmptyLength
<1> DEFINE A == Places(q, W)
           B == { i \in (m + 1) .. (m + n) : r[i] \in W }
           f == [i \in A |-> i + m]
<1>4. /\ IsFiniteSet(A) /\ IsFiniteSet(Places(p, W)) /\ A \subseteq 1 .. n /\ Places(p, W) \subseteq 1 .. m
      /\ Count(p, W) \in Nat /\ Count(q, W) \in Nat
  BY <1>1, PlacesFinite
<1>5. f \in Bijection(A, B)
  <2>1. \A i \in A : i \in 1 .. n /\ i + m \in (m + 1) .. (m + n) /\ r[i + m] = q[i] /\ q[i] \in W
    BY <1>1, <1>3, <1>4, SMTT(40) DEF Places
  <2>2. f \in [A -> B]
    BY <2>1
  <2>3. \A i, j \in A : f[i] = f[j] => i = j
    BY <1>4
  <2>4. \A k \in B : \E i \in A : f[i] = k
    <3>1. ASSUME NEW k \in B PROVE k - m \in A /\ f[k - m] = k
      BY <1>1, <1>3 DEF Places
    <3> QED BY <3>1
  <2> QED BY <2>2, <2>3, <2>4, Fun_IsBij
<1>6. IsFiniteSet(B) /\ Cardinality(B) = Cardinality(A)
  BY <1>4, <1>5, FS_Bijection DEF ExistsBijection
<1>7. Places(r, W) = Places(p, W) \cup B /\ Places(p, W) \cap B = {}
  <2>1. \A i \in 1 .. m : i \in 1 .. m + n /\ i <= m /\ i \notin (m + 1) .. (m + n)
    BY <1>1
  <2>2. \A i \in 1 .. m + n : i \in 1 .. m \/ i \in (m + 1) .. (m + n)
    BY <1>1
  <2>3. \A i \in (m + 1) .. (m + n) : i \in 1 .. m + n
    BY <1>1
  <2> QED BY <1>1, <1>3, <2>1, <2>2, <2>3 DEF Places
<1>8. Cardinality(Places(r, W)) = Cardinality(Places(p, W)) + Cardinality(B)
  <2>1. Cardinality(Places(p, W) \cup B) = Cardinality(Places(p, W)) + Cardinality(B) - Cardinality({})
    BY <1>4, <1>6, <1>7, FS_Union
  <2>2. Cardinality({}) = 0 /\ Cardinality(B) \in Nat /\ Cardinality(Places(p, W)) \in Nat
    BY <1>4, <1>6, FS_EmptySet, FS_CardinalityType
  <2> QED BY <1>7, <2>1, <2>2
<1> QED BY <1>2, <1>6, <1>8 DEF Count

\* A receive takes what it receives.
LEMMA CountTail ==
  ASSUME NEW S, NEW q \in Seq(S), q # << >>, NEW W
  PROVE  Count(q, W) = One(Head(q), W) + Count(Tail(q), W)
<1>1. PICK h, t : h = Head(q) /\ t = Tail(q)
  OBVIOUS
<1>2. h \in S /\ t \in Seq(S) /\ << h >> \in Seq(S)
  BY <1>1, TailElements
<1>3. q = << h >> \o t
  <2> DEFINE r == << h >> \o t
  <2>1. /\ r \in Seq(S) /\ Len(r) = Len(t) + 1 /\ r[1] = h
        /\ \A i \in DOMAIN t : i + 1 \in DOMAIN r /\ r[i + 1] = t[i]
    BY <1>2, ConsElements
  <2>2. /\ Len(t) = Len(q) - 1 /\ Len(q) \in Nat \ {0} /\ q[1] = h
        /\ \A i \in DOMAIN q : i = 1 \/ (i - 1 \in DOMAIN t /\ q[i] = t[i - 1])
    BY <1>1, TailElements
  <2>3. DOMAIN q = 1 .. Len(q)
    BY EmptyLength
  <2> HIDE DEF r
  <2>4. \A i \in 1 .. Len(q) : q[i] = r[i]
    <3>1. ASSUME NEW i \in 1 .. Len(q) PROVE q[i] = r[i]
      <4>1. CASE i = 1
        BY <2>1, <2>2, <4>1
      <4>2. CASE i # 1
        <5>1. i - 1 \in DOMAIN t /\ q[i] = t[i - 1]
          BY <2>2, <2>3, <4>2
        <5>2. r[(i - 1) + 1] = t[i - 1]
          BY <2>1, <5>1
        <5>3. (i - 1) + 1 = i
          BY <2>2
        <5> QED BY <5>1, <5>2, <5>3
      <4> QED BY <4>1, <4>2
    <3> QED BY <3>1
  <2>5. Len(r) = Len(q)
    BY <2>1, <2>2
  <2>6. q = r
    BY <2>1, <2>4, <2>5, SeqEqual
  <2> QED BY <2>6 DEF r
<1>4. Count(<< h >> \o t, W) = Count(<< h >>, W) + Count(t, W)
  BY <1>2, CountConcat
<1>5. Count(<< h >>, W) = One(h, W)
  BY CountSingle
<1>6. Count(q, W) = Count(<< h >>, W) + Count(t, W)
  BY <1>3, <1>4, Zenon
<1> QED BY <1>1, <1>5, <1>6, Zenon

\* A list cut in two.
LEMMA CountCut ==
  ASSUME NEW S, NEW q \in Seq(S), NEW n \in 0 .. Len(q), NEW W
  PROVE  /\ SubSeq(q, 1, n) \in Seq(S) /\ SubSeq(q, n + 1, Len(q)) \in Seq(S)
         /\ Count(q, W) = Count(SubSeq(q, 1, n), W) + Count(SubSeq(q, n + 1, Len(q)), W)
<1>1. Len(q) \in Nat /\ DOMAIN q = 1 .. Len(q)
  BY EmptyLength
<1>2. SubSeq(q, 1, n) \in Seq(S) /\ SubSeq(q, n + 1, Len(q)) \in Seq(S)
  <2>1. \A i \in 1 .. n : q[i] \in S
    BY <1>1, ElementOfSeq
  <2>2. \A i \in (n + 1) .. Len(q) : q[i] \in S
    BY <1>1, ElementOfSeq
  <2> QED BY <1>1, <2>1, <2>2, SubSeqProperties
<1>3. SubSeq(q, 1, n) \o SubSeq(q, n + 1, Len(q)) = q
  <2>1. 1 \in 1 .. Len(q) + 1 /\ n \in (1 - 1) .. Len(q) /\ Len(q) \in n .. Len(q)
    BY <1>1
  <2>2. SubSeq(q, 1, n) \o SubSeq(q, n + 1, Len(q)) = SubSeq(q, 1, Len(q))
    BY <2>1, ConcatAdjacentSubSeq
  <2>3. SubSeq(q, 1, Len(q)) = q
    BY SubSeqFull
  <2> QED BY <2>2, <2>3
<1>4. Count(SubSeq(q, 1, n) \o SubSeq(q, n + 1, Len(q)), W) = Count(SubSeq(q, 1, n), W) + Count(SubSeq(q, n + 1, Len(q)), W)
  BY <1>2, CountConcat
<1> QED BY <1>2, <1>3, <1>4, Zenon
-----------------------------------------------------------------------------
(* What is in the channels *)

\* The messages, by what they are; the readings of a kind.
ReadingMsg == { [tag |-> "Reading", of |-> {r}] : r \in Readings }
StatusMsg  == { Plain(t) : t \in {"ServerConnected", "ServerDisconnected"} }
BatchMsg   == [tag : {"Batch"}, of : SUBSET Readings]
ReportMsg  == {Plain("EdgeState")}
OfKind(k)  == { r \in Readings : Kind(r) = k }

\* Who receives what.
HeardMsg   == ReadingMsg \cup StatusMsg
OwnMsg     == ReadingMsg \cup StatusMsg \cup BatchMsg \cup ReportMsg
ForwardMsg == [to : {"outbound"}, msg : Message] \cup [to : {"inbox"}, msg : StatusMsg]
SendingMsg == [to : {"own", "middleware"}, msg : ReadingMsg] \cup [to : {"handle"}, msg : Message]
RelayMsg   == [to : {"data"}, msg : ReadingMsg] \cup [to : {"own"}, msg : BatchMsg]
TellMsg    == [to : {"data", "own"}, msg : StatusMsg]

KindRows(rows) == rows \in Rows /\ \A k \in Kinds : rows[k] \in Seq(OfKind(k))

LinkChannels ==
  /\ handle \in Seq(Message) /\ outbound \in Seq(Message) /\ session \in Seq(Message)
  /\ grpcEvents \in Seq(StatusMsg) /\ inbox \in Seq(HeardMsg)
  /\ forwarding \in Seq(ForwardMsg) /\ Len(forwarding) <= 1
EdgeChannels ==
  /\ own \in Seq(OwnMsg) /\ sending \in Seq(SendingMsg)
  /\ middle \in Seq(ReadingMsg) /\ batches \in Seq(BatchMsg) /\ dataRx \in Seq(HeardMsg)
  /\ relaying \in Seq(RelayMsg) /\ Len(relaying) <= 1
  /\ extracting \in Seq(BatchMsg) /\ Len(extracting) <= 1
  /\ telling \in Seq(TellMsg)
LinkState ==
  /\ client \in StateClient /\ stream \in {"none", "open", "broken"} /\ server \in {"up", "down"}
  /\ delivered \in [Readings -> Nat] /\ lost \in SUBSET Readings /\ outages \in 0 .. MaxOutages
  /\ client # "Work" => session = << >>
EdgeState ==
  /\ status \in {"ServerConnected", "ServerDisconnected"} /\ connected \in BOOLEAN
  /\ KindRows(buffer) /\ KindRows(table)
  /\ received \in SUBSET Readings
  /\ spent \in [reports : 0 .. MaxReports, turns : 0 .. MaxTurns]

\* Every channel carries the messages its receiver expects, a session that is not in work is
\* empty, and the rows of a kind are readings of that kind.
ChannelsInv == LinkChannels /\ EdgeChannels /\ LinkState /\ EdgeState

\* What each message is, and carries.
LEMMA MessagesAre ==
  /\ ReadingMsg \subseteq Message /\ StatusMsg \subseteq Message /\ BatchMsg \subseteq Message /\ ReportMsg \subseteq Message
  /\ \A m \in ReadingMsg : m.tag = "Reading" /\ \E r \in Readings : m.of = {r}
  /\ \A r \in Readings : [tag |-> "Reading", of |-> {r}] \in ReadingMsg
  /\ \A m \in StatusMsg : m.tag \in {"ServerConnected", "ServerDisconnected"} /\ m.of = {}
  /\ Plain("ServerConnected") \in StatusMsg /\ Plain("ServerDisconnected") \in StatusMsg /\ Plain("EdgeState") \in ReportMsg
  /\ \A m \in BatchMsg : m.tag = "Batch" /\ m.of \in SUBSET Readings
  /\ \A R \in SUBSET Readings : [tag |-> "Batch", of |-> R] \in BatchMsg /\ [tag |-> "Batch", of |-> R].of = R
  /\ \A m \in ReportMsg : m.tag = "EdgeState" /\ m.of = {}
  /\ \A m \in Message : m.of \in SUBSET Readings
BY DEF ReadingMsg, StatusMsg, BatchMsg, ReportMsg, Message, Tag, Plain

LEMMA GroupsAre ==
  /\ HeardMsg \subseteq Message /\ OwnMsg \subseteq Message
  /\ ReadingMsg \subseteq HeardMsg /\ StatusMsg \subseteq HeardMsg
  /\ ReadingMsg \subseteq OwnMsg /\ StatusMsg \subseteq OwnMsg /\ BatchMsg \subseteq OwnMsg /\ ReportMsg \subseteq OwnMsg
  /\ \A m \in HeardMsg : (m.tag = "Reading" => m \in ReadingMsg) /\ (m.tag # "Reading" => m \in StatusMsg)
  /\ \A m \in OwnMsg : m.tag \in {"ServerConnected", "ServerDisconnected"} => m \in StatusMsg
BY MessagesAre DEF HeardMsg, OwnMsg

\* Where each of the messages left to send may go.
LEMMA SendsAre ==
  /\ \A m \in Message : Send("outbound", m) \in ForwardMsg /\ Send("handle", m) \in SendingMsg
  /\ \A m \in StatusMsg : Send("inbox", m) \in ForwardMsg /\ Send("data", m) \in TellMsg /\ Send("own", m) \in TellMsg
  /\ \A m \in ReadingMsg : Send("own", m) \in SendingMsg /\ Send("middleware", m) \in SendingMsg /\ Send("data", m) \in RelayMsg
  /\ \A m \in BatchMsg : Send("own", m) \in RelayMsg
  /\ \A to, m : Send(to, m).to = to /\ Send(to, m).msg = m
  /\ \A s \in ForwardMsg : (s.to = "outbound" => s.msg \in Message) /\ (s.to = "inbox" => s.msg \in StatusMsg)
  /\ \A s \in SendingMsg : /\ s.to \in {"own", "middleware"} => s.msg \in ReadingMsg
                           /\ s.to = "handle" => s.msg \in Message
  /\ \A s \in RelayMsg : (s.to = "data" => s.msg \in ReadingMsg) /\ (s.to = "own" => s.msg \in BatchMsg)
  /\ \A s \in TellMsg : s.msg \in StatusMsg
  /\ ForwardMsg \subseteq Sending /\ SendingMsg \subseteq Sending /\ RelayMsg \subseteq Sending /\ TellMsg \subseteq Sending
<1>1. /\ \A m \in Message : Send("outbound", m) \in ForwardMsg /\ Send("handle", m) \in SendingMsg
      /\ \A m \in StatusMsg : Send("inbox", m) \in ForwardMsg /\ Send("data", m) \in TellMsg /\ Send("own", m) \in TellMsg
      /\ \A m \in ReadingMsg : Send("own", m) \in SendingMsg /\ Send("middleware", m) \in SendingMsg /\ Send("data", m) \in RelayMsg
      /\ \A m \in BatchMsg : Send("own", m) \in RelayMsg
      /\ \A to, m : Send(to, m).to = to /\ Send(to, m).msg = m
  BY DEF Send, ForwardMsg, SendingMsg, RelayMsg, TellMsg
<1>2. /\ \A s \in ForwardMsg : (s.to = "outbound" => s.msg \in Message) /\ (s.to = "inbox" => s.msg \in StatusMsg)
      /\ \A s \in RelayMsg : (s.to = "data" => s.msg \in ReadingMsg) /\ (s.to = "own" => s.msg \in BatchMsg)
      /\ \A s \in TellMsg : s.msg \in StatusMsg
      /\ \A s \in SendingMsg : /\ s.to \in {"own", "middleware"} => s.msg \in ReadingMsg
                               /\ s.to = "handle" => s.msg \in Message
  BY DEF ForwardMsg, SendingMsg, RelayMsg, TellMsg
<1>3. ForwardMsg \subseteq Sending /\ SendingMsg \subseteq Sending /\ RelayMsg \subseteq Sending /\ TellMsg \subseteq Sending
  BY MessagesAre DEF ForwardMsg, SendingMsg, RelayMsg, TellMsg, Sending
<1> QED BY <1>1, <1>2, <1>3

\* Sends and receives keep a channel in its type.
LEMMA ChannelMoves ==
  ASSUME NEW S, NEW q \in Seq(S)
  PROVE  /\ \A x \in S : Append(q, x) \in Seq(S) /\ << x >> \in Seq(S) /\ Len(<< x >>) <= 1
         /\ q # << >> => Head(q) \in S /\ Tail(q) \in Seq(S)
         /\ << >> \in Seq(S) /\ Len(<< >>) <= 1
<1>1. \A x \in S : Append(q, x) \in Seq(S) /\ << x >> \in Seq(S)
  OBVIOUS
<1>2. \A x \in S : Len(<< x >>) <= 1
  OBVIOUS
<1>3. q # << >> => Head(q) \in S /\ Tail(q) \in Seq(S)
  BY HeadTailProperties
<1>4. << >> \in Seq(S) /\ Len(<< >>) <= 1
  OBVIOUS
<1> QED BY <1>1, <1>2, <1>3, <1>4

\* The uploads of a batch: readings of a kind each.
LEMMA UploadsAre ==
  ASSUME NEW msg \in Message
  PROVE  Uploads(msg) \in Seq(SendingMsg)
<1> DEFINE P(k) == { r \in msg.of : Kind(r) = k }
<1>1. msg.of \in SUBSET Readings
  BY MessagesAre
<1>2. ASSUME NEW R \in SUBSET Readings PROVE UploadOf(R) \in Seq(SendingMsg)
  <2>1. Send("handle", [tag |-> "Batch", of |-> R]) \in SendingMsg
    BY MessagesAre, SendsAre
  <2>2. PICK x \in SendingMsg : x = Send("handle", [tag |-> "Batch", of |-> R])
    BY <2>1
  <2>3. << x >> \in Seq(SendingMsg) /\ << >> \in Seq(SendingMsg)
    OBVIOUS
  <2> QED BY <2>2, <2>3, Zenon DEF UploadOf
<1>3. \A k : P(k) \in SUBSET Readings
  BY <1>1
<1>4. \A k : UploadOf(P(k)) \in Seq(SendingMsg)
  BY <1>2, <1>3
<1>5. CASE msg.tag = "Batch"
  <2>1. PICK a \in Seq(SendingMsg), b \in Seq(SendingMsg), c \in Seq(SendingMsg), d \in Seq(SendingMsg) :
          a = UploadOf(P("measurement")) /\ b = UploadOf(P("monitor")) /\ c = UploadOf(P("alert_air")) /\ d = UploadOf(P("alert_th"))
    BY <1>4
  <2>2. a \o b \o c \o d \in Seq(SendingMsg)
    BY ConcatProperties
  <2>3. Uploads(msg) = a \o b \o c \o d
    BY <1>5, <2>1, Zenon DEF Uploads
  <2> QED BY <2>2, <2>3
<1>6. CASE msg.tag # "Batch"
  <2>1. PICK x \in SendingMsg : x = Send("handle", msg)
    BY SendsAre
  <2>2. << x >> \in Seq(SendingMsg)
    OBVIOUS
  <2>3. Uploads(msg) = << x >>
    BY <1>6, <2>1, Zenon DEF Uploads
  <2> QED BY <2>2, <2>3
<1> QED BY <1>5, <1>6
-----------------------------------------------------------------------------
(* The vectors and the tables *)

\* A function of the kinds to rows of that kind.
LEMMA KindRowsAre ==
  ASSUME NEW rows, rows = [k \in Kinds |-> rows[k]], \A k \in Kinds : rows[k] \in Seq(OfKind(k))
  PROVE  KindRows(rows)
<1>1. \A k \in Kinds : OfKind(k) \subseteq Readings
  BY DEF OfKind
<1>2. \A k \in Kinds : rows[k] \in Seq(Readings)
  BY <1>1, SeqMonotonic
<1>3. rows \in [Kinds -> Seq(Readings)]
  BY <1>2
<1> QED BY <1>3 DEF KindRows, Rows

\* Nothing of any kind.
LEMMA NoRowsAre ==
  KindRows(NoRows)
<1>1. \A k \in Kinds : NoRows[k] = << >> /\ << >> \in Seq(OfKind(k))
  BY DEF NoRows
<1>2. NoRows = [k \in Kinds |-> NoRows[k]]
  BY <1>1 DEF NoRows
<1> QED BY <1>1, <1>2, KindRowsAre

\* A flush puts rows of a kind behind rows of that kind.
LEMMA InsertedAre ==
  ASSUME KindRows(table), NEW rows, KindRows(rows)
  PROVE  KindRows(Inserted(rows))
<1> DEFINE Fails(i) == rows[InsertOrder[i]] # << >> /\ InsertOrder[i] \notin Insertable
           done == { InsertOrder[i] : i \in { j \in 1 .. 4 : \A n \in 1 .. j : ~Fails(n) } }
<1>1. PICK d : d = done
  OBVIOUS
<1>2. PICK t : t = Inserted(rows)
  OBVIOUS
<1>3. t = [k \in Kinds |-> IF k \in d THEN table[k] \o rows[k] ELSE table[k]]
  BY <1>1, <1>2, Zenon DEF Inserted
<1>4. ASSUME NEW k \in Kinds PROVE t[k] \in Seq(OfKind(k))
  <2>1. table[k] \in Seq(OfKind(k)) /\ rows[k] \in Seq(OfKind(k))
    BY DEF KindRows
  <2>2. table[k] \o rows[k] \in Seq(OfKind(k))
    BY <2>1, ConcatProperties
  <2>3. t[k] = IF k \in d THEN table[k] \o rows[k] ELSE table[k]
    BY <1>3
  <2> QED BY <2>1, <2>2, <2>3, Zenon
<1>5. t = [k \in Kinds |-> t[k]]
  <2>1. \A k \in Kinds : t[k] = IF k \in d THEN table[k] \o rows[k] ELSE table[k]
    BY <1>3
  <2> QED BY <1>3, <2>1
<1>6. KindRows(t)
  BY <1>4, <1>5, KindRowsAre
<1> QED BY <1>2, <1>6

\* When every reading is of a kind that can be inserted, a flush loses none.
LEMMA InsertedAll ==
  ASSUME KindRows(table), NEW rows, KindRows(rows), \A r \in Readings : Kind(r) \in Insertable,
         NEW r \in Readings, Kind(r) \in Kinds
  PROVE  Inserted(rows)[Kind(r)] = table[Kind(r)] \o rows[Kind(r)]
<1> DEFINE Fails(i) == rows[InsertOrder[i]] # << >> /\ InsertOrder[i] \notin Insertable
           done == { InsertOrder[i] : i \in { j \in 1 .. 4 : \A n \in 1 .. j : ~Fails(n) } }
<1>1. /\ InsertOrder[1] = "measurement" /\ InsertOrder[2] = "monitor"
      /\ InsertOrder[3] = "alert_th" /\ InsertOrder[4] = "alert_air"
  BY DEF InsertOrder
<1>2. Kind(r) = "monitor"
  BY DEF Insertable
<1>3. ~Fails(1)
  <2>1. OfKind("measurement") = {}
    BY DEF OfKind, Insertable
  <2>2. rows["measurement"] \in Seq(OfKind("measurement")) /\ "measurement" \in Kinds
    BY DEF KindRows, Kinds
  <2>3. PICK q : q = rows["measurement"]
    OBVIOUS
  <2>4. q \in Seq({})
    BY <2>1, <2>2, <2>3
  <2>5. q = << >>
    BY <2>4, EmptyLength, ElementOfSeq
  <2> QED BY <1>1, <2>3, <2>5
<1>4. ~Fails(2)
  BY <1>1 DEF Insertable
<1>5. "monitor" \in done
  <2>1. \A n \in 1 .. 2 : n = 1 \/ n = 2
    OBVIOUS
  <2>2. 2 \in { j \in 1 .. 4 : \A n \in 1 .. j : ~Fails(n) }
    BY <1>3, <1>4, <2>1
  <2> QED BY <1>1, <2>2
<1>6. PICK d : d = done
  OBVIOUS
<1>7. PICK t : t = Inserted(rows)
  OBVIOUS
<1>8. t = [k \in Kinds |-> IF k \in d THEN table[k] \o rows[k] ELSE table[k]]
  BY <1>6, <1>7, Zenon DEF Inserted
<1>9. Kind(r) \in d
  BY <1>2, <1>5, <1>6
<1>10. t[Kind(r)] = table[Kind(r)] \o rows[Kind(r)]
  BY <1>8, <1>9
<1> QED BY <1>7, <1>10

\* What Repository::pop_batch takes of a list, and leaves.
Upto(q)   == IF Len(q) < Limit THEN Len(q) ELSE Limit
Popped(q) == SubSeq(q, 1, Upto(q))
Left(q)   == SubSeq(q, Upto(q) + 1, Len(q))

LEMMA PoppedAre ==
  ASSUME NEW S, NEW q \in Seq(S)
  PROVE  /\ Popped(q) \in Seq(S) /\ Left(q) \in Seq(S)
         /\ \A W : Count(q, W) = Count(Popped(q), W) + Count(Left(q), W)
<1>1. Len(q) \in Nat /\ Limit \in Nat
  BY EmptyLength, StoreAssumption
<1>2. Upto(q) \in 0 .. Len(q)
  BY <1>1 DEF Upto
<1>3. PICK n \in 0 .. Len(q) : n = Upto(q)
  BY <1>2
<1>4. /\ SubSeq(q, 1, n) \in Seq(S) /\ SubSeq(q, n + 1, Len(q)) \in Seq(S)
      /\ \A W : Count(q, W) = Count(SubSeq(q, 1, n), W) + Count(SubSeq(q, n + 1, Len(q)), W)
  BY CountCut
<1> QED BY <1>3, <1>4, Zenon DEF Popped, Left

\* The rows that are popped, and those that are left, are rows of their kind.
PoppedRows(rows) == [k \in Kinds |-> Popped(rows[k])]
LeftRows(rows)   == [k \in Kinds |-> Left(rows[k])]

LEMMA PopBatchIs ==
  ASSUME PopBatch
  PROVE  /\ table' = LeftRows(table)
         /\ extracting' = IF PoppedRows(table) = NoRows THEN << >>
                          ELSE << [tag |-> "Batch", of |-> RowsIn(PoppedRows(table))] >>
BY Zenon DEF PopBatch, LeftRows, PoppedRows, Left, Popped, Upto

LEMMA CutRowsAre ==
  ASSUME NEW rows, KindRows(rows)
  PROVE  KindRows(PoppedRows(rows)) /\ KindRows(LeftRows(rows))
<1>1. ASSUME NEW k \in Kinds PROVE Popped(rows[k]) \in Seq(OfKind(k)) /\ Left(rows[k]) \in Seq(OfKind(k))
  BY PoppedAre DEF KindRows
<1>2. PICK p, t : p = PoppedRows(rows) /\ t = LeftRows(rows)
  OBVIOUS
<1>3. /\ p = [k \in Kinds |-> Popped(rows[k])] /\ t = [k \in Kinds |-> Left(rows[k])]
  BY <1>2, Zenon DEF PoppedRows, LeftRows
<1>4. /\ p = [k \in Kinds |-> p[k]] /\ \A k \in Kinds : p[k] \in Seq(OfKind(k))
      /\ t = [k \in Kinds |-> t[k]] /\ \A k \in Kinds : t[k] \in Seq(OfKind(k))
  BY <1>1, <1>3
<1> QED BY <1>2, <1>4, KindRowsAre, Zenon

\* The readings in the rows.
LEMMA RowsInAre ==
  ASSUME NEW rows, KindRows(rows), NEW r \in Readings, Kind(r) \in Kinds
  PROVE  /\ RowsIn(rows) \in SUBSET Readings
         /\ r \in RowsIn(rows) <=> Count(rows[Kind(r)], {r}) # 0
<1>1. \A k \in Kinds : rows[k] \in Seq(OfKind(k))
  BY DEF KindRows
<1>2. \A k \in Kinds : \A i \in DOMAIN rows[k] : rows[k][i] \in Readings /\ Kind(rows[k][i]) = k
  <2>1. ASSUME NEW k \in Kinds, NEW i \in DOMAIN rows[k] PROVE rows[k][i] \in OfKind(k)
    <3>1. i \in 1 .. Len(rows[k])
      BY <1>1, EmptyLength
    <3> QED BY <1>1, <3>1, ElementOfSeq
  <2> QED BY <2>1 DEF OfKind
<1>3. RowsIn(rows) \in SUBSET Readings
  BY <1>2 DEF RowsIn
<1>4. r \in RowsIn(rows) <=> \E i \in DOMAIN rows[Kind(r)] : rows[Kind(r)][i] \in {r}
  BY <1>2 DEF RowsIn
<1>5. Count(rows[Kind(r)], {r}) = 0 <=> \A i \in DOMAIN rows[Kind(r)] : rows[Kind(r)][i] \notin {r}
  BY <1>1, PlacesFinite
<1> QED BY <1>3, <1>4, <1>5
-----------------------------------------------------------------------------
(* Counting a reading in the channels *)

Carries(r, m) == IF r \in m.of THEN 1 ELSE 0

LEMMA HeldMoves ==
  ASSUME NEW q \in Seq(Message), NEW r
  PROVE  /\ Held(q, r) \in Nat /\ Held(<< >>, r) = 0
         /\ \A m \in Message : /\ Held(Append(q, m), r) = Held(q, r) + Carries(r, m)
                               /\ Held(<< m >>, r) = Carries(r, m)
         /\ q # << >> => Held(q, r) = Carries(r, Head(q)) + Held(Tail(q), r)
         /\ Held(q, r) = 0 <=> r \notin ReadingsIn(q)
<1> DEFINE W == { m \in Message : r \in m.of }
<1>1. ASSUME NEW p \in Seq(Message) PROVE Held(p, r) = Count(p, W)
  <2>1. \A i \in DOMAIN p : p[i] \in Message
    BY EmptyLength, ElementOfSeq
  <2>2. { i \in DOMAIN p : r \in p[i].of } = Places(p, W)
    BY <2>1 DEF Places
  <2> QED BY <2>2 DEF Held, Count
<1>2. \A m \in Message : One(m, W) = Carries(r, m)
  BY DEF One, Carries
<1>3. /\ << >> \in Seq(Message) /\ \A m \in Message : Append(q, m) \in Seq(Message) /\ << m >> \in Seq(Message)
      /\ q # << >> => Tail(q) \in Seq(Message) /\ Head(q) \in Message
  BY ChannelMoves
<1>4. Held(q, r) = Count(q, W) /\ Count(q, W) \in Nat
  BY <1>1, PlacesFinite
<1>5. Held(<< >>, r) = 0
  BY <1>1, <1>3, CountEmpty
<1>6. ASSUME NEW m \in Message
      PROVE  Held(Append(q, m), r) = Held(q, r) + Carries(r, m) /\ Held(<< m >>, r) = Carries(r, m)
  <2>1. Held(Append(q, m), r) = Count(Append(q, m), W) /\ Held(<< m >>, r) = Count(<< m >>, W)
    BY <1>1, <1>3
  <2>2. Count(Append(q, m), W) = Count(q, W) + One(m, W) /\ Count(<< m >>, W) = One(m, W)
    BY CountAppend, CountSingle
  <2> QED BY <1>2, <1>4, <2>1, <2>2
<1>7. ASSUME q # << >>
      PROVE  Held(q, r) = Carries(r, Head(q)) + Held(Tail(q), r)
  <2>1. Count(q, W) = One(Head(q), W) + Count(Tail(q), W)
    BY <1>7, CountTail
  <2>2. Held(Tail(q), r) = Count(Tail(q), W)
    BY <1>1, <1>3, <1>7
  <2> QED BY <1>2, <1>3, <1>4, <1>7, <2>1, <2>2
<1>8. Held(q, r) = 0 <=> r \notin ReadingsIn(q)
  <2>1. Count(q, W) = 0 <=> \A i \in DOMAIN q : q[i] \notin W
    BY PlacesFinite
  <2>2. \A i \in DOMAIN q : q[i] \in Message
    BY EmptyLength, ElementOfSeq
  <2> QED BY <1>4, <2>1, <2>2 DEF ReadingsIn
<1> QED BY <1>4, <1>5, <1>6, <1>7, <1>8

LEMMA InHandMoves ==
  ASSUME NEW q \in Seq(Sending), NEW r
  PROVE  /\ InHand(q, r) \in Nat /\ InHand(<< >>, r) = 0
         /\ \A s \in Sending : /\ InHand(Append(q, s), r) = InHand(q, r) + Carries(r, s.msg)
                               /\ InHand(<< s >>, r) = Carries(r, s.msg)
         /\ q # << >> => InHand(q, r) = Carries(r, Head(q).msg) + InHand(Tail(q), r)
         /\ \A p \in Seq(Sending) : InHand(q \o p, r) = InHand(q, r) + InHand(p, r)
<1> DEFINE W == { s \in Sending : r \in s.msg.of }
<1>1. ASSUME NEW p \in Seq(Sending) PROVE InHand(p, r) = Count(p, W)
  <2>1. \A i \in DOMAIN p : p[i] \in Sending
    BY EmptyLength, ElementOfSeq
  <2>2. { i \in DOMAIN p : r \in p[i].msg.of } = Places(p, W)
    BY <2>1 DEF Places
  <2> QED BY <2>2 DEF InHand, Count
<1>2. \A s \in Sending : One(s, W) = Carries(r, s.msg)
  BY DEF One, Carries
<1>3. /\ << >> \in Seq(Sending) /\ \A s \in Sending : Append(q, s) \in Seq(Sending) /\ << s >> \in Seq(Sending)
      /\ q # << >> => Tail(q) \in Seq(Sending) /\ Head(q) \in Sending
  BY ChannelMoves
<1>4. InHand(q, r) = Count(q, W) /\ Count(q, W) \in Nat
  BY <1>1, PlacesFinite
<1>5. InHand(<< >>, r) = 0
  BY <1>1, <1>3, CountEmpty
<1>6. ASSUME NEW s \in Sending
      PROVE  InHand(Append(q, s), r) = InHand(q, r) + Carries(r, s.msg) /\ InHand(<< s >>, r) = Carries(r, s.msg)
  <2>1. InHand(Append(q, s), r) = Count(Append(q, s), W) /\ InHand(<< s >>, r) = Count(<< s >>, W)
    BY <1>1, <1>3
  <2>2. Count(Append(q, s), W) = Count(q, W) + One(s, W) /\ Count(<< s >>, W) = One(s, W)
    BY CountAppend, CountSingle
  <2> QED BY <1>2, <1>4, <2>1, <2>2
<1>7. ASSUME q # << >>
      PROVE  InHand(q, r) = Carries(r, Head(q).msg) + InHand(Tail(q), r)
  <2>1. Count(q, W) = One(Head(q), W) + Count(Tail(q), W)
    BY <1>7, CountTail
  <2>2. InHand(Tail(q), r) = Count(Tail(q), W)
    BY <1>1, <1>3, <1>7
  <2> QED BY <1>2, <1>3, <1>4, <1>7, <2>1, <2>2
<1>8. ASSUME NEW p \in Seq(Sending)
      PROVE  InHand(q \o p, r) = InHand(q, r) + InHand(p, r)
  <2>1. q \o p \in Seq(Sending)
    BY ConcatProperties
  <2>2. InHand(q \o p, r) = Count(q \o p, W) /\ InHand(p, r) = Count(p, W)
    BY <1>1, <2>1
  <2>3. Count(q \o p, W) = Count(q, W) + Count(p, W)
    BY CountConcat
  <2> QED BY <1>4, <2>2, <2>3
<1> QED BY <1>4, <1>5, <1>6, <1>7, <1>8

LEMMA RowsMoves ==
  ASSUME NEW rows, KindRows(rows), NEW r \in Readings, Kind(r) \in Kinds
  PROVE  /\ InRows(rows, r) = Count(rows[Kind(r)], {r}) /\ InRows(rows, r) \in Nat
         /\ InRows(NoRows, r) = 0
         /\ \A x \in Readings : Kind(x) \in Kinds =>
              InRows([rows EXCEPT ![Kind(x)] = Append(@, x)], r) = InRows(rows, r) + (IF x = r THEN 1 ELSE 0)
<1>1. rows \in [Kinds -> Seq(Readings)] /\ \A k \in Kinds : rows[k] \in Seq(OfKind(k))
  BY DEF KindRows, Rows
<1>2. \A rs : InRows(rs, r) = Count(rs[Kind(r)], {r})
  BY DEF InRows, Count, Places
<1>3. Count(rows[Kind(r)], {r}) \in Nat
  BY <1>1, PlacesFinite
<1>4. InRows(NoRows, r) = 0
  <2>1. NoRows[Kind(r)] = << >>
    BY DEF NoRows
  <2> QED BY <1>2, <2>1, CountEmpty
<1>5. ASSUME NEW x \in Readings, Kind(x) \in Kinds
      PROVE  InRows([rows EXCEPT ![Kind(x)] = Append(@, x)], r) = InRows(rows, r) + (IF x = r THEN 1 ELSE 0)
  <2>1. PICK k, q, a : k \in Kinds /\ k = Kind(x) /\ q = rows[k] /\ a = Append(q, x)
    BY <1>5
  <2>2. PICK rs : rs = [rows EXCEPT ![Kind(x)] = Append(@, x)]
    OBVIOUS
  <2>3. rs = [rows EXCEPT ![k] = a]
    BY <2>1, <2>2, Zenon
  <2>4. rs[k] = a /\ \A i \in Kinds : i # k => rs[i] = rows[i]
    BY <1>1, <2>1, <2>3
  <2>5. q \in Seq(Readings)
    BY <1>1, <2>1
  <2>6. CASE Kind(r) = k
    <3>1. Count(a, {r}) = Count(q, {r}) + One(x, {r})
      BY <2>1, <2>5, CountAppend
    <3>2. InRows(rs, r) = Count(a, {r}) /\ InRows(rows, r) = Count(q, {r})
      BY <1>2, <2>1, <2>4, <2>6
    <3>3. One(x, {r}) = IF x = r THEN 1 ELSE 0
      BY DEF One
    <3> QED BY <2>2, <3>1, <3>2, <3>3
  <2>7. CASE Kind(r) # k
    <3>1. InRows(rs, r) = InRows(rows, r) /\ x # r
      BY <1>2, <2>1, <2>4, <2>7
    <3> QED BY <1>2, <1>3, <2>2, <3>1
  <2> QED BY <2>6, <2>7
<1> QED BY <1>2, <1>3, <1>4, <1>5

\* A flush moves the vectors to the tables.
LEMMA FlushMoves ==
  ASSUME KindRows(table), NEW rows, KindRows(rows), \A r \in Readings : Kind(r) \in Insertable,
         NEW r \in Readings, Kind(r) \in Kinds
  PROVE  InRows(Inserted(rows), r) = InRows(table, r) + InRows(rows, r)
<1>1. PICK k \in Kinds : k = Kind(r)
  OBVIOUS
<1>2. PICK t, p, q : t = Inserted(rows) /\ p = table[k] /\ q = rows[k]
  OBVIOUS
<1>3. t[k] = p \o q
  BY <1>1, <1>2, InsertedAll, Zenon
<1>4. p \in Seq(OfKind(k)) /\ q \in Seq(OfKind(k))
  BY <1>2 DEF KindRows
<1>5. Count(p \o q, {r}) = Count(p, {r}) + Count(q, {r})
  BY <1>4, CountConcat
<1>6. \A rs : InRows(rs, r) = Count(rs[k], {r})
  BY <1>1 DEF InRows, Count, Places
<1>7. InRows(t, r) = Count(p \o q, {r}) /\ InRows(table, r) = Count(p, {r}) /\ InRows(rows, r) = Count(q, {r})
  BY <1>2, <1>3, <1>6, Zenon
<1> QED BY <1>2, <1>5, <1>7, Zenon

\* A batch takes a reading that is in the tables once out of them, or leaves it there.
LEMMA PopMoves ==
  ASSUME KindRows(table), PopBatch, NEW r \in Readings, Kind(r) \in Kinds, InRows(table, r) <= 1
  PROVE  InRows(table', r) + Held(extracting', r) = InRows(table, r)
<1>1. PICK k \in Kinds : k = Kind(r)
  OBVIOUS
<1>2. PICK q, p, l : q = table[k] /\ p = Popped(q) /\ l = Left(q)
  OBVIOUS
<1>3. PICK ps, ls : ps = PoppedRows(table) /\ ls = LeftRows(table)
  OBVIOUS
<1>4. ps[k] = p /\ ls[k] = l
  BY <1>2, <1>3 DEF PoppedRows, LeftRows
<1>5. KindRows(ps) /\ KindRows(ls)
  BY <1>3, CutRowsAre, Zenon
<1>6. q \in Seq(OfKind(k))
  BY <1>2 DEF KindRows
<1>7. Count(q, {r}) = Count(p, {r}) + Count(l, {r})
  BY <1>2, <1>6, PoppedAre
<1>8. \A rs : InRows(rs, r) = Count(rs[k], {r})
  BY <1>1 DEF InRows, Count, Places
<1>9. InRows(table, r) = Count(q, {r}) /\ InRows(ls, r) = Count(l, {r}) /\ InRows(ps, r) = Count(p, {r})
  BY <1>2, <1>4, <1>8, Zenon
<1>10. Count(p, {r}) \in Nat /\ Count(l, {r}) \in Nat
  <2>1. p \in Seq(OfKind(k)) /\ l \in Seq(OfKind(k))
    BY <1>2, <1>6, PoppedAre
  <2> QED BY <2>1, PlacesFinite
<1>11. PICK m : m = [tag |-> "Batch", of |-> RowsIn(ps)]
  OBVIOUS
<1>12. m \in Message /\ Carries(r, m) = Count(p, {r})
  <2>1. RowsIn(ps) \in SUBSET Readings /\ (r \in RowsIn(ps) <=> Count(ps[k], {r}) # 0)
    BY <1>1, <1>5, RowsInAre
  <2>2. m \in BatchMsg /\ m.of = RowsIn(ps)
    BY <1>11, <2>1, MessagesAre
  <2>3. Count(p, {r}) <= 1
    BY <1>7, <1>9, <1>10
  <2>4. Count(p, {r}) = 0 \/ Count(p, {r}) = 1
    BY <1>10, <2>3
  <2> QED BY <1>4, <2>1, <2>2, <2>4, MessagesAre DEF Carries
<1>13. Held(extracting', r) = Count(p, {r})
  <2>1. CASE ps = NoRows
    <3>1. extracting' = << >>
      BY <1>3, <2>1, PopBatchIs, Zenon
    <3>2. Count(p, {r}) = 0
      <4>1. InRows(NoRows, r) = 0
        BY <1>5, RowsMoves
      <4> QED BY <1>9, <2>1, <4>1
    <3>3. Held(<< >>, r) = 0
      <4>1. << >> \in Seq(Message)
        OBVIOUS
      <4> QED BY <4>1, HeldMoves
    <3> QED BY <3>1, <3>2, <3>3, Zenon
  <2>2. CASE ps # NoRows
    <3>1. extracting' = << m >>
      BY <1>3, <1>11, <2>2, PopBatchIs, Zenon
    <3>2. Held(<< m >>, r) = Carries(r, m)
      <4>1. << >> \in Seq(Message)
        OBVIOUS
      <4> QED BY <1>12, <4>1, HeldMoves
    <3> QED BY <1>12, <3>1, <3>2, Zenon
  <2> QED BY <2>1, <2>2
<1>14. table' = ls
  BY <1>3, PopBatchIs, Zenon
<1> QED BY <1>7, <1>9, <1>10, <1>13, <1>14

\* Of the uploads of a batch, the one for its kind carries a reading of the batch.
LEMMA UploadsMoves ==
  ASSUME NEW msg \in Message, NEW r \in Readings, Kind(r) \in Kinds
  PROVE  InHand(Uploads(msg), r) = Carries(r, msg)
<1> DEFINE P(k) == { x \in msg.of : Kind(x) = k }
<1>0. << >> \in Seq(Sending)
  OBVIOUS
<1>1. msg.of \in SUBSET Readings
  BY MessagesAre
<1>2. ASSUME NEW R \in SUBSET Readings
      PROVE  UploadOf(R) \in Seq(Sending) /\ InHand(UploadOf(R), r) = IF r \in R THEN 1 ELSE 0
  <2>1. PICK m : m = [tag |-> "Batch", of |-> R]
    OBVIOUS
  <2>2. m \in Message /\ m.of = R
    BY <2>1, MessagesAre
  <2>3. PICK s : s = Send("handle", m)
    OBVIOUS
  <2>4. s \in Sending /\ s.msg = m
    BY <2>2, <2>3, SendsAre
  <2>5. InHand(<< s >>, r) = IF r \in R THEN 1 ELSE 0
    BY <1>0, <2>2, <2>4, InHandMoves DEF Carries
  <2>6. << s >> \in Seq(Sending)
    BY <2>4
  <2>7. CASE R = {}
    <3>1. UploadOf(R) = << >>
      BY <2>7 DEF UploadOf
    <3>2. InHand(<< >>, r) = 0
      BY <1>0, InHandMoves
    <3> QED BY <1>0, <2>7, <3>1, <3>2
  <2>8. CASE R # {}
    <3>1. UploadOf(R) = << s >>
      BY <2>1, <2>3, <2>8, Zenon DEF UploadOf
    <3> QED BY <2>5, <2>6, <3>1, Zenon
  <2> QED BY <2>7, <2>8
<1>3. \A k : P(k) \in SUBSET Readings
  BY <1>1
<1>4. CASE msg.tag = "Batch"
  <2>1. PICK a, b, c, d :
          a = UploadOf(P("measurement")) /\ b = UploadOf(P("monitor")) /\ c = UploadOf(P("alert_air")) /\ d = UploadOf(P("alert_th"))
    OBVIOUS
  <2>2. /\ a \in Seq(Sending) /\ b \in Seq(Sending) /\ c \in Seq(Sending) /\ d \in Seq(Sending)
        /\ InHand(a, r) = (IF r \in P("measurement") THEN 1 ELSE 0) /\ InHand(b, r) = (IF r \in P("monitor") THEN 1 ELSE 0)
        /\ InHand(c, r) = (IF r \in P("alert_air") THEN 1 ELSE 0) /\ InHand(d, r) = (IF r \in P("alert_th") THEN 1 ELSE 0)
    BY <1>2, <1>3, <2>1, Zenon
  <2>3. Uploads(msg) = a \o b \o c \o d
    BY <1>4, <2>1, Zenon DEF Uploads
  <2>4. a \o b \in Seq(Sending) /\ a \o b \o c \in Seq(Sending)
    BY <2>2, ConcatProperties
  <2>5. InHand(a \o b \o c \o d, r) = InHand(a, r) + InHand(b, r) + InHand(c, r) + InHand(d, r)
    <3>1. InHand(a \o b, r) = InHand(a, r) + InHand(b, r)
      BY <2>2, InHandMoves
    <3>2. PICK ab \in Seq(Sending) : ab = a \o b
      BY <2>4
    <3>3. InHand(ab \o c, r) = InHand(ab, r) + InHand(c, r)
      BY <2>2, InHandMoves
    <3>4. PICK abc \in Seq(Sending) : abc = a \o b \o c
      BY <2>4
    <3>5. InHand(abc \o d, r) = InHand(abc, r) + InHand(d, r)
      BY <2>2, InHandMoves
    <3>6. InHand(abc, r) = InHand(ab, r) + InHand(c, r)
      BY <3>2, <3>3, <3>4, Zenon
    <3>7. InHand(a \o b \o c \o d, r) = InHand(abc, r) + InHand(d, r) /\ InHand(ab, r) = InHand(a, r) + InHand(b, r)
      BY <3>1, <3>2, <3>4, <3>5, Zenon
    <3> QED BY <3>6, <3>7
  <2>6. r \in P(Kind(r)) <=> r \in msg.of
    OBVIOUS
  <2>7. \A k : r \in P(k) => k = Kind(r)
    OBVIOUS
  <2>8. Kind(r) \in {"measurement", "monitor", "alert_air", "alert_th"}
    BY DEF Kinds
  <2>9. InHand(a, r) + InHand(b, r) + InHand(c, r) + InHand(d, r) = IF r \in msg.of THEN 1 ELSE 0
    <3> HIDE DEF P
    <3>1. CASE r \in msg.of
      BY <2>2, <2>6, <2>7, <2>8, <3>1
    <3>2. CASE r \notin msg.of
      BY <2>2, <2>6, <2>7, <2>8, <3>2
    <3> QED BY <3>1, <3>2
  <2> QED BY <2>3, <2>5, <2>9 DEF Carries
<1>5. CASE msg.tag # "Batch"
  <2>1. PICK s : s = Send("handle", msg)
    OBVIOUS
  <2>2. s \in Sending /\ s.msg = msg
    BY <2>1, SendsAre
  <2>3. Uploads(msg) = << s >>
    BY <1>5, <2>1, Zenon DEF Uploads
  <2>4. InHand(<< s >>, r) = Carries(r, msg)
    BY <1>0, <2>2, InHandMoves
  <2> QED BY <2>3, <2>4, Zenon
<1> QED BY <1>4, <1>5
-----------------------------------------------------------------------------
(* The channels stay in their types *)

\* At the start every channel is empty.
LEMMA ChannelsInit ==
  ASSUME Init
  PROVE  ChannelsInv
<1>1. \A S : << >> \in Seq(S) /\ Len(<< >>) <= 1
  OBVIOUS
<1>2. LinkChannels /\ EdgeChannels
  BY <1>1 DEF Init, LinkInit, LinkChannels, EdgeChannels
<1>3. MaxOutages \in Nat /\ MaxReports \in Nat /\ MaxTurns \in Nat
  BY StoreAssumption
<1>4. LinkState
  BY <1>3 DEF Init, LinkInit, LinkState, StateClient
<1>5. EdgeState
  <2>1. KindRows(buffer) /\ KindRows(table)
    BY NoRowsAre, Zenon DEF Init
  <2>2. spent \in [reports : 0 .. MaxReports, turns : 0 .. MaxTurns]
    BY <1>3 DEF Init
  <2> QED BY <2>1, <2>2 DEF Init, EdgeState
<1> QED BY <1>2, <1>4, <1>5 DEF ChannelsInv

\* GrpcService::run moves what it receives.
LEMMA ServiceChannels ==
  ASSUME ChannelsInv, ServiceNext, UNCHANGED << edgeVars, monitorVars >>
  PROVE  ChannelsInv'
<1>1. UNCHANGED << own, status, sending, middle, relaying, dataRx, buffer, table, connected, extracting, batches,
                   telling, received, spent, clientVars, serverVars >>
  BY DEF edgeVars, messageVars, dataVars, monitorVars, ServiceNext, ForwardUpload, ForwardEvent, ForwardSend
<1>2. EdgeChannels' /\ LinkState' /\ EdgeState'
  BY <1>1 DEF ChannelsInv, EdgeChannels, LinkState, EdgeState, clientVars, serverVars
<1>3. ASSUME ForwardUpload PROVE LinkChannels'
  BY <1>1, <1>3, ChannelMoves, SendsAre DEF ForwardUpload, ChannelsInv, LinkChannels, clientVars, serverVars
<1>4. ASSUME ForwardEvent PROVE LinkChannels'
  BY <1>1, <1>4, ChannelMoves, SendsAre DEF ForwardEvent, ChannelsInv, LinkChannels, clientVars, serverVars
<1>5. ASSUME ForwardSend PROVE LinkChannels'
  <2>1. PICK s \in ForwardMsg : s = Head(forwarding)
    BY <1>5, ChannelMoves DEF ForwardSend, ChannelsInv, LinkChannels
  <2> QED BY <1>1, <1>5, <2>1, ChannelMoves, SendsAre, GroupsAre, ZenonT(60) DEF ForwardSend, ChannelsInv, LinkChannels, clientVars, serverVars
<1> QED BY <1>2, <1>3, <1>4, <1>5 DEF ServiceNext, ChannelsInv

\* The client moves uploads into its session, and drops the session when the stream breaks.
LEMMA ClientChannels ==
  ASSUME ChannelsInv, ClientNext, UNCHANGED << edgeVars, monitorVars >>
  PROVE  ChannelsInv'
<1>1. UNCHANGED << own, status, sending, middle, relaying, dataRx, buffer, table, connected, extracting, batches,
                   telling, received, spent, handle, forwarding, inbox, server, delivered, outages >>
  BY DEF edgeVars, messageVars, dataVars, monitorVars, serviceVars, serverVars, ClientNext,
         Connect, Greet, Upload, StreamBreaks, Report, BackoffEnds
<1>2. EdgeChannels' /\ EdgeState'
  BY <1>1 DEF ChannelsInv, EdgeChannels, EdgeState
<1>3. ASSUME Connect PROVE LinkChannels' /\ LinkState'
  BY <1>1, <1>3 DEF Connect, ChannelsInv, LinkChannels, LinkState, StateClient
<1>4. \A q \in Seq(StatusMsg) : \A t \in {"ServerConnected", "ServerDisconnected"} : Append(q, Plain(t)) \in Seq(StatusMsg)
  BY MessagesAre, ChannelMoves
<1>5. ASSUME Greet PROVE LinkChannels' /\ LinkState'
  BY <1>1, <1>4, <1>5 DEF Greet, Emit, ChannelsInv, LinkChannels, LinkState, StateClient
<1>6. ASSUME Upload PROVE LinkChannels' /\ LinkState'
  BY <1>1, <1>6, ChannelMoves DEF Upload, ChannelsInv, LinkChannels, LinkState
<1>7. ASSUME StreamBreaks PROVE LinkChannels' /\ LinkState'
  <2>1. ReadingsIn(session) \in SUBSET Readings
    <3>1. \A i \in DOMAIN session : session[i] \in Message
      BY EmptyLength, ElementOfSeq DEF ChannelsInv, LinkChannels
    <3> QED BY <3>1, MessagesAre DEF ReadingsIn
  <2>2. outbound # << >> => Head(outbound).of \in SUBSET Readings /\ Tail(outbound) \in Seq(Message)
    BY ChannelMoves, MessagesAre DEF ChannelsInv, LinkChannels
  <2> QED BY <1>1, <1>7, <2>1, <2>2, ChannelMoves DEF StreamBreaks, ChannelsInv, LinkChannels, LinkState, StateClient
<1>8. ASSUME Report PROVE LinkChannels' /\ LinkState'
  BY <1>1, <1>4, <1>8 DEF Report, Emit, ChannelsInv, LinkChannels, LinkState, StateClient
<1>9. ASSUME BackoffEnds PROVE LinkChannels' /\ LinkState'
  BY <1>1, <1>9 DEF BackoffEnds, ChannelsInv, LinkChannels, LinkState, StateClient
<1> QED BY <1>2, <1>3, <1>5, <1>6, <1>7, <1>8, <1>9 DEF ClientNext, ChannelsInv

\* The network takes from the session.
LEMMA NetworkChannels ==
  ASSUME ChannelsInv, NetworkNext, UNCHANGED << edgeVars, monitorVars >>
  PROVE  ChannelsInv'
<1>1. UNCHANGED << own, status, sending, middle, relaying, dataRx, buffer, table, connected, extracting, batches,
                   telling, received, spent, handle, forwarding, inbox, outbound, grpcEvents, client, lost >>
  BY DEF edgeVars, messageVars, dataVars, monitorVars, serviceVars, clientVars, NetworkNext,
         Deliver, ServerGoes, ServerReturns
<1>2. EdgeChannels' /\ EdgeState'
  BY <1>1 DEF ChannelsInv, EdgeChannels, EdgeState
<1>3. ASSUME Deliver PROVE LinkChannels' /\ LinkState'
  <2>1. delivered' \in [Readings -> Nat]
    BY <1>3 DEF Deliver, ChannelsInv, LinkState
  <2> QED BY <1>1, <1>3, <2>1, ChannelMoves DEF Deliver, ChannelsInv, LinkChannels, LinkState
<1>4. ASSUME ServerGoes PROVE LinkChannels' /\ LinkState'
  <2>1. outages' \in 0 .. MaxOutages
    BY <1>4, StoreAssumption DEF ServerGoes, ChannelsInv, LinkState
  <2> QED BY <1>1, <1>4, <2>1 DEF ServerGoes, ChannelsInv, LinkChannels, LinkState
<1>5. ASSUME ServerReturns PROVE LinkChannels' /\ LinkState'
  BY <1>1, <1>5 DEF ServerReturns, clientVars, ChannelsInv, LinkChannels, LinkState
<1> QED BY <1>2, <1>3, <1>4, <1>5 DEF NetworkNext, ChannelsInv

\* MessageService::run sends readings on, and a batch as its uploads.
LEMMA MessageChannels ==
  ASSUME ChannelsInv, MessageNext
  PROVE  ChannelsInv'
<1>1. UNCHANGED << relaying, dataRx, buffer, table, connected, extracting, batches, telling, received, spent,
                   forwarding, outbound, grpcEvents, client, session, stream, lost, server, delivered, outages >>
  BY DEF linkVars, serviceVars, clientVars, serverVars, dataVars, monitorVars, MessageNext,
         TakeCommand, TakeMessage, MessageSend
<1>2. LinkState' /\ (status' \in {"ServerConnected", "ServerDisconnected"} => EdgeState')
  BY <1>1 DEF ChannelsInv, LinkState, EdgeState
<1>3. ASSUME TakeCommand PROVE LinkChannels' /\ EdgeChannels' /\ EdgeState'
  <2>1. PICK m \in OwnMsg : m = Head(own)
    BY <1>3, ChannelMoves DEF TakeCommand, ChannelsInv, EdgeChannels
  <2>2. Uploads(m) \in Seq(SendingMsg)
    BY GroupsAre, UploadsAre
  <2>3. own' \in Seq(OwnMsg) /\ sending' \in Seq(SendingMsg) /\ status' \in {"ServerConnected", "ServerDisconnected"}
    BY <1>3, <2>1, <2>2, ChannelMoves DEF TakeCommand, ChannelsInv, EdgeChannels, EdgeState
  <2>4. UNCHANGED << handle, inbox, middle >>
    BY <1>3 DEF TakeCommand, linkVars, serviceVars
  <2> QED BY <1>1, <1>2, <2>3, <2>4 DEF ChannelsInv, LinkChannels, EdgeChannels
<1>4. ASSUME TakeMessage PROVE LinkChannels' /\ EdgeChannels' /\ EdgeState'
  <2>1. PICK m \in HeardMsg : m = Head(inbox)
    BY <1>4, ChannelMoves DEF TakeMessage, ChannelsInv, LinkChannels
  <2>2. PICK to \in {"own", "middleware"} : to = IF status = "ServerConnected" THEN "own" ELSE "middleware"
    OBVIOUS
  <2>3. m.tag = "Reading" => << Send(to, m) >> \in Seq(SendingMsg)
    BY GroupsAre, SendsAre
  <2>4. m.tag = "Reading" => sending' = << Send(to, m) >> /\ status' = status
    BY <1>4, <2>1, <2>2, Zenon DEF TakeMessage
  <2>5. m.tag # "Reading" => status' = m.tag /\ sending' = sending
    BY <1>4, <2>1, Zenon DEF TakeMessage
  <2>6. inbox' \in Seq(HeardMsg)
    BY <1>4, ChannelMoves DEF TakeMessage, ChannelsInv, LinkChannels
  <2>7. UNCHANGED << handle, own, middle >>
    BY <1>4 DEF TakeMessage, serviceVars
  <2>8. status' \in {"ServerConnected", "ServerDisconnected"} /\ sending' \in Seq(SendingMsg)
    BY <2>3, <2>4, <2>5, GroupsAre, MessagesAre DEF ChannelsInv, EdgeChannels, EdgeState
  <2> QED BY <1>1, <1>2, <2>6, <2>7, <2>8 DEF ChannelsInv, LinkChannels, EdgeChannels
<1>5. ASSUME MessageSend PROVE LinkChannels' /\ EdgeChannels' /\ EdgeState'
  <2>1. PICK s \in SendingMsg : s = Head(sending)
    BY <1>5, ChannelMoves DEF MessageSend, ChannelsInv, EdgeChannels
  <2>2. own' \in Seq(OwnMsg) /\ middle' \in Seq(ReadingMsg) /\ handle' \in Seq(Message)
    BY <1>5, <2>1, ChannelMoves, SendsAre, GroupsAre, ZenonT(60) DEF MessageSend, ChannelsInv, EdgeChannels, LinkChannels
  <2>3. sending' \in Seq(SendingMsg) /\ UNCHANGED << inbox, status >>
    BY <1>5, ChannelMoves DEF MessageSend, ChannelsInv, EdgeChannels
  <2> QED BY <1>1, <1>2, <2>2, <2>3 DEF ChannelsInv, LinkChannels, EdgeChannels, EdgeState
<1> QED BY <1>2, <1>3, <1>4, <1>5 DEF MessageNext, ChannelsInv

\* The middleware moves readings down and batches up.
LEMMA MiddleChannels ==
  ASSUME ChannelsInv, MiddleNext
  PROVE  ChannelsInv'
<1>1. UNCHANGED << linkVars, status, sending, dataVars, monitorVars >>
  BY DEF messageVars, MiddleNext, RelayReading, RelayBatch, RelaySend
<1>2. LinkChannels' /\ LinkState' /\ EdgeState'
  BY <1>1 DEF ChannelsInv, LinkChannels, LinkState, EdgeState, linkVars, serviceVars, clientVars, serverVars,
              dataVars, monitorVars
<1>3. UNCHANGED << sending, extracting, telling >>
  BY <1>1 DEF dataVars, monitorVars
<1>4. ASSUME RelayReading PROVE EdgeChannels'
  <2>1. PICK m \in ReadingMsg : m = Head(middle)
    BY <1>4, ChannelMoves DEF RelayReading, ChannelsInv, EdgeChannels
  <2>2. << Send("data", m) >> \in Seq(RelayMsg) /\ Len(<< Send("data", m) >>) <= 1
    BY SendsAre
  <2>3. relaying' = << Send("data", m) >>
    BY <1>4, <2>1, Zenon DEF RelayReading
  <2>4. middle' \in Seq(ReadingMsg) /\ UNCHANGED << own, dataRx, batches >>
    BY <1>4, ChannelMoves DEF RelayReading, messageVars, ChannelsInv, EdgeChannels
  <2> QED BY <1>3, <2>2, <2>3, <2>4 DEF ChannelsInv, EdgeChannels
<1>5. ASSUME RelayBatch PROVE EdgeChannels'
  <2>1. PICK m \in BatchMsg : m = Head(batches)
    BY <1>5, ChannelMoves DEF RelayBatch, ChannelsInv, EdgeChannels
  <2>2. << Send("own", m) >> \in Seq(RelayMsg) /\ Len(<< Send("own", m) >>) <= 1
    BY SendsAre
  <2>3. relaying' = << Send("own", m) >>
    BY <1>5, <2>1, Zenon DEF RelayBatch
  <2>4. batches' \in Seq(BatchMsg) /\ UNCHANGED << own, dataRx, middle >>
    BY <1>5, ChannelMoves DEF RelayBatch, messageVars, ChannelsInv, EdgeChannels
  <2> QED BY <1>3, <2>2, <2>3, <2>4 DEF ChannelsInv, EdgeChannels
<1>6. ASSUME RelaySend PROVE EdgeChannels'
  <2>1. PICK s \in RelayMsg : s = Head(relaying)
    BY <1>6, ChannelMoves DEF RelaySend, ChannelsInv, EdgeChannels
  <2>2. own' \in Seq(OwnMsg) /\ dataRx' \in Seq(HeardMsg)
    BY <1>6, <2>1, ChannelMoves, SendsAre, GroupsAre, ZenonT(60) DEF RelaySend, ChannelsInv, EdgeChannels
  <2>3. relaying' \in Seq(RelayMsg) /\ Len(relaying') <= 1 /\ UNCHANGED << middle, batches >>
    BY <1>6, ChannelMoves DEF RelaySend, ChannelsInv, EdgeChannels
  <2> QED BY <1>3, <2>2, <2>3 DEF ChannelsInv, EdgeChannels
<1> QED BY <1>2, <1>4, <1>5, <1>6 DEF MiddleNext, ChannelsInv

\* A reading in the data channel is one reading, of a kind there is.
LEMMA ReadingIs ==
  ASSUME NEW m \in ReadingMsg
  PROVE  \E r \in Readings : /\ m.of = {r} /\ (CHOOSE x \in m.of : TRUE) = r
                             /\ Kind(r) \in Kinds
<1>1. PICK r \in Readings : m.of = {r}
  BY MessagesAre
<1>2. (CHOOSE x \in m.of : TRUE) = r
  BY <1>1
<1>3. Kind(r) \in Kinds
  BY StoreAssumption DEF Kind
<1> QED BY <1>1, <1>2, <1>3

\* A vector takes a reading of its kind.
LEMMA SortedAre ==
  ASSUME NEW rows, KindRows(rows), NEW r \in Readings, Kind(r) \in Kinds
  PROVE  KindRows([rows EXCEPT ![Kind(r)] = Append(@, r)])
<1>1. PICK k, q, a : k \in Kinds /\ k = Kind(r) /\ q = rows[k] /\ a = Append(q, r)
  OBVIOUS
<1>2. PICK rs : rs = [rows EXCEPT ![Kind(r)] = Append(@, r)]
  OBVIOUS
<1>3. rs = [rows EXCEPT ![k] = a]
  BY <1>1, <1>2, Zenon
<1>4. rows \in [Kinds -> Seq(Readings)] /\ \A i \in Kinds : rows[i] \in Seq(OfKind(i))
  BY DEF KindRows, Rows
<1>5. r \in OfKind(k) /\ q \in Seq(OfKind(k))
  BY <1>1, <1>4 DEF OfKind
<1>6. a \in Seq(OfKind(k))
  BY <1>1, <1>5
<1>7. rs = [i \in Kinds |-> rs[i]] /\ rs[k] = a /\ \A i \in Kinds : i # k => rs[i] = rows[i]
  BY <1>1, <1>3, <1>4
<1>8. \A i \in Kinds : rs[i] \in Seq(OfKind(i))
  BY <1>4, <1>6, <1>7
<1>9. KindRows(rs)
  BY <1>7, <1>8, KindRowsAre
<1> QED BY <1>2, <1>9

\* What TakeReading does to the vectors and the tables.
LEMMA TakeReadingIs ==
  ASSUME ChannelsInv, TakeReading
  PROVE  \E r \in Readings : \E rows :
           /\ Head(dataRx) \in ReadingMsg /\ Head(dataRx).of = {r} /\ Kind(r) \in Kinds
           /\ rows = [buffer EXCEPT ![Kind(r)] = Append(@, r)] /\ KindRows(rows)
           /\ \/ table' = Inserted(rows) /\ buffer' = NoRows
              \/ table' = table /\ buffer' = rows
<1>1. PICK m \in ReadingMsg : m = Head(dataRx)
  BY ChannelMoves, GroupsAre DEF TakeReading, ChannelsInv, EdgeChannels
<1>2. PICK r \in Readings : m.of = {r} /\ (CHOOSE x \in m.of : TRUE) = r /\ Kind(r) \in Kinds
  BY ReadingIs
<1>3. PICK rows : rows = [buffer EXCEPT ![Kind(r)] = Append(@, r)]
  OBVIOUS
<1>4. KindRows(buffer)
  BY DEF ChannelsInv, EdgeState
<1>5. KindRows(rows)
  BY <1>2, <1>3, <1>4, SortedAre, Zenon
<1>6. IF \E k \in Kinds : Len(rows[k]) = BatchSize THEN FlushToDb(rows) ELSE buffer' = rows /\ UNCHANGED table
  BY <1>1, <1>2, <1>3, Zenon DEF TakeReading
<1>7. \/ table' = Inserted(rows) /\ buffer' = NoRows
      \/ table' = table /\ buffer' = rows
  BY <1>6 DEF FlushToDb
<1> QED BY <1>1, <1>2, <1>3, <1>5, <1>7, Zenon

\* DataService::run keeps rows by their kind, and pops batches of readings.
LEMMA DataChannels ==
  ASSUME ChannelsInv, DataNext
  PROVE  ChannelsInv'
<1>1. UNCHANGED << linkVars, messageVars, middle, relaying, monitorVars >>
  BY DEF DataNext, TakeReading, TakeStatus, FlushTick, ExtractTick, SendBatch
<1>2. LinkChannels' /\ LinkState' /\ UNCHANGED << own, status, sending, middle, relaying, telling, received, spent >>
  BY <1>1 DEF ChannelsInv, LinkChannels, LinkState, linkVars, serviceVars, clientVars, serverVars, messageVars, monitorVars
<1>3. KindRows(buffer) /\ KindRows(table) /\ connected \in BOOLEAN
  BY DEF ChannelsInv, EdgeState
<1>4. ASSUME dataRx' \in Seq(HeardMsg), batches' \in Seq(BatchMsg), extracting' \in Seq(BatchMsg), Len(extracting') <= 1
      PROVE  EdgeChannels'
  BY <1>2, <1>4 DEF ChannelsInv, EdgeChannels
<1>5. ASSUME KindRows(buffer'), KindRows(table'), connected' \in BOOLEAN
      PROVE  EdgeState'
  BY <1>2, <1>5 DEF ChannelsInv, EdgeState
<1>6. ASSUME PopBatch PROVE KindRows(table') /\ extracting' \in Seq(BatchMsg) /\ Len(extracting') <= 1
  <2>1. PICK ps, ls : ps = PoppedRows(table) /\ ls = LeftRows(table)
    OBVIOUS
  <2>2. KindRows(ps) /\ KindRows(ls)
    BY <1>3, <2>1, CutRowsAre, Zenon
  <2>3. PICK m : m = [tag |-> "Batch", of |-> RowsIn(ps)]
    OBVIOUS
  <2>4. RowsIn(ps) \in SUBSET Readings
    <3>1. ASSUME NEW k \in Kinds, NEW i \in DOMAIN ps[k] PROVE ps[k][i] \in Readings
      <4>1. ps[k] \in Seq(Readings)
        BY <2>2 DEF KindRows, Rows
      <4>2. i \in 1 .. Len(ps[k])
        BY <4>1, EmptyLength
      <4> QED BY <4>1, <4>2, ElementOfSeq
    <3> QED BY <3>1 DEF RowsIn
  <2>5. m \in BatchMsg
    BY <2>3, <2>4, MessagesAre
  <2>6. << m >> \in Seq(BatchMsg) /\ Len(<< m >>) <= 1 /\ << >> \in Seq(BatchMsg) /\ Len(<< >>) <= 1
    BY <2>5
  <2>7. extracting' = IF ps = NoRows THEN << >> ELSE << m >>
    BY <1>6, <2>1, <2>3, PopBatchIs, Zenon
  <2>8. table' = ls
    BY <1>6, <2>1, PopBatchIs, Zenon
  <2>9. extracting' = << >> \/ extracting' = << m >>
    BY <2>7
  <2> QED BY <2>2, <2>6, <2>8, <2>9, Zenon
<1>7. ASSUME TakeReading PROVE EdgeChannels' /\ EdgeState'
  <2>1. PICK r \in Readings : \E rows :
           /\ KindRows(rows)
           /\ \/ table' = Inserted(rows) /\ buffer' = NoRows
              \/ table' = table /\ buffer' = rows
    BY <1>7, TakeReadingIs, Zenon
  <2>2. PICK rows : /\ KindRows(rows)
                    /\ \/ table' = Inserted(rows) /\ buffer' = NoRows
                       \/ table' = table /\ buffer' = rows
    BY <2>1
  <2>3. KindRows(Inserted(rows)) /\ KindRows(NoRows)
    BY <1>3, <2>2, InsertedAre, NoRowsAre, Zenon
  <2>4. KindRows(buffer') /\ KindRows(table')
    BY <1>3, <2>2, <2>3, Zenon
  <2>5. dataRx' \in Seq(HeardMsg) /\ UNCHANGED << batches, extracting, connected >>
    BY <1>7, ChannelMoves DEF TakeReading, ChannelsInv, EdgeChannels
  <2> QED BY <1>3, <1>4, <1>5, <2>4, <2>5 DEF ChannelsInv, EdgeChannels
<1>8. ASSUME TakeStatus PROVE EdgeChannels' /\ EdgeState'
  <2>1. dataRx' \in Seq(HeardMsg) /\ connected' \in BOOLEAN /\ UNCHANGED << batches, extracting, buffer, table >>
    BY <1>8, ChannelMoves DEF TakeStatus, ChannelsInv, EdgeChannels
  <2> QED BY <1>3, <1>4, <1>5, <2>1 DEF ChannelsInv, EdgeChannels
<1>9. ASSUME FlushTick PROVE EdgeChannels' /\ EdgeState'
  <2>1. KindRows(Inserted(buffer)) /\ KindRows(NoRows)
    BY <1>3, InsertedAre, NoRowsAre
  <2>2. KindRows(buffer') /\ KindRows(table')
    BY <1>9, <2>1, Zenon DEF FlushTick, FlushToDb
  <2>3. UNCHANGED << dataRx, batches, extracting, connected >>
    BY <1>9 DEF FlushTick
  <2> QED BY <1>3, <1>4, <1>5, <2>2, <2>3 DEF ChannelsInv, EdgeChannels
<1>10. ASSUME ExtractTick PROVE EdgeChannels' /\ EdgeState'
  <2>1. PopBatch /\ UNCHANGED << dataRx, batches, connected, buffer >>
    BY <1>10 DEF ExtractTick
  <2> QED BY <1>3, <1>4, <1>5, <1>6, <2>1 DEF ChannelsInv, EdgeChannels
<1>11. ASSUME SendBatch PROVE EdgeChannels' /\ EdgeState'
  <2>1. PopBatch /\ UNCHANGED << dataRx, connected, buffer >>
    BY <1>11 DEF SendBatch
  <2>2. batches' \in Seq(BatchMsg)
    BY <1>11, ChannelMoves DEF SendBatch, ChannelsInv, EdgeChannels
  <2> QED BY <1>3, <1>4, <1>5, <1>6, <2>1, <2>2 DEF ChannelsInv, EdgeChannels
<1> QED BY <1>2, <1>7, <1>8, <1>9, <1>10, <1>11 DEF DataNext, ChannelsInv

\* A bound used up by one more.
LEMMA Counted ==
  ASSUME NEW m \in Nat, NEW n \in Nat, NEW s \in [reports : 0 .. m, turns : 0 .. n]
  PROVE  /\ s.reports < m => [s EXCEPT !.reports = s.reports + 1] \in [reports : 0 .. m, turns : 0 .. n]
         /\ s.turns < n => [s EXCEPT !.turns = s.turns + 1] \in [reports : 0 .. m, turns : 0 .. n]
OBVIOUS

\* The hubs publish readings, the edge its state, and the monitor statuses.
LEMMA SourceChannels ==
  ASSUME ChannelsInv, SourceNext
  PROVE  ChannelsInv'
<1>1. UNCHANGED << serviceVars, outbound, grpcEvents, clientVars, serverVars, status, sending, middle, relaying, dataVars, batches >>
  BY DEF SourceNext, HubPublishes, EdgeStateTick, MonitorTurns, MonitorTells, linkVars, edgeVars, messageVars
<1>2. LinkState' /\ UNCHANGED << handle, forwarding, outbound, grpcEvents, session, sending, middle, relaying, extracting, batches >>
  BY <1>1 DEF ChannelsInv, LinkState, serviceVars, clientVars, serverVars, dataVars
<1>3. ASSUME inbox' \in Seq(HeardMsg) PROVE LinkChannels'
  BY <1>2, <1>3 DEF ChannelsInv, LinkChannels
<1>4. ASSUME own' \in Seq(OwnMsg), dataRx' \in Seq(HeardMsg), telling' \in Seq(TellMsg) PROVE EdgeChannels'
  BY <1>2, <1>4 DEF ChannelsInv, EdgeChannels
<1>5. ASSUME received' \in SUBSET Readings, spent' \in [reports : 0 .. MaxReports, turns : 0 .. MaxTurns] PROVE EdgeState'
  BY <1>1, <1>5 DEF ChannelsInv, EdgeState, dataVars
<1>6. /\ inbox \in Seq(HeardMsg) /\ own \in Seq(OwnMsg) /\ dataRx \in Seq(HeardMsg) /\ telling \in Seq(TellMsg)
      /\ received \in SUBSET Readings /\ spent \in [reports : 0 .. MaxReports, turns : 0 .. MaxTurns]
      /\ MaxReports \in Nat /\ MaxTurns \in Nat
  BY StoreAssumption DEF ChannelsInv, LinkChannels, EdgeChannels, EdgeState
<1>7. ASSUME HubPublishes PROVE LinkChannels' /\ EdgeChannels' /\ EdgeState'
  <2>1. PICK r \in Readings : received' = received \cup {r} /\ inbox' = Append(inbox, [tag |-> "Reading", of |-> {r}])
    BY <1>7 DEF HubPublishes
  <2>2. inbox' \in Seq(HeardMsg)
    <3>1. [tag |-> "Reading", of |-> {r}] \in HeardMsg
      BY MessagesAre, GroupsAre
    <3> QED BY <1>6, <2>1, <3>1, ChannelMoves
  <2>3. UNCHANGED << own, dataRx, telling, spent >> /\ received' \in SUBSET Readings
    BY <1>6, <1>7, <2>1 DEF HubPublishes, edgeVars, messageVars
  <2> QED BY <1>3, <1>4, <1>5, <1>6, <2>2, <2>3
<1>8. ASSUME EdgeStateTick PROVE LinkChannels' /\ EdgeChannels' /\ EdgeState'
  <2>1. own' \in Seq(OwnMsg)
    BY <1>6, <1>8, MessagesAre, GroupsAre, ChannelMoves DEF EdgeStateTick
  <2>2. spent' \in [reports : 0 .. MaxReports, turns : 0 .. MaxTurns]
    <3>1. spent.reports < MaxReports /\ spent' = [spent EXCEPT !.reports = spent.reports + 1]
      BY <1>8 DEF EdgeStateTick
    <3> QED BY <1>6, <3>1, Counted
  <2>3. UNCHANGED << inbox, dataRx, telling, received >>
    BY <1>8 DEF EdgeStateTick, linkVars
  <2> QED BY <1>3, <1>4, <1>5, <1>6, <2>1, <2>2, <2>3
<1>9. ASSUME MonitorTurns PROVE LinkChannels' /\ EdgeChannels' /\ EdgeState'
  <2>1. PICK event \in {"ServerConnected", "ServerDisconnected"} :
          telling' = << Send("data", Plain(event)), Send("own", Plain(event)) >>
    BY <1>9 DEF MonitorTurns
  <2>2. Send("data", Plain(event)) \in TellMsg /\ Send("own", Plain(event)) \in TellMsg
    BY MessagesAre, SendsAre
  <2>3. telling' \in Seq(TellMsg)
    BY <2>1, <2>2
  <2>4. spent' \in [reports : 0 .. MaxReports, turns : 0 .. MaxTurns]
    <3>1. spent.turns < MaxTurns /\ spent' = [spent EXCEPT !.turns = spent.turns + 1]
      BY <1>9 DEF MonitorTurns
    <3> QED BY <1>6, <3>1, Counted
  <2>5. UNCHANGED << inbox, own, dataRx, received >>
    BY <1>9 DEF MonitorTurns, linkVars, edgeVars, messageVars
  <2> QED BY <1>3, <1>4, <1>5, <1>6, <2>3, <2>4, <2>5
<1>10. ASSUME MonitorTells PROVE LinkChannels' /\ EdgeChannels' /\ EdgeState'
  <2>1. PICK s \in TellMsg : s = Head(telling)
    BY <1>6, <1>10, ChannelMoves DEF MonitorTells
  <2>2. s.msg \in StatusMsg /\ s.msg \in OwnMsg /\ s.msg \in HeardMsg
    BY SendsAre, GroupsAre
  <2>3. own' \in Seq(OwnMsg) /\ dataRx' \in Seq(HeardMsg)
    <3>1. PICK a, d : a = Append(own, s.msg) /\ d = Append(dataRx, s.msg)
      OBVIOUS
    <3>2. a \in Seq(OwnMsg) /\ d \in Seq(HeardMsg)
      BY <1>6, <2>2, <3>1, ChannelMoves
    <3>3. own' = own \/ own' = a
      BY <1>10, <2>1, <3>1, Zenon DEF MonitorTells
    <3>4. dataRx' = dataRx \/ dataRx' = d
      BY <1>10, <2>1, <3>1, Zenon DEF MonitorTells
    <3> QED BY <1>6, <3>2, <3>3, <3>4
  <2>4. telling' \in Seq(TellMsg) /\ UNCHANGED << inbox, received, spent >>
    BY <1>6, <1>10, ChannelMoves DEF MonitorTells, linkVars
  <2> QED BY <1>3, <1>4, <1>5, <1>6, <2>3, <2>4
<1> QED BY <1>2, <1>7, <1>8, <1>9, <1>10 DEF SourceNext, ChannelsInv

LEMMA ChannelsNext ==
  ASSUME ChannelsInv, [Next]_vars
  PROVE  ChannelsInv'
<1>1. CASE LinkNext /\ UNCHANGED << edgeVars, monitorVars >>
  BY <1>1, ServiceChannels, ClientChannels, NetworkChannels DEF LinkNext
<1>2. CASE EdgeNext
  BY <1>2, MessageChannels, MiddleChannels, DataChannels, SourceChannels DEF EdgeNext
<1>3. CASE UNCHANGED vars
  BY <1>3 DEF ChannelsInv, LinkChannels, EdgeChannels, LinkState, EdgeState, vars, linkVars, edgeVars, monitorVars,
              serviceVars, clientVars, serverVars, messageVars, dataVars
<1> QED BY <1>1, <1>2, <1>3 DEF Next

LEMMA ChannelsType ==
  ASSUME ChannelsInv
  PROVE  TypeOK
<1>1. \A S \in {StatusMsg, HeardMsg, OwnMsg, ReadingMsg, BatchMsg} : \A q \in Seq(S) : q \in Seq(Message)
  <2>1. \A S \in {StatusMsg, HeardMsg, OwnMsg, ReadingMsg, BatchMsg} : S \subseteq Message
    BY MessagesAre, GroupsAre
  <2> QED BY <2>1, SeqMonotonic
<1>2. \A S \in {ForwardMsg, SendingMsg, RelayMsg, TellMsg} : \A q \in Seq(S) : q \in Seq(Sending)
  <2>1. \A S \in {ForwardMsg, SendingMsg, RelayMsg, TellMsg} : S \subseteq Sending
    BY SendsAre
  <2> QED BY <2>1, SeqMonotonic
<1>3. LinkTypeOK
  BY <1>1, <1>2 DEF ChannelsInv, LinkChannels, LinkState, LinkTypeOK
<1>4. buffer \in Rows /\ table \in Rows
  BY DEF ChannelsInv, EdgeState, KindRows
<1> QED BY <1>1, <1>2, <1>3, <1>4 DEF ChannelsInv, EdgeChannels, EdgeState, TypeOK

\* Every channel, vector and table holds what its readers expect, whatever the bounds and
\* the readings.
THEOREM TypeCorrect == Spec => []TypeOK
<1>1. Spec => []ChannelsInv
  BY ChannelsInit, ChannelsNext, PTL DEF Spec
<1> QED BY <1>1, ChannelsType, PTL
-----------------------------------------------------------------------------
(* A reading is in one place *)

\* What the edge has taken and not lost is in one place; what it has not taken, in none.
CopyInv ==
  /\ lost \subseteq received
  /\ \A r \in Readings : Copies(r) = IF r \in received \ lost THEN 1 ELSE 0

\* What is counted are numbers, and no reading is of a kind there is not.
LEMMA CountsAre ==
  ASSUME ChannelsInv, NEW r \in Readings
  PROVE  /\ Held(inbox, r) \in Nat /\ Held(own, r) \in Nat /\ Held(middle, r) \in Nat /\ Held(dataRx, r) \in Nat
         /\ Held(extracting, r) \in Nat /\ Held(batches, r) \in Nat /\ Held(handle, r) \in Nat
         /\ Held(outbound, r) \in Nat /\ Held(session, r) \in Nat
         /\ InHand(sending, r) \in Nat /\ InHand(relaying, r) \in Nat /\ InHand(forwarding, r) \in Nat
         /\ InRows(buffer, r) \in Nat /\ InRows(table, r) \in Nat /\ delivered[r] \in Nat
         /\ Kind(r) \in Kinds
<1>1. TypeOK
  BY ChannelsType
<1>2. Kind(r) \in Kinds
  BY StoreAssumption DEF Kind
<1>3. InRows(buffer, r) \in Nat /\ InRows(table, r) \in Nat
  BY <1>2, RowsMoves DEF ChannelsInv, EdgeState
<1> QED BY <1>1, <1>2, <1>3, HeldMoves, InHandMoves DEF TypeOK, LinkTypeOK

\* What a receive takes, what a send adds, and what is in a list of one.
LEMMA Received ==
  ASSUME NEW q \in Seq(Message), q # << >>, NEW r
  PROVE  /\ Held(q, r) = Carries(r, Head(q)) + Held(Tail(q), r)
         /\ Carries(r, Head(q)) \in Nat /\ Held(Tail(q), r) \in Nat /\ Head(q) \in Message
<1>1. Tail(q) \in Seq(Message) /\ Head(q) \in Message
  BY ChannelMoves
<1> QED BY <1>1, HeldMoves DEF Carries

LEMMA Sent ==
  ASSUME NEW q \in Seq(Message), NEW m \in Message, NEW r
  PROVE  Held(Append(q, m), r) = Held(q, r) + Carries(r, m) /\ Held(Append(q, m), r) \in Nat
<1>1. Carries(r, m) \in Nat
  BY DEF Carries
<1>2. Held(q, r) \in Nat /\ Held(Append(q, m), r) = Held(q, r) + Carries(r, m)
  BY HeldMoves
<1> QED BY <1>1, <1>2

LEMMA Taken ==
  ASSUME NEW to, NEW m \in Message, NEW r, Send(to, m) \in Sending
  PROVE  InHand(<< Send(to, m) >>, r) = Carries(r, m) /\ Carries(r, m) \in Nat /\ InHand(<< >>, r) = 0
<1>1. PICK s \in Sending : s = Send(to, m)
  OBVIOUS
<1>2. << >> \in Seq(Sending)
  OBVIOUS
<1>3. InHand(<< s >>, r) = Carries(r, s.msg) /\ InHand(<< >>, r) = 0
  BY <1>2, InHandMoves
<1>4. s.msg = m
  BY <1>1, SendsAre
<1>5. Carries(r, m) \in Nat
  BY DEF Carries
<1> QED BY <1>1, <1>3, <1>4, <1>5, Zenon

LEMMA Released ==
  ASSUME NEW q \in Seq(Sending), q # << >>, NEW r
  PROVE  /\ InHand(q, r) = Carries(r, Head(q).msg) + InHand(Tail(q), r)
         /\ Carries(r, Head(q).msg) \in Nat /\ InHand(Tail(q), r) \in Nat /\ Head(q).msg \in Message
<1>1. Tail(q) \in Seq(Sending) /\ Head(q) \in Sending
  BY ChannelMoves
<1>2. Head(q).msg \in Message
  BY <1>1 DEF Sending
<1> QED BY <1>1, <1>2, InHandMoves DEF Carries

LEMMA ReleasedAll ==
  ASSUME NEW q \in Seq(Sending), q # << >>, Len(q) <= 1, NEW r
  PROVE  InHand(q, r) = Carries(r, Head(q).msg) /\ Carries(r, Head(q).msg) \in Nat /\ Head(q).msg \in Message
<1>1. PICK s \in Sending : s = Head(q) /\ q = << s >>
  BY OnlyElement
<1>2. << >> \in Seq(Sending)
  OBVIOUS
<1>3. InHand(<< s >>, r) = Carries(r, s.msg)
  BY <1>2, InHandMoves
<1>4. s.msg \in Message
  BY DEF Sending
<1>5. Carries(r, s.msg) \in Nat
  BY DEF Carries
<1> QED BY <1>1, <1>3, <1>4, <1>5, Zenon

\* A status carries no reading.
LEMMA StatusCarries ==
  \A r : \A m \in StatusMsg \cup ReportMsg : Carries(r, m) = 0
BY MessagesAre DEF Carries

\* A step that loses and receives nothing, and moves copies from one place to another.
LEMMA ServiceCopies ==
  ASSUME ChannelsInv, CopyInv, ServiceNext, UNCHANGED << edgeVars, monitorVars >>
  PROVE  CopyInv'
<1>1. UNCHANGED << own, sending, middle, relaying, dataRx, buffer, table, extracting, batches, received,
                   session, lost, delivered >>
  BY DEF edgeVars, messageVars, dataVars, monitorVars, clientVars, serverVars, ServiceNext, ForwardUpload, ForwardEvent, ForwardSend
<1>2. TypeOK
  BY ChannelsType
<1> SUFFICES ASSUME NEW r \in Readings PROVE Copies(r)' = Copies(r)
  BY <1>1 DEF CopyInv
<1>. USE CountsAre
<1>3. ASSUME ForwardUpload PROVE Copies(r)' = Copies(r)
  <2>1. PICK m \in Message : m = Head(handle)
    BY <1>2, <1>3, ChannelMoves DEF ForwardUpload, TypeOK, LinkTypeOK
  <2>2. forwarding = << >> /\ forwarding' = << Send("outbound", m) >> /\ handle # << >> /\ handle' = Tail(handle)
    BY <1>3, <2>1, Zenon DEF ForwardUpload
  <2>3. Held(handle, r) = Carries(r, m) + Held(handle', r) /\ Held(handle', r) \in Nat
    BY <1>2, <2>1, <2>2, Received DEF TypeOK, LinkTypeOK
  <2>4. InHand(forwarding, r) = 0 /\ InHand(forwarding', r) = Carries(r, m) /\ Carries(r, m) \in Nat
    <3>1. Send("outbound", m) \in Sending
      BY SendsAre
    <3> QED BY <2>2, <3>1, Taken, Zenon
  <2>5. UNCHANGED << inbox, outbound >>
    BY <1>3 DEF ForwardUpload
  <2> QED BY <1>1, <2>3, <2>4, <2>5, CountsAre DEF Copies
<1>4. ASSUME ForwardEvent PROVE Copies(r)' = Copies(r)
  <2>1. PICK m \in StatusMsg : m = Head(grpcEvents)
    BY <1>4, ChannelMoves DEF ForwardEvent, ChannelsInv, LinkChannels
  <2>2. forwarding = << >> /\ forwarding' = << Send("inbox", m) >>
    BY <1>4, <2>1, Zenon DEF ForwardEvent
  <2>3. InHand(forwarding, r) = 0 /\ InHand(forwarding', r) = 0
    <3>1. Send("inbox", m) \in Sending /\ m \in Message /\ Carries(r, m) = 0
      BY SendsAre, MessagesAre, StatusCarries
    <3> QED BY <2>2, <3>1, Taken, Zenon
  <2>4. UNCHANGED << handle, inbox, outbound >>
    BY <1>4 DEF ForwardEvent
  <2> QED BY <1>1, <2>3, <2>4 DEF Copies
<1>5. ASSUME ForwardSend PROVE Copies(r)' = Copies(r)
  <2>1. PICK m \in Message : m = Head(forwarding).msg /\ InHand(forwarding, r) = Carries(r, m) /\ Carries(r, m) \in Nat
    BY <1>2, <1>5, ReleasedAll DEF ForwardSend, TypeOK, LinkTypeOK
  <2>2. InHand(forwarding', r) = 0 /\ handle' = handle
    <3>1. << >> \in Seq(Sending)
      OBVIOUS
    <3> QED BY <1>5, <3>1, InHandMoves DEF ForwardSend
  <2>3. \/ outbound' = Append(outbound, m) /\ inbox' = inbox
        \/ inbox' = Append(inbox, m) /\ outbound' = outbound
    BY <1>5, <2>1, Zenon DEF ForwardSend
  <2>4. CASE outbound' = Append(outbound, m) /\ inbox' = inbox
    <3>1. Held(outbound', r) = Held(outbound, r) + Carries(r, m) /\ Held(outbound', r) \in Nat /\ inbox' = inbox
      BY <1>2, <2>4, Sent DEF TypeOK, LinkTypeOK
    <3> QED BY <1>1, <2>1, <2>2, <3>1 DEF Copies
  <2>5. CASE inbox' = Append(inbox, m) /\ outbound' = outbound
    <3>1. Held(inbox', r) = Held(inbox, r) + Carries(r, m) /\ Held(inbox', r) \in Nat /\ outbound' = outbound
      BY <1>2, <2>5, Sent DEF TypeOK, LinkTypeOK
    <3> QED BY <1>1, <2>1, <2>2, <3>1 DEF Copies
  <2> QED BY <2>3, <2>4, <2>5
<1> QED BY <1>3, <1>4, <1>5 DEF ServiceNext

\* A stream that breaks loses what is in its session, and that is nowhere else.
LEMMA ClientCopies ==
  ASSUME ChannelsInv, CopyInv, ClientNext, UNCHANGED << edgeVars, monitorVars >>
  PROVE  CopyInv'
<1>1. UNCHANGED << own, sending, middle, relaying, dataRx, buffer, table, extracting, batches, received,
                   handle, forwarding, inbox, delivered >>
  BY DEF edgeVars, messageVars, dataVars, monitorVars, serviceVars, serverVars, ClientNext,
         Connect, Greet, Upload, StreamBreaks, Report, BackoffEnds
<1>2. outbound \in Seq(Message) /\ session \in Seq(Message)
  BY DEF ChannelsInv, LinkChannels
<1>3. ASSUME UNCHANGED << outbound, session, lost >> PROVE CopyInv'
  BY <1>1, <1>3 DEF CopyInv, Copies
<1>4. ASSUME Connect PROVE UNCHANGED << outbound, session, lost >>
  BY <1>4 DEF Connect, ChannelsInv, LinkState
<1>5. ASSUME Greet \/ Report \/ BackoffEnds PROVE UNCHANGED << outbound, session, lost >>
  BY <1>5 DEF Greet, Report, BackoffEnds
<1>6. ASSUME Upload PROVE CopyInv'
  <2> SUFFICES ASSUME NEW r \in Readings PROVE Copies(r)' = Copies(r)
    BY <1>1, <1>6 DEF CopyInv, Upload
  <2>1. PICK m \in Message : /\ m = Head(outbound) /\ Held(outbound, r) = Carries(r, m) + Held(outbound', r)
                             /\ Held(outbound', r) \in Nat /\ Carries(r, m) \in Nat
    BY <1>2, <1>6, Received DEF Upload
  <2>2. Held(session', r) = Held(session, r) + Carries(r, m) /\ Held(session', r) \in Nat
    BY <1>2, <1>6, <2>1, Sent DEF Upload
  <2>3. /\ Held(outbound, r) = Carries(r, m) + Held(outbound', r)
        /\ Held(outbound', r) \in Nat /\ Carries(r, m) \in Nat
    BY <2>1
  <2> QED BY <1>1, <2>2, <2>3, CountsAre DEF Copies
<1>7. ASSUME StreamBreaks PROVE CopyInv'
  <2>1. session' = << >> /\ lost \subseteq received /\ lost' \in SUBSET Readings
    <3>1. lost' \in SUBSET Readings
      <4>1. ChannelsInv'
        BY ClientChannels
      <4> QED BY <4>1 DEF ChannelsInv, LinkState
    <3> QED BY <1>7, <3>1 DEF StreamBreaks, CopyInv
  <2>2. ASSUME NEW r \in Readings
        PROVE  /\ r \in lost' => r \in received
               /\ Copies(r)' = IF r \in received \ lost' THEN 1 ELSE 0
    <3>1. \E c \in Nat : /\ Held(outbound, r) = c + Held(outbound', r) /\ Held(outbound', r) \in Nat
                         /\ r \in lost' <=> r \in lost \/ Held(session, r) # 0 \/ c # 0
      <4>1. Held(session, r) = 0 <=> r \notin ReadingsIn(session)
        BY <1>2, HeldMoves
      <4>2. CASE lost' = lost \cup ReadingsIn(session) /\ outbound' = outbound
        <5>1. Held(outbound, r) = 0 + Held(outbound', r) /\ Held(outbound', r) \in Nat
          BY <4>2, CountsAre
        <5> QED BY <4>1, <4>2, <5>1
      <4>3. CASE outbound # << >> /\ lost' = lost \cup ReadingsIn(session) \cup Head(outbound).of /\ outbound' = Tail(outbound)
        <5>1. PICK m : m = Head(outbound)
          OBVIOUS
        <5>2. Held(outbound, r) = Carries(r, m) + Held(outbound', r) /\ Held(outbound', r) \in Nat /\ Carries(r, m) \in Nat
          BY <1>2, <4>3, <5>1, Received
        <5>3. Carries(r, m) # 0 <=> r \in m.of
          BY DEF Carries
        <5>4. lost' = lost \cup ReadingsIn(session) \cup m.of
          BY <4>3, <5>1, Zenon
        <5> QED BY <4>1, <5>2, <5>3, <5>4
      <4> QED BY <1>7, <4>2, <4>3 DEF StreamBreaks
    <3>2. PICK c \in Nat : /\ Held(outbound, r) = c + Held(outbound', r) /\ Held(outbound', r) \in Nat
                           /\ r \in lost' <=> r \in lost \/ Held(session, r) # 0 \/ c # 0
      BY <3>1
    <3>3. Held(session', r) = 0
      BY <1>2, <2>1, HeldMoves, Zenon
    <3>4. Copies(r) = Copies(r)' + (Held(session, r) + c) /\ Copies(r)' \in Nat /\ Held(session, r) \in Nat
      <4>1. Held(outbound, r) = c + Held(outbound', r) /\ Held(outbound', r) \in Nat /\ c \in Nat
        BY <3>2
      <4>2. Held(session, r) \in Nat
        BY CountsAre
      <4>3. Copies(r) = Copies(r)' + (Held(session, r) + c)
        <5>1. PICK h \in Nat : h = Held(session, r)
          BY <4>2
        <5>2. PICK o \in Nat : o = Held(outbound', r) /\ Held(outbound, r) = c + o
          BY <4>1
        <5>3. Copies(r) = Copies(r)' + h + c
          BY <1>1, <3>3, <5>1, <5>2, CountsAre DEF Copies
        <5>4. Copies(r)' \in Nat
          BY <1>1, <3>3, <5>2, CountsAre DEF Copies
        <5> QED BY <5>1, <5>3, <5>4
      <4>4. Copies(r)' \in Nat
        BY <1>1, <3>3, <4>1, CountsAre DEF Copies
      <4> QED BY <4>2, <4>3, <4>4
    <3>5. Copies(r) = IF r \in received \ lost THEN 1 ELSE 0
      BY DEF CopyInv
    <3>6. CASE Held(session, r) + c = 0
      <4>1. Held(session, r) = 0 /\ c = 0
        BY <3>4, <3>6
      <4>2. Copies(r)' = Copies(r)
        BY <3>4, <4>1
      <4> QED BY <2>1, <3>2, <3>5, <4>1, <4>2
    <3>7. CASE Held(session, r) + c # 0
      <4>1. Copies(r) # 0 /\ Copies(r) <= 1
        BY <3>4, <3>5, <3>7
      <4>2. r \in received /\ r \notin lost /\ Copies(r) = 1
        BY <3>5, <4>1
      <4>3. Copies(r)' = 0
        BY <3>4, <3>7, <4>2
      <4>4. Held(session, r) # 0 \/ c # 0
        BY <3>7
      <4> QED BY <3>2, <4>2, <4>3, <4>4
    <3> QED BY <3>6, <3>7
  <2>3. received' = received
    BY <1>1
  <2> QED BY <2>1, <2>2, <2>3 DEF CopyInv
<1> QED BY <1>3, <1>4, <1>5, <1>6, <1>7 DEF ClientNext

\* What arrives at the server is out of the session.
LEMMA NetworkCopies ==
  ASSUME ChannelsInv, CopyInv, NetworkNext, UNCHANGED << edgeVars, monitorVars >>
  PROVE  CopyInv'
<1>1. UNCHANGED << own, sending, middle, relaying, dataRx, buffer, table, extracting, batches, received,
                   handle, forwarding, inbox, outbound, lost >>
  BY DEF edgeVars, messageVars, dataVars, monitorVars, serviceVars, clientVars, NetworkNext,
         Deliver, ServerGoes, ServerReturns
<1>2. ASSUME UNCHANGED << session, delivered >> PROVE CopyInv'
  BY <1>1, <1>2 DEF CopyInv, Copies
<1>3. ASSUME ServerGoes \/ ServerReturns PROVE UNCHANGED << session, delivered >>
  BY <1>3 DEF ServerGoes, ServerReturns, clientVars
<1>4. ASSUME Deliver PROVE CopyInv'
  <2> SUFFICES ASSUME NEW r \in Readings PROVE Copies(r)' = Copies(r)
    BY <1>1 DEF CopyInv
  <2>1. session \in Seq(Message) /\ session # << >> /\ session' = Tail(session) /\ delivered \in [Readings -> Nat]
    BY <1>4 DEF Deliver, ChannelsInv, LinkChannels, LinkState
  <2>2. PICK m : m = Head(session)
    OBVIOUS
  <2>3. Held(session, r) = Carries(r, m) + Held(session', r) /\ Held(session', r) \in Nat /\ Carries(r, m) \in Nat
    BY <2>1, <2>2, Received
  <2>4. delivered'[r] = IF r \in m.of THEN delivered[r] + 1 ELSE delivered[r]
    <3>1. delivered' = [x \in Readings |-> IF x \in m.of THEN delivered[x] + 1 ELSE delivered[x]]
      BY <1>4, <2>2, Zenon DEF Deliver
    <3> QED BY <3>1
  <2>5. delivered'[r] = delivered[r] + Carries(r, m) /\ delivered[r] \in Nat
    BY <2>1, <2>4 DEF Carries
  <2> QED BY <1>1, <2>3, <2>5, CountsAre DEF Copies
<1> QED BY <1>2, <1>3, <1>4 DEF NetworkNext

\* What MessageService::run receives it holds until it is sent.
LEMMA MessageCopies ==
  ASSUME ChannelsInv, CopyInv, MessageNext
  PROVE  CopyInv'
<1>1. UNCHANGED << relaying, dataRx, buffer, table, extracting, batches, received, forwarding, outbound, session, lost, delivered >>
  BY DEF linkVars, serviceVars, clientVars, serverVars, dataVars, monitorVars, MessageNext,
         TakeCommand, TakeMessage, MessageSend
<1>2. TypeOK
  BY ChannelsType
<1> SUFFICES ASSUME NEW r \in Readings PROVE Copies(r)' = Copies(r)
  BY <1>1 DEF CopyInv
<1>3. InHand(<< >>, r) = 0
  <2>1. << >> \in Seq(Sending)
    OBVIOUS
  <2> QED BY <2>1, InHandMoves
<1>4. ASSUME TakeCommand PROVE Copies(r)' = Copies(r)
  <2>1. PICK m \in OwnMsg : m = Head(own)
    BY <1>4, ChannelMoves DEF TakeCommand, ChannelsInv, EdgeChannels
  <2>2. Held(own, r) = Carries(r, m) + Held(own', r) /\ Held(own', r) \in Nat /\ Carries(r, m) \in Nat
    BY <1>2, <1>4, <2>1, Received DEF TakeCommand, TypeOK
  <2>3. InHand(sending, r) = 0 /\ InHand(sending', r) = Carries(r, m)
    <3>1. sending = << >>
      BY <1>4 DEF TakeCommand
    <3>2. CASE m.tag \in {"ServerConnected", "ServerDisconnected"}
      <4>1. sending' = sending
        BY <1>4, <2>1, <3>2, Zenon DEF TakeCommand
      <4>2. Carries(r, m) = 0
        BY <3>2, GroupsAre, StatusCarries
      <4> QED BY <1>3, <3>1, <4>1, <4>2
    <3>3. CASE m.tag \notin {"ServerConnected", "ServerDisconnected"}
      <4>1. sending' = Uploads(m)
        BY <1>4, <2>1, <3>3, Zenon DEF TakeCommand
      <4>2. InHand(Uploads(m), r) = Carries(r, m)
        BY GroupsAre, UploadsMoves, CountsAre
      <4> QED BY <1>3, <3>1, <4>1, <4>2, Zenon
    <3> QED BY <3>2, <3>3
  <2>4. UNCHANGED << handle, inbox, middle >>
    BY <1>4 DEF TakeCommand, linkVars, serviceVars
  <2> QED BY <1>1, <2>2, <2>3, <2>4, CountsAre DEF Copies
<1>5. ASSUME TakeMessage PROVE Copies(r)' = Copies(r)
  <2>1. PICK m \in HeardMsg : m = Head(inbox)
    BY <1>5, ChannelMoves DEF TakeMessage, ChannelsInv, LinkChannels
  <2>2. Held(inbox, r) = Carries(r, m) + Held(inbox', r) /\ Held(inbox', r) \in Nat /\ Carries(r, m) \in Nat
    BY <1>2, <1>5, <2>1, Received DEF TakeMessage, TypeOK, LinkTypeOK
  <2>3. InHand(sending, r) = 0 /\ InHand(sending', r) = Carries(r, m)
    <3>1. sending = << >>
      BY <1>5 DEF TakeMessage
    <3>2. CASE m.tag = "Reading"
      <4>1. PICK to \in {"own", "middleware"} : to = IF status = "ServerConnected" THEN "own" ELSE "middleware"
        OBVIOUS
      <4>2. sending' = << Send(to, m) >>
        BY <1>5, <2>1, <3>2, <4>1, Zenon DEF TakeMessage
      <4>3. Send(to, m) \in Sending /\ m \in Message
        BY <3>2, GroupsAre, SendsAre
      <4>4. InHand(<< Send(to, m) >>, r) = Carries(r, m)
        BY <4>3, Taken
      <4> QED BY <1>3, <3>1, <4>2, <4>4, Zenon
    <3>3. CASE m.tag # "Reading"
      <4>1. sending' = sending
        BY <1>5, <2>1, <3>3, Zenon DEF TakeMessage
      <4>2. Carries(r, m) = 0
        BY <3>3, GroupsAre, StatusCarries
      <4> QED BY <1>3, <3>1, <4>1, <4>2
    <3> QED BY <3>2, <3>3
  <2>4. UNCHANGED << handle, own, middle >>
    BY <1>5 DEF TakeMessage, serviceVars
  <2> QED BY <1>1, <2>2, <2>3, <2>4, CountsAre DEF Copies
<1>6. ASSUME MessageSend PROVE Copies(r)' = Copies(r)
  <2>1. PICK m \in Message : m = Head(sending).msg
    BY <1>2, <1>6, Released DEF MessageSend, TypeOK
  <2>2. InHand(sending, r) = Carries(r, m) + InHand(sending', r) /\ InHand(sending', r) \in Nat /\ Carries(r, m) \in Nat
    BY <1>2, <1>6, <2>1, Released DEF MessageSend, TypeOK
  <2>3. \/ own' = Append(own, m) /\ middle' = middle /\ handle' = handle
        \/ middle' = Append(middle, m) /\ own' = own /\ handle' = handle
        \/ handle' = Append(handle, m) /\ own' = own /\ middle' = middle
    BY <1>6, <2>1, Zenon DEF MessageSend
  <2>4. inbox' = inbox
    BY <1>6 DEF MessageSend
  <2>5. ASSUME own' = Append(own, m), middle' = middle, handle' = handle PROVE Copies(r)' = Copies(r)
    <3>1. Held(own', r) = Held(own, r) + Carries(r, m) /\ Held(own', r) \in Nat
      BY <1>2, <2>5, Sent DEF TypeOK
    <3>2. middle' = middle /\ handle' = handle
      BY <2>5
    <3> QED BY <1>1, <2>2, <2>4, <3>1, <3>2, CountsAre DEF Copies
  <2>6. ASSUME middle' = Append(middle, m), own' = own, handle' = handle PROVE Copies(r)' = Copies(r)
    <3>1. Held(middle', r) = Held(middle, r) + Carries(r, m) /\ Held(middle', r) \in Nat
      BY <1>2, <2>6, Sent DEF TypeOK
    <3>2. own' = own /\ handle' = handle
      BY <2>6
    <3> QED BY <1>1, <2>2, <2>4, <3>1, <3>2, CountsAre DEF Copies
  <2>7. ASSUME handle' = Append(handle, m), own' = own, middle' = middle PROVE Copies(r)' = Copies(r)
    <3>1. Held(handle', r) = Held(handle, r) + Carries(r, m) /\ Held(handle', r) \in Nat
      BY <1>2, <2>7, Sent DEF TypeOK, LinkTypeOK
    <3>2. own' = own /\ middle' = middle
      BY <2>7
    <3> QED BY <1>1, <2>2, <2>4, <3>1, <3>2, CountsAre DEF Copies
  <2> QED BY <2>3, <2>5, <2>6, <2>7
<1> QED BY <1>4, <1>5, <1>6 DEF MessageNext

\* The middleware holds a message until it is sent.
LEMMA MiddleCopies ==
  ASSUME ChannelsInv, CopyInv, MiddleNext
  PROVE  CopyInv'
<1>1. UNCHANGED << sending, buffer, table, extracting, received, handle, forwarding, outbound, session, inbox, lost, delivered >>
  BY DEF linkVars, serviceVars, clientVars, serverVars, messageVars, dataVars, monitorVars, MiddleNext,
         RelayReading, RelayBatch, RelaySend
<1>2. TypeOK
  BY ChannelsType
<1> SUFFICES ASSUME NEW r \in Readings PROVE Copies(r)' = Copies(r)
  BY <1>1 DEF CopyInv
<1>3. InHand(<< >>, r) = 0
  <2>1. << >> \in Seq(Sending)
    OBVIOUS
  <2> QED BY <2>1, InHandMoves
<1>4. ASSUME RelayReading PROVE Copies(r)' = Copies(r)
  <2>1. PICK m \in ReadingMsg : m = Head(middle)
    BY <1>4, ChannelMoves DEF RelayReading, ChannelsInv, EdgeChannels
  <2>2. Held(middle, r) = Carries(r, m) + Held(middle', r) /\ Held(middle', r) \in Nat /\ Carries(r, m) \in Nat
    BY <1>2, <1>4, <2>1, Received DEF RelayReading, TypeOK
  <2>3. InHand(relaying, r) = 0 /\ InHand(relaying', r) = Carries(r, m)
    <3>1. relaying = << >> /\ relaying' = << Send("data", m) >>
      BY <1>4, <2>1, Zenon DEF RelayReading
    <3>2. InHand(<< Send("data", m) >>, r) = Carries(r, m)
      BY MessagesAre, SendsAre, Taken
    <3> QED BY <1>3, <3>1, <3>2, Zenon
  <2>4. UNCHANGED << own, dataRx, batches >>
    BY <1>4 DEF RelayReading, messageVars
  <2> QED BY <1>1, <2>2, <2>3, <2>4, CountsAre DEF Copies
<1>5. ASSUME RelayBatch PROVE Copies(r)' = Copies(r)
  <2>1. PICK m \in BatchMsg : m = Head(batches)
    BY <1>5, ChannelMoves DEF RelayBatch, ChannelsInv, EdgeChannels
  <2>2. Held(batches, r) = Carries(r, m) + Held(batches', r) /\ Held(batches', r) \in Nat /\ Carries(r, m) \in Nat
    BY <1>2, <1>5, <2>1, Received DEF RelayBatch, TypeOK
  <2>3. InHand(relaying, r) = 0 /\ InHand(relaying', r) = Carries(r, m)
    <3>1. relaying = << >> /\ relaying' = << Send("own", m) >>
      BY <1>5, <2>1, Zenon DEF RelayBatch
    <3>2. InHand(<< Send("own", m) >>, r) = Carries(r, m)
      BY MessagesAre, SendsAre, Taken
    <3> QED BY <1>3, <3>1, <3>2, Zenon
  <2>4. UNCHANGED << own, dataRx, middle >>
    BY <1>5 DEF RelayBatch, messageVars
  <2> QED BY <1>1, <2>2, <2>3, <2>4, CountsAre DEF Copies
<1>6. ASSUME RelaySend PROVE Copies(r)' = Copies(r)
  <2>1. PICK m \in Message : m = Head(relaying).msg /\ InHand(relaying, r) = Carries(r, m) /\ Carries(r, m) \in Nat
    BY <1>2, <1>6, ReleasedAll DEF RelaySend, TypeOK
  <2>2. InHand(relaying, r) = Carries(r, m) /\ Carries(r, m) \in Nat
    BY <2>1
  <2>3. InHand(relaying', r) = 0
    BY <1>3, <1>6 DEF RelaySend
  <2>4. \/ dataRx' = Append(dataRx, m) /\ own' = own
        \/ own' = Append(own, m) /\ dataRx' = dataRx
    BY <1>6, <2>1, Zenon DEF RelaySend
  <2>5. UNCHANGED << middle, batches >>
    BY <1>6 DEF RelaySend
  <2>6. ASSUME dataRx' = Append(dataRx, m), own' = own PROVE Copies(r)' = Copies(r)
    <3>1. Held(dataRx', r) = Held(dataRx, r) + Carries(r, m) /\ Held(dataRx', r) \in Nat /\ own' = own
      BY <1>2, <2>6, Sent DEF TypeOK
    <3> QED BY <1>1, <2>2, <2>3, <2>5, <3>1, CountsAre DEF Copies
  <2>7. ASSUME own' = Append(own, m), dataRx' = dataRx PROVE Copies(r)' = Copies(r)
    <3>1. Held(own', r) = Held(own, r) + Carries(r, m) /\ Held(own', r) \in Nat /\ dataRx' = dataRx
      BY <1>2, <2>7, Sent DEF TypeOK
    <3> QED BY <1>1, <2>2, <2>3, <2>5, <3>1, CountsAre DEF Copies
  <2> QED BY <2>4, <2>6, <2>7
<1> QED BY <1>4, <1>5, <1>6 DEF MiddleNext

\* DataService::run holds a reading in its vectors, in the tables or in the batch it sends.
LEMMA DataCopies ==
  ASSUME ChannelsInv, CopyInv, DataNext, \A r \in Readings : Kind(r) \in Insertable
  PROVE  CopyInv'
<1>1. UNCHANGED << own, sending, middle, relaying, received, handle, forwarding, outbound, session, inbox, lost, delivered >>
  BY DEF linkVars, serviceVars, clientVars, serverVars, messageVars, monitorVars, DataNext,
         TakeReading, TakeStatus, FlushTick, ExtractTick, SendBatch
<1>2. TypeOK /\ KindRows(buffer) /\ KindRows(table)
  BY ChannelsType DEF ChannelsInv, EdgeState
<1> SUFFICES ASSUME NEW r \in Readings PROVE Copies(r)' = Copies(r)
  BY <1>1 DEF CopyInv
<1>3. Kind(r) \in Kinds
  BY CountsAre
<1>4. InRows(table, r) <= 1
  <2>1. Copies(r) <= 1
    BY DEF CopyInv
  <2> QED BY <2>1, CountsAre DEF Copies
<1>5. ASSUME TakeReading PROVE Copies(r)' = Copies(r)
  <2>1. PICK x \in Readings : \E rows :
           /\ Head(dataRx) \in ReadingMsg /\ Head(dataRx).of = {x} /\ Kind(x) \in Kinds
           /\ rows = [buffer EXCEPT ![Kind(x)] = Append(@, x)] /\ KindRows(rows)
           /\ \/ table' = Inserted(rows) /\ buffer' = NoRows
              \/ table' = table /\ buffer' = rows
    BY <1>5, TakeReadingIs, Zenon
  <2>2. PICK rows :
           /\ Head(dataRx) \in ReadingMsg /\ Head(dataRx).of = {x} /\ Kind(x) \in Kinds
           /\ rows = [buffer EXCEPT ![Kind(x)] = Append(@, x)] /\ KindRows(rows)
           /\ \/ table' = Inserted(rows) /\ buffer' = NoRows
              \/ table' = table /\ buffer' = rows
    BY <2>1
  <2>3. PICK m : m = Head(dataRx)
    OBVIOUS
  <2>4. Held(dataRx, r) = Carries(r, m) + Held(dataRx', r) /\ Held(dataRx', r) \in Nat /\ Carries(r, m) \in Nat
    BY <1>2, <1>5, <2>3, Received DEF TakeReading, TypeOK
  <2>5. InRows(rows, r) = InRows(buffer, r) + Carries(r, m) /\ InRows(rows, r) \in Nat
    <3>1. InRows([buffer EXCEPT ![Kind(x)] = Append(@, x)], r) = InRows(buffer, r) + (IF x = r THEN 1 ELSE 0)
      BY <1>2, <1>3, <2>2, RowsMoves
    <3>2. Carries(r, m) = IF x = r THEN 1 ELSE 0
      BY <2>2, <2>3 DEF Carries
    <3>3. InRows(rows, r) \in Nat
      BY <1>3, <2>2, RowsMoves
    <3> QED BY <2>2, <3>1, <3>2, <3>3, Zenon
  <2>6. InRows(table', r) + InRows(buffer', r) = InRows(table, r) + InRows(rows, r) /\ InRows(table', r) \in Nat /\ InRows(buffer', r) \in Nat
    <3>1. InRows(table, r) \in Nat /\ InRows(NoRows, r) = 0
      BY <1>2, <1>3, RowsMoves
    <3>2. CASE table' = Inserted(rows) /\ buffer' = NoRows
      <4>1. InRows(Inserted(rows), r) = InRows(table, r) + InRows(rows, r)
        BY <1>2, <1>3, <2>2, FlushMoves
      <4>2. InRows(table', r) = InRows(table, r) + InRows(rows, r) /\ InRows(buffer', r) = 0
        BY <3>1, <3>2, <4>1, Zenon
      <4> QED BY <2>5, <3>1, <4>2
    <3>3. CASE table' = table /\ buffer' = rows
      BY <2>5, <3>1, <3>3
    <3> QED BY <2>2, <3>2, <3>3
  <2>7. UNCHANGED << batches, extracting >>
    BY <1>5 DEF TakeReading
  <2>8. PICK c \in Nat, d \in Nat, t \in Nat, b \in Nat :
          /\ d = Held(dataRx', r) /\ Held(dataRx, r) = c + d
          /\ t = InRows(table', r) /\ b = InRows(buffer', r) /\ t + b = InRows(table, r) + InRows(buffer, r) + c
    <3>1. InRows(table', r) + InRows(buffer', r) = InRows(table, r) + InRows(buffer, r) + Carries(r, m)
      BY <2>4, <2>5, <2>6, CountsAre
    <3> QED BY <2>4, <2>6, <3>1
  <2>9. PICK v \in Nat, w \in Nat, u \in Nat : v = Held(dataRx, r) /\ w = InRows(buffer, r) /\ u = InRows(table, r)
    BY CountsAre
  <2>10. v + w + u = d + b + t
    BY <2>8, <2>9
  <2>11. \E R \in Nat : Copies(r) = R + (v + w + u) /\ Copies(r)' = R + (d + b + t)
    <3> DEFINE R ==   Held(inbox, r) + Held(own, r) + Held(middle, r) + Held(extracting, r)
                    + Held(batches, r) + Held(handle, r) + Held(outbound, r) + Held(session, r)
                    + InHand(sending, r) + InHand(relaying, r) + InHand(forwarding, r) + delivered[r]
    <3>1. R \in Nat
      BY CountsAre
    <3>2. Copies(r) = R + (v + w + u)
      <4>1. Copies(r) = R + (Held(dataRx, r) + InRows(buffer, r) + InRows(table, r))
        BY CountsAre DEF Copies
      <4> HIDE DEF R
      <4> QED BY <2>9, <4>1
    <3>3. Copies(r)' = R + (d + b + t)
      <4>1. d = Held(dataRx', r) /\ b = InRows(buffer', r) /\ t = InRows(table', r)
        BY <2>8
      <4> QED BY <1>1, <2>7, <4>1, CountsAre DEF Copies
    <3> QED BY <3>1, <3>2, <3>3
  <2> QED BY <2>10, <2>11
<1>6. ASSUME TakeStatus PROVE Copies(r)' = Copies(r)
  <2>1. PICK m \in StatusMsg : m = Head(dataRx)
    BY <1>6, ChannelMoves, GroupsAre DEF TakeStatus, ChannelsInv, EdgeChannels
  <2>2. Held(dataRx, r) = Carries(r, m) + Held(dataRx', r) /\ Held(dataRx', r) \in Nat
    BY <1>2, <1>6, <2>1, Received DEF TakeStatus, TypeOK
  <2>3. Carries(r, m) = 0
    BY StatusCarries
  <2>4. UNCHANGED << batches, extracting, buffer, table >>
    BY <1>6 DEF TakeStatus
  <2> QED BY <1>1, <2>2, <2>3, <2>4, CountsAre DEF Copies
<1>7. ASSUME FlushTick PROVE Copies(r)' = Copies(r)
  <2>1. InRows(Inserted(buffer), r) = InRows(table, r) + InRows(buffer, r)
    BY <1>2, <1>3, FlushMoves
  <2>2. InRows(NoRows, r) = 0
    BY <1>2, <1>3, RowsMoves
  <2>3. InRows(table', r) = InRows(table, r) + InRows(buffer, r) /\ InRows(buffer', r) = 0
    BY <1>7, <2>1, <2>2, Zenon DEF FlushTick, FlushToDb
  <2>4. UNCHANGED << batches, extracting, dataRx >>
    BY <1>7 DEF FlushTick
  <2> QED BY <1>1, <2>3, <2>4, CountsAre DEF Copies
<1>8. ASSUME PopBatch
      PROVE  /\ InRows(table', r) + Held(extracting', r) = InRows(table, r)
             /\ InRows(table', r) \in Nat /\ Held(extracting', r) \in Nat
  <2>1. InRows(table', r) + Held(extracting', r) = InRows(table, r)
    BY <1>2, <1>3, <1>4, <1>8, PopMoves
  <2>2. ChannelsInv'
    BY DataChannels
  <2>3. KindRows(table') /\ extracting' \in Seq(BatchMsg)
    BY <2>2 DEF ChannelsInv, EdgeChannels, EdgeState
  <2>4. extracting' \in Seq(Message)
    BY <2>3, MessagesAre, SeqMonotonic
  <2> QED BY <1>3, <2>1, <2>3, <2>4, HeldMoves, RowsMoves
<1>9. ASSUME ExtractTick PROVE Copies(r)' = Copies(r)
  <2>1. extracting = << >> /\ PopBatch /\ UNCHANGED << dataRx, buffer, batches >>
    BY <1>9 DEF ExtractTick
  <2>2. Held(extracting, r) = 0
    BY <1>2, <2>1, HeldMoves DEF TypeOK
  <2>3. PICK t \in Nat, e \in Nat : t = InRows(table', r) /\ e = Held(extracting', r) /\ t + e = InRows(table, r)
    BY <1>8, <2>1
  <2>4. dataRx' = dataRx /\ buffer' = buffer /\ batches' = batches
    BY <2>1
  <2> QED BY <1>1, <2>2, <2>3, <2>4, CountsAre DEF Copies
<1>10. ASSUME SendBatch PROVE Copies(r)' = Copies(r)
  <2>1. PICK m \in BatchMsg : m = Head(extracting) /\ extracting = << m >>
    BY <1>10, OnlyElement DEF SendBatch, ChannelsInv, EdgeChannels
  <2>2. Held(extracting, r) = Carries(r, m) /\ Carries(r, m) \in Nat
    <3>1. Held(<< m >>, r) = Carries(r, m)
      BY <1>2, MessagesAre, HeldMoves, ZenonT(60) DEF TypeOK
    <3> QED BY <2>1, <3>1, Zenon DEF Carries
  <2>3. Held(batches', r) = Held(batches, r) + Carries(r, m) /\ Held(batches', r) \in Nat
    <3>1. batches' = Append(batches, m)
      BY <1>10, <2>1, Zenon DEF SendBatch
    <3> QED BY <1>2, <3>1, MessagesAre, Sent DEF TypeOK
  <2>4. PopBatch /\ dataRx' = dataRx /\ buffer' = buffer
    BY <1>10 DEF SendBatch
  <2>5. PICK t \in Nat, e \in Nat : t = InRows(table', r) /\ e = Held(extracting', r) /\ t + e = InRows(table, r)
    BY <1>8, <2>4
  <2>6. dataRx' = dataRx /\ buffer' = buffer
    BY <2>4
  <2> QED BY <1>1, <2>2, <2>3, <2>5, <2>6, CountsAre DEF Copies
<1> QED BY <1>5, <1>6, <1>7, <1>9, <1>10 DEF DataNext

\* A reading that a hub publishes is new, and goes into one channel.
LEMMA SourceCopies ==
  ASSUME ChannelsInv, CopyInv, SourceNext
  PROVE  CopyInv'
<1>1. UNCHANGED << sending, middle, relaying, buffer, table, extracting, batches, handle, forwarding, outbound, session, lost, delivered >>
  BY DEF SourceNext, HubPublishes, EdgeStateTick, MonitorTurns, MonitorTells, linkVars, edgeVars, messageVars,
         serviceVars, clientVars, serverVars, dataVars
<1>2. TypeOK
  BY ChannelsType
<1>3. ASSUME received' = received, \A r \in Readings : Copies(r)' = Copies(r) PROVE CopyInv'
  BY <1>1, <1>3 DEF CopyInv
<1>4. ASSUME HubPublishes PROVE CopyInv'
  <2>1. PICK x \in Readings \ received : received' = received \cup {x} /\ inbox' = Append(inbox, [tag |-> "Reading", of |-> {x}])
    BY <1>4 DEF HubPublishes
  <2>2. UNCHANGED << own, dataRx >>
    BY <1>4 DEF HubPublishes, edgeVars, messageVars
  <2>3. ASSUME NEW r \in Readings PROVE Copies(r)' = IF r \in received' \ lost' THEN 1 ELSE 0
    <3>1. PICK m \in Message : m = [tag |-> "Reading", of |-> {x}] /\ m.of = {x}
      <4>1. [tag |-> "Reading", of |-> {x}] \in Message /\ [tag |-> "Reading", of |-> {x}].of = {x}
        BY MessagesAre
      <4> QED BY <4>1
    <3>2. Held(inbox', r) = Held(inbox, r) + Carries(r, m) /\ Held(inbox', r) \in Nat
      BY <1>2, <2>1, <3>1, Sent DEF TypeOK, LinkTypeOK
    <3>3. Carries(r, m) = IF r = x THEN 1 ELSE 0
      BY <3>1 DEF Carries
    <3>4. Carries(r, m) \in Nat
      BY DEF Carries
    <3>5. Copies(r)' = Copies(r) + Carries(r, m)
      <4>1. PICK c \in Nat, i \in Nat : c = Carries(r, m) /\ i = Held(inbox', r) /\ i = Held(inbox, r) + c
        BY <3>2, <3>4
      <4>2. Copies(r)' = Copies(r) + c
        <5>1. PICK o \in Nat : o = Held(inbox, r)
          BY CountsAre
        <5>2. Held(inbox', r) = o + c
          BY <4>1, <5>1
        <5> QED BY <1>1, <2>2, <5>1, <5>2, CountsAre DEF Copies
      <4> QED BY <4>1, <4>2
    <3>6. lost \subseteq received /\ Copies(r) = IF r \in received \ lost THEN 1 ELSE 0
      BY DEF CopyInv
    <3>7. lost' = lost
      BY <1>1
    <3>8. CASE r = x
      <4>1. Copies(r) = 0 /\ Carries(r, m) = 1 /\ r \in received' \ lost'
        BY <2>1, <3>3, <3>6, <3>7, <3>8
      <4> QED BY <3>5, <4>1
    <3>9. CASE r # x
      <4>1. Carries(r, m) = 0 /\ (r \in received' \ lost' <=> r \in received \ lost)
        BY <2>1, <3>3, <3>7, <3>9
      <4> QED BY <3>5, <3>6, <4>1
    <3> QED BY <3>8, <3>9
  <2>4. lost' \subseteq received'
    BY <1>1, <2>1 DEF CopyInv
  <2> QED BY <2>3, <2>4 DEF CopyInv
<1>5. ASSUME EdgeStateTick PROVE CopyInv'
  <2>1. received' = received /\ UNCHANGED << inbox, dataRx >>
    BY <1>5 DEF EdgeStateTick, linkVars
  <2>2. PICK m \in ReportMsg : own' = Append(own, m)
    BY <1>5, MessagesAre DEF EdgeStateTick
  <2>3. ASSUME NEW r \in Readings PROVE Copies(r)' = Copies(r)
    <3>1. m \in Message /\ Carries(r, m) = 0
      BY MessagesAre, StatusCarries
    <3>2. Held(own', r) = Held(own, r) + Carries(r, m) /\ Held(own', r) \in Nat
      BY <1>2, <2>2, <3>1, Sent DEF TypeOK
    <3> QED BY <1>1, <2>1, <3>1, <3>2, CountsAre DEF Copies
  <2> QED BY <1>3, <2>1, <2>3
<1>6. ASSUME MonitorTurns PROVE CopyInv'
  <2>1. received' = received /\ UNCHANGED << inbox, own, dataRx >>
    BY <1>6 DEF MonitorTurns, linkVars, edgeVars, messageVars
  <2>2. \A r \in Readings : Copies(r)' = Copies(r)
    BY <1>1, <2>1 DEF Copies
  <2> QED BY <1>3, <2>1, <2>2
<1>7. ASSUME MonitorTells PROVE CopyInv'
  <2>1. received' = received /\ inbox' = inbox
    BY <1>7 DEF MonitorTells, linkVars
  <2>2. PICK s \in TellMsg : s = Head(telling)
    BY <1>7, ChannelMoves DEF MonitorTells, ChannelsInv, EdgeChannels
  <2>3. PICK m \in StatusMsg : m = s.msg
    BY SendsAre
  <2>4. \/ dataRx' = Append(dataRx, m) /\ own' = own
        \/ own' = Append(own, m) /\ dataRx' = dataRx
    BY <1>7, <2>2, <2>3, Zenon DEF MonitorTells
  <2>5. ASSUME NEW r \in Readings PROVE Copies(r)' = Copies(r)
    <3>1. m \in Message /\ Carries(r, m) = 0
      BY MessagesAre, StatusCarries
    <3>2. CASE dataRx' = Append(dataRx, m) /\ own' = own
      <4>1. Held(dataRx', r) = Held(dataRx, r) + Carries(r, m) /\ Held(dataRx', r) \in Nat /\ own' = own
        BY <1>2, <3>1, <3>2, Sent DEF TypeOK
      <4> QED BY <1>1, <2>1, <3>1, <4>1, CountsAre DEF Copies
    <3>3. CASE own' = Append(own, m) /\ dataRx' = dataRx
      <4>1. Held(own', r) = Held(own, r) + Carries(r, m) /\ Held(own', r) \in Nat /\ dataRx' = dataRx
        BY <1>2, <3>1, <3>3, Sent DEF TypeOK
      <4> QED BY <1>1, <2>1, <3>1, <4>1, CountsAre DEF Copies
    <3> QED BY <2>4, <3>2, <3>3
  <2> QED BY <1>3, <2>1, <2>5
<1> QED BY <1>4, <1>5, <1>6, <1>7 DEF SourceNext

\* At the start nothing has been taken.
LEMMA CopyInit ==
  ASSUME Init
  PROVE  CopyInv
<1>1. ASSUME NEW r \in Readings PROVE Copies(r) = 0
  <2>1. << >> \in Seq(Message) /\ << >> \in Seq(Sending)
    OBVIOUS
  <2>2. Held(<< >>, r) = 0 /\ InHand(<< >>, r) = 0
    BY <2>1, HeldMoves, InHandMoves
  <2>3. InRows(NoRows, r) = 0
    <3>1. Kind(r) \in Kinds
      BY StoreAssumption DEF Kind
    <3> QED BY <3>1, NoRowsAre, RowsMoves
  <2>4. delivered[r] = 0
    BY DEF Init, LinkInit
  <2>5. /\ Held(inbox, r) = 0 /\ Held(own, r) = 0 /\ Held(middle, r) = 0 /\ Held(dataRx, r) = 0
        /\ Held(extracting, r) = 0 /\ Held(batches, r) = 0 /\ Held(handle, r) = 0
        /\ Held(outbound, r) = 0 /\ Held(session, r) = 0
        /\ InHand(sending, r) = 0 /\ InHand(relaying, r) = 0 /\ InHand(forwarding, r) = 0
        /\ InRows(buffer, r) = 0 /\ InRows(table, r) = 0
    BY <2>2, <2>3, Zenon DEF Init, LinkInit
  <2> QED BY <2>4, <2>5 DEF Copies
<1>2. received = {} /\ lost = {}
  BY DEF Init, LinkInit
<1> QED BY <1>1, <1>2 DEF CopyInv

LEMMA CopyNext ==
  ASSUME ChannelsInv, CopyInv, [Next]_vars, \A r \in Readings : Kind(r) \in Insertable
  PROVE  CopyInv'
<1>1. CASE LinkNext /\ UNCHANGED << edgeVars, monitorVars >>
  BY <1>1, ServiceCopies, ClientCopies, NetworkCopies DEF LinkNext
<1>2. CASE EdgeNext
  BY <1>2, MessageCopies, MiddleCopies, DataCopies, SourceCopies DEF EdgeNext
<1>3. CASE UNCHANGED vars
  BY <1>3 DEF CopyInv, Copies, vars, linkVars, edgeVars, monitorVars, serviceVars, clientVars, serverVars, messageVars, dataVars
<1> QED BY <1>1, <1>2, <1>3 DEF Next

\* A reading the edge has taken is in exactly one place, or at the server, or was lost with
\* the stream that carried it: when every reading is of the kind whose table has the columns
\* of the INSERT.  Of the other kinds the code loses readings: that is the finding of
\* StoreForwardSchema.
THEOREM ConservedCorrect ==
  ASSUME \A r \in Readings : Kind(r) \in Insertable
  PROVE  Spec => []Conserved
<1>1. ASSUME Init PROVE ChannelsInv /\ CopyInv
  BY <1>1, ChannelsInit, CopyInit
<1>2. ASSUME ChannelsInv /\ CopyInv, [Next]_vars PROVE (ChannelsInv /\ CopyInv)'
  BY <1>2, ChannelsNext, CopyNext
<1>3. ASSUME ChannelsInv /\ CopyInv PROVE Conserved
  <2>1. received \subseteq Readings
    BY <1>3 DEF ChannelsInv, EdgeState
  <2> QED BY <1>3, <2>1 DEF CopyInv, Conserved
<1> QED BY <1>1, <1>2, <1>3, PTL DEF Spec
=============================================================================
