--------------------------- MODULE SequenceLemmas ---------------------------
(***************************************************************************)
(* What the channels of the tasks and the lists of what a task has still   *)
(* to do are, position by position: after a receive, after a send, and     *)
(* when a list is made of parts.                                           *)
(***************************************************************************)
EXTENDS Sequences, Naturals, SequenceTheorems, TLAPS

\* A channel is empty when it has length zero.
LEMMA EmptyLength ==
  ASSUME NEW S, NEW q \in Seq(S)
  PROVE  /\ q = << >> <=> Len(q) = 0
         /\ Len(q) \in Nat /\ DOMAIN q = 1 .. Len(q)
BY EmptySeq

\* A receive takes the first message and moves the others up by one.
LEMMA TailElements ==
  ASSUME NEW S, NEW q \in Seq(S), q # << >>
  PROVE  /\ Head(q) = q[1] /\ q[1] \in S /\ 1 \in DOMAIN q
         /\ Tail(q) \in Seq(S) /\ Len(Tail(q)) = Len(q) - 1 /\ Len(q) \in Nat \ {0}
         /\ \A i \in DOMAIN Tail(q) : i \in Nat \ {0} /\ i + 1 \in DOMAIN q /\ Tail(q)[i] = q[i + 1]
         /\ \A i \in DOMAIN q : i = 1 \/ (i - 1 \in DOMAIN Tail(q) /\ q[i] = Tail(q)[i - 1])
OBVIOUS

\* A send puts the message behind the others.
LEMMA AppendElements ==
  ASSUME NEW S, NEW q \in Seq(S), NEW x \in S
  PROVE  /\ Append(q, x) \in Seq(S) /\ Len(Append(q, x)) = Len(q) + 1 /\ Append(q, x) # << >>
         /\ Append(q, x)[Len(q) + 1] = x /\ Len(q) + 1 \in DOMAIN Append(q, x)
         /\ \A i \in DOMAIN q : i \in DOMAIN Append(q, x) /\ Append(q, x)[i] = q[i]
         /\ \A i \in DOMAIN Append(q, x) : i = Len(q) + 1 \/ i \in DOMAIN q
OBVIOUS

\* A list with a step put before it.
LEMMA ConsElements ==
  ASSUME NEW S, NEW x \in S, NEW q \in Seq(S)
  PROVE  /\ << x >> \o q \in Seq(S) /\ Len(<< x >> \o q) = Len(q) + 1
         /\ (<< x >> \o q)[1] = x
         /\ \A i \in DOMAIN q : i + 1 \in DOMAIN (<< x >> \o q) /\ (<< x >> \o q)[i + 1] = q[i]
         /\ \A i \in DOMAIN (<< x >> \o q) : i = 1 \/ i - 1 \in DOMAIN q
BY ConcatProperties

\* One step before two makes three.
LEMMA ConsPair ==
  ASSUME NEW S, NEW a \in S, NEW b \in S, NEW c \in S
  PROVE  << a >> \o << b, c >> = << a, b, c >>
<1>1. PICK q : q = << b, c >>
  OBVIOUS
<1>2. q \in Seq(S)
  BY <1>1
<1> DEFINE e == << a >> \o q
           f == << a, b, c >>
<1>3. /\ e \in Seq(S) /\ Len(e) = Len(q) + 1 /\ e[1] = a
      /\ \A i \in DOMAIN q : i + 1 \in DOMAIN e /\ e[i + 1] = q[i]
  BY <1>2, ConsElements
<1>4. f \in Seq(S) /\ Len(f) = 3 /\ f[1] = a /\ f[2] = b /\ f[3] = c
  OBVIOUS
<1>5. e = << a >> \o << b, c >>
  BY <1>1
<1> HIDE DEF e, f
<1>6. Len(e) = 3 /\ e[2] = b /\ e[3] = c
  <2>1. Len(q) = 2 /\ DOMAIN q = 1 .. 2 /\ q[1] = b /\ q[2] = c
    BY <1>1
  <2> QED BY <2>1, <1>3
<1>7. \A i \in 1 .. 3 : e[i] = f[i]
  <2>1. \A i \in 1 .. 3 : i = 1 \/ i = 2 \/ i = 3
    OBVIOUS
  <2> QED BY <2>1, <1>3, <1>4, <1>6
<1>8. e = f
  BY <1>3, <1>4, <1>6, <1>7, SeqEqual
<1> QED BY <1>5, <1>8 DEF f

\* Lists of one, two and three, one element at a time.
LEMMA AppendIsList ==
  ASSUME NEW S, NEW a \in S, NEW b \in S, NEW c \in S
  PROVE  Append(<< >>, a) = << a >> /\ Append(<< a >>, b) = << a, b >> /\ Append(<< a, b >>, c) = << a, b, c >>
<1>1. /\ << >> \in Seq(S) /\ << a >> \in Seq(S) /\ << a, b >> \in Seq(S) /\ << a, b, c >> \in Seq(S)
      /\ Len(<< >>) = 0 /\ Len(<< a >>) = 1 /\ Len(<< a, b >>) = 2 /\ Len(<< a, b, c >>) = 3
  OBVIOUS
<1>2. ASSUME NEW q \in Seq(S), NEW r \in Seq(S), NEW x \in S, Len(r) = Len(q) + 1, r[Len(q) + 1] = x,
             \A i \in 1 .. Len(q) : r[i] = q[i]
      PROVE  Append(q, x) = r
  <2>1. Append(q, x) \in Seq(S) /\ Len(Append(q, x)) = Len(q) + 1
    BY <1>2
  <2>2. \A i \in 1 .. Len(q) + 1 : Append(q, x)[i] = r[i]
    BY <1>2
  <2>3. \A i \in 1 .. Len(Append(q, x)) : Append(q, x)[i] = r[i]
    BY <2>1, <2>2
  <2> QED BY <1>2, <2>1, <2>3, SeqEqual
<1>3. Append(<< >>, a) = << a >>
  <2>1. << a >>[Len(<< >>) + 1] = a
    BY <1>1
  <2> QED BY <1>1, <1>2, <2>1
<1>4. Append(<< a >>, b) = << a, b >>
  <2>1. PICK q, r : q = << a >> /\ r = << a, b >>
    OBVIOUS
  <2>2. /\ q \in Seq(S) /\ r \in Seq(S) /\ Len(q) = 1 /\ Len(r) = 2
        /\ r[2] = b /\ r[1] = q[1]
    BY <1>1, <2>1
  <2>3. Len(r) = Len(q) + 1 /\ r[Len(q) + 1] = b /\ \A i \in 1 .. Len(q) : r[i] = q[i]
    BY <2>2
  <2>4. Append(q, b) = r
    BY <1>2, <2>2, <2>3, Zenon
  <2> QED BY <2>1, <2>4, Zenon
<1>5. Append(<< a, b >>, c) = << a, b, c >>
  <2>1. PICK q, r : q = << a, b >> /\ r = << a, b, c >>
    OBVIOUS
  <2>2. /\ q \in Seq(S) /\ r \in Seq(S) /\ Len(q) = 2 /\ Len(r) = 3
        /\ r[3] = c /\ r[1] = q[1] /\ r[2] = q[2]
    BY <1>1, <2>1
  <2>3. Len(r) = Len(q) + 1 /\ r[Len(q) + 1] = c /\ \A i \in 1 .. Len(q) : r[i] = q[i]
    BY <2>2
  <2>4. Append(q, c) = r
    BY <1>2, <2>2, <2>3, Zenon
  <2> QED BY <2>1, <2>4, Zenon
<1> QED BY <1>3, <1>4, <1>5

\* A list of at most one element that is not empty is that element.
LEMMA OnlyElement ==
  ASSUME NEW S, NEW q \in Seq(S), q # << >>, Len(q) <= 1
  PROVE  Head(q) \in S /\ q = << Head(q) >>
<1>1. PICK x : x = Head(q)
  OBVIOUS
<1>2. PICK r : r = << x >>
  OBVIOUS
<1>3. x \in S /\ q[1] = x /\ Len(q) = 1
  <2>1. Head(q) = q[1] /\ q[1] \in S /\ Len(q) \in Nat \ {0}
    BY TailElements
  <2>2. \A n \in Nat \ {0} : n <= 1 => n = 1
    OBVIOUS
  <2> QED BY <1>1, <2>1, <2>2, Zenon
<1>4. r \in Seq(S) /\ Len(r) = 1 /\ r[1] = x
  BY <1>2, <1>3
<1>5. \A i \in 1 .. Len(q) : q[i] = r[i]
  BY <1>3, <1>4
<1>6. q = r
  BY <1>3, <1>4, <1>5, SeqEqual
<1> QED BY <1>1, <1>2, <1>3, <1>6, Zenon

\* The message that was sent last.
Newest(q) == q[Len(q)]

\* A receive leaves the newest message the newest, unless it was the only one.
LEMMA NewestOfTail ==
  ASSUME NEW S, NEW q \in Seq(S), q # << >>
  PROVE  /\ Newest(q) \in S
         /\ Tail(q) # << >> => Newest(Tail(q)) = Newest(q)
         /\ Tail(q) = << >> => Newest(q) = Head(q)
<1>1. Len(q) \in Nat \ {0} /\ Tail(q) \in Seq(S) /\ Len(Tail(q)) = Len(q) - 1 /\ Head(q) = q[1]
  BY TailElements
<1>2. Newest(q) \in S
  BY <1>1 DEF Newest
<1>3. CASE Tail(q) # << >>
  <2>1. Len(Tail(q)) \in DOMAIN Tail(q)
    BY <1>1, <1>3, EmptyLength
  <2>2. Tail(q)[Len(Tail(q))] = q[Len(Tail(q)) + 1]
    BY <2>1, TailElements
  <2> QED BY <1>1, <1>2, <1>3, <2>2 DEF Newest
<1>4. CASE Tail(q) = << >>
  <2>1. Len(Tail(q)) = 0
    BY <1>1, <1>4, EmptyLength
  <2>2. Len(q) = 1
    <3>1. \A n \in Nat \ {0} : n - 1 = 0 => n = 1
      OBVIOUS
    <3> QED BY <1>1, <2>1, <3>1, Zenon
  <2> QED BY <1>1, <1>2, <1>4, <2>2 DEF Newest
<1> QED BY <1>3, <1>4

\* A send makes its message the newest.
LEMMA NewestOfAppend ==
  ASSUME NEW S, NEW q \in Seq(S), NEW x \in S
  PROVE  Newest(Append(q, x)) = x /\ Append(q, x) # << >>
BY AppendElements DEF Newest

\* A channel and what its sender is blocked with (at most one message) are one list: a
\* send, blocked or not, appends to it.
LEMMA BlockedSend ==
  ASSUME NEW S, NEW q \in Seq(S), NEW x \in S
  PROVE  q \o << >> = q /\ Append(q, x) \o << >> = Append(q, x) /\ q \o << x >> = Append(q, x)
<1>1. Append(q, x) \in Seq(S)
  BY AppendElements
<1>2. q \o << >> = q /\ Append(q, x) \o << >> = Append(q, x)
  BY <1>1, ConcatEmptySeq
<1>3. q \o << x >> = Append(q, x)
  BY AppendIsConcat
<1> QED BY <1>2, <1>3

\* A receive from the channel takes the head of that list.
LEMMA BlockedReceive ==
  ASSUME NEW S, NEW q \in Seq(S), NEW r \in Seq(S), q # << >>
  PROVE  /\ q \o r \in Seq(S) /\ q \o r # << >>
         /\ Head(q \o r) = Head(q) /\ Tail(q \o r) = Tail(q) \o r
BY ConcatProperties
-----------------------------------------------------------------------------
(* What matters in a list: the last of its elements that are in W. *)

LastIn(q, W, T) == \E i \in DOMAIN q : q[i] \in W \cap T /\ \A j \in DOMAIN q : j > i => q[j] \notin W
NoneIn(q, W)    == \A i \in DOMAIN q : q[i] \notin W

\* Nothing is in the empty list.
LEMMA LastOfEmpty ==
  ASSUME NEW W, NEW T
  PROVE  NoneIn(<< >>, W) /\ ~LastIn(<< >>, W, T)
BY DEF NoneIn, LastIn

\* There is a last one or there is none.
LEMMA LastOrNone ==
  ASSUME NEW q, NEW W, NEW T
  PROVE  ~(LastIn(q, W, T) /\ NoneIn(q, W))
BY DEF NoneIn, LastIn

\* An element put behind is the last one if it matters, and changes nothing if not.
LEMMA LastOfAppend ==
  ASSUME NEW S, NEW q \in Seq(S), NEW x \in S, NEW W, NEW T
  PROVE  /\ x \in W \cap T => LastIn(Append(q, x), W, T)
         /\ x \notin W /\ LastIn(q, W, T) => LastIn(Append(q, x), W, T)
         /\ x \notin W /\ NoneIn(q, W) => NoneIn(Append(q, x), W)
<1>1. PICK n \in Nat : n = Len(q)
  BY EmptyLength
<1>2. PICK r : r = Append(q, x)
  OBVIOUS
<1>3. /\ DOMAIN q = 1 .. n /\ DOMAIN r = 1 .. n + 1 /\ r[n + 1] = x
      /\ \A i \in 1 .. n : r[i] = q[i]
  BY <1>1, <1>2
<1>4. x \in W \cap T => LastIn(r, W, T)
  <2> SUFFICES ASSUME x \in W \cap T PROVE LastIn(r, W, T)
    OBVIOUS
  <2>1. n + 1 \in DOMAIN r /\ r[n + 1] \in W \cap T /\ \A j \in DOMAIN r : ~(j > n + 1)
    BY <1>3
  <2> QED BY <2>1 DEF LastIn
<1>5. x \notin W /\ LastIn(q, W, T) => LastIn(r, W, T)
  <2> SUFFICES ASSUME x \notin W, LastIn(q, W, T) PROVE LastIn(r, W, T)
    OBVIOUS
  <2>1. PICK i \in DOMAIN q : q[i] \in W \cap T /\ \A j \in DOMAIN q : j > i => q[j] \notin W
    BY DEF LastIn
  <2>2. i \in DOMAIN r /\ r[i] \in W \cap T
    BY <1>3, <2>1
  <2>3. \A j \in DOMAIN r : j > i => r[j] \notin W
    <3>1. \A j \in DOMAIN r : j = n + 1 \/ j \in DOMAIN q
      BY <1>3
    <3> QED BY <1>3, <2>1, <3>1
  <2> QED BY <2>2, <2>3 DEF LastIn
<1>6. x \notin W /\ NoneIn(q, W) => NoneIn(r, W)
  <2>1. \A j \in DOMAIN r : j = n + 1 \/ j \in DOMAIN q
    BY <1>3
  <2> QED BY <1>3, <2>1 DEF NoneIn
<1> QED BY <1>2, <1>4, <1>5, <1>6

\* Taking the head leaves the last one the last, unless it was the head.
LEMMA LastOfTail ==
  ASSUME NEW S, NEW q \in Seq(S), q # << >>, NEW W, NEW T
  PROVE  /\ LastIn(q, W, T) => LastIn(Tail(q), W, T) \/ (NoneIn(Tail(q), W) /\ Head(q) \in W \cap T)
         /\ NoneIn(q, W) => NoneIn(Tail(q), W) /\ Head(q) \notin W
<1>1. PICK r : r = Tail(q)
  OBVIOUS
<1>2. /\ Head(q) = q[1] /\ 1 \in DOMAIN q /\ DOMAIN q \subseteq Nat
      /\ \A i \in DOMAIN r : i \in Nat /\ i + 1 \in DOMAIN q /\ r[i] = q[i + 1]
      /\ \A i \in DOMAIN q : i = 1 \/ (i - 1 \in DOMAIN r /\ q[i] = r[i - 1])
  <2>1. DOMAIN q = 1 .. Len(q) /\ Len(q) \in Nat
    BY EmptyLength
  <2> QED BY <1>1, <2>1, TailElements
<1>3. LastIn(q, W, T) => LastIn(r, W, T) \/ (NoneIn(r, W) /\ Head(q) \in W \cap T)
  <2> SUFFICES ASSUME LastIn(q, W, T) PROVE LastIn(r, W, T) \/ (NoneIn(r, W) /\ Head(q) \in W \cap T)
    OBVIOUS
  <2>1. PICK i \in DOMAIN q : q[i] \in W \cap T /\ \A j \in DOMAIN q : j > i => q[j] \notin W
    BY DEF LastIn
  <2>2. CASE i = 1
    <3>1. \A j \in DOMAIN r : j \in Nat /\ j + 1 > 1
      BY <1>2, <1>1, TailElements
    <3>2. \A j \in DOMAIN r : r[j] \notin W
      BY <1>2, <2>1, <2>2, <3>1
    <3> QED BY <1>2, <2>1, <2>2, <3>2 DEF NoneIn
  <2>3. CASE i # 1
    <3>1. i \in Nat /\ i - 1 \in DOMAIN r /\ r[i - 1] \in W \cap T
      BY <1>2, <2>1, <2>3
    <3>2. \A j \in DOMAIN r : j > i - 1 => r[j] \notin W
      <4>1. \A j \in Nat : j > i - 1 => j + 1 > i
        BY <3>1
      <4> QED BY <1>2, <2>1, <4>1
    <3> QED BY <3>1, <3>2 DEF LastIn
  <2> QED BY <2>2, <2>3
<1>4. NoneIn(q, W) => NoneIn(r, W) /\ Head(q) \notin W
  BY <1>2 DEF NoneIn
<1> QED BY <1>1, <1>3, <1>4

\* The last one of a list of one, two or three.
LEMMA LastOfList ==
  ASSUME NEW S, NEW a \in S, NEW b \in S, NEW c \in S, NEW W, NEW T
  PROVE  /\ a \in W \cap T => LastIn(<< a >>, W, T)
         /\ a \notin W => NoneIn(<< a >>, W)
         /\ b \in W \cap T => LastIn(<< a, b >>, W, T)
         /\ a \in W \cap T /\ b \notin W => LastIn(<< a, b >>, W, T)
         /\ a \notin W /\ b \notin W => NoneIn(<< a, b >>, W)
         /\ c \in W \cap T => LastIn(<< a, b, c >>, W, T)
         /\ b \in W \cap T /\ c \notin W => LastIn(<< a, b, c >>, W, T)
         /\ a \in W \cap T /\ b \notin W /\ c \notin W => LastIn(<< a, b, c >>, W, T)
         /\ a \notin W /\ b \notin W /\ c \notin W => NoneIn(<< a, b, c >>, W)
<1>1. << >> \in Seq(S) /\ << a >> \in Seq(S) /\ << a, b >> \in Seq(S)
  OBVIOUS
<1>2. NoneIn(<< >>, W)
  BY LastOfEmpty
<1>3. /\ a \in W \cap T => LastIn(<< a >>, W, T)
      /\ a \notin W => NoneIn(<< a >>, W)
  <2>1. Append(<< >>, a) = << a >>
    BY AppendIsList
  <2> QED BY <1>1, <1>2, <2>1, LastOfAppend, ZenonT(60)
<1>4. /\ b \in W \cap T => LastIn(<< a, b >>, W, T)
      /\ a \in W \cap T /\ b \notin W => LastIn(<< a, b >>, W, T)
      /\ a \notin W /\ b \notin W => NoneIn(<< a, b >>, W)
  <2>1. Append(<< a >>, b) = << a, b >>
    BY AppendIsList
  <2>2. PICK q, r : q = << a >> /\ r = << a, b >>
    OBVIOUS
  <2>3. q \in Seq(S) /\ Append(q, b) = r /\ (a \in W \cap T => LastIn(q, W, T)) /\ (a \notin W => NoneIn(q, W))
    BY <1>1, <1>3, <2>1, <2>2, Zenon
  <2>4. /\ b \in W \cap T => LastIn(r, W, T)
        /\ a \in W \cap T /\ b \notin W => LastIn(r, W, T)
        /\ a \notin W /\ b \notin W => NoneIn(r, W)
    BY <2>3, LastOfAppend
  <2> QED BY <2>2, <2>4, Zenon
<1>5. /\ c \in W \cap T => LastIn(<< a, b, c >>, W, T)
      /\ b \in W \cap T /\ c \notin W => LastIn(<< a, b, c >>, W, T)
      /\ a \in W \cap T /\ b \notin W /\ c \notin W => LastIn(<< a, b, c >>, W, T)
      /\ a \notin W /\ b \notin W /\ c \notin W => NoneIn(<< a, b, c >>, W)
  <2>1. Append(<< a, b >>, c) = << a, b, c >>
    BY AppendIsList
  <2>2. PICK q, r : q = << a, b >> /\ r = << a, b, c >>
    OBVIOUS
  <2>3. /\ q \in Seq(S) /\ Append(q, c) = r
        /\ b \in W \cap T => LastIn(q, W, T)
        /\ a \in W \cap T /\ b \notin W => LastIn(q, W, T)
        /\ a \notin W /\ b \notin W => NoneIn(q, W)
    BY <1>1, <1>4, <2>1, <2>2, Zenon
  <2>4. /\ c \in W \cap T => LastIn(r, W, T)
        /\ b \in W \cap T /\ c \notin W => LastIn(r, W, T)
        /\ a \in W \cap T /\ b \notin W /\ c \notin W => LastIn(r, W, T)
        /\ a \notin W /\ b \notin W /\ c \notin W => NoneIn(r, W)
    BY <2>3, LastOfAppend
  <2> QED BY <2>2, <2>4, Zenon
<1> QED BY <1>3, <1>4, <1>5
-----------------------------------------------------------------------------
(* The order in a list: nothing of X stands before something of Y. *)

Before(q, X, Y) == \A i, j \in DOMAIN q : i < j /\ q[j] \in Y => q[i] \notin X

\* An element put behind asks for nothing, or that there is nothing of X.
LEMMA BeforeOfAppend ==
  ASSUME NEW S, NEW q \in Seq(S), NEW x \in S, NEW X, NEW Y,
         Before(q, X, Y), x \notin Y \/ NoneIn(q, X)
  PROVE  Before(Append(q, x), X, Y)
<1>1. PICK n \in Nat : n = Len(q)
  BY EmptyLength
<1>2. PICK r : r = Append(q, x)
  OBVIOUS
<1>3. /\ DOMAIN q = 1 .. n /\ DOMAIN r = 1 .. n + 1 /\ r[n + 1] = x
      /\ \A i \in 1 .. n : r[i] = q[i]
  BY <1>1, <1>2
<1>4. ASSUME NEW i \in DOMAIN r, NEW j \in DOMAIN r, i < j, r[j] \in Y
      PROVE  r[i] \notin X
  <2>1. i \in DOMAIN q /\ r[i] = q[i]
    BY <1>3, <1>4
  <2>2. CASE j \in DOMAIN q
    BY <1>3, <1>4, <2>1, <2>2 DEF Before
  <2>3. CASE j = n + 1
    BY <1>3, <1>4, <2>1, <2>3 DEF NoneIn
  <2> QED BY <1>3, <2>2, <2>3
<1>5. Before(r, X, Y)
  BY <1>4 DEF Before
<1> QED BY <1>2, <1>5, Zenon

\* Taking the head keeps the order, and nothing of Y stands behind a head in X.
LEMMA BeforeOfTail ==
  ASSUME NEW S, NEW q \in Seq(S), q # << >>, NEW X, NEW Y, Before(q, X, Y)
  PROVE  Before(Tail(q), X, Y) /\ (Head(q) \in X => NoneIn(Tail(q), Y))
<1>1. PICK r : r = Tail(q)
  OBVIOUS
<1>2. /\ Head(q) = q[1] /\ 1 \in DOMAIN q
      /\ \A i \in DOMAIN r : i \in Nat \ {0} /\ i + 1 \in DOMAIN q /\ r[i] = q[i + 1]
  BY <1>1, TailElements
<1>3. ASSUME NEW i \in DOMAIN r, NEW j \in DOMAIN r, i < j, r[j] \in Y
      PROVE  r[i] \notin X
  <2>1. i + 1 < j + 1
    BY <1>2, <1>3
  <2> QED BY <1>2, <1>3, <2>1 DEF Before
<1>4. ASSUME Head(q) \in X, NEW j \in DOMAIN r
      PROVE  r[j] \notin Y
  <2>1. 1 < j + 1
    BY <1>2, <1>4
  <2> QED BY <1>2, <1>4, <2>1 DEF Before
<1>5. Before(r, X, Y) /\ (Head(q) \in X => NoneIn(r, Y))
  BY <1>3, <1>4 DEF Before, NoneIn
<1> QED BY <1>1, <1>5, Zenon

\* The order of lists of none, one, two and three.
LEMMA BeforeOfList ==
  ASSUME NEW S, NEW a \in S, NEW b \in S, NEW c \in S, NEW X, NEW Y
  PROVE  /\ Before(<< >>, X, Y) /\ Before(<< a >>, X, Y)
         /\ a \notin X => Before(<< a, b >>, X, Y)
         /\ a \notin X /\ b \notin X => Before(<< a, b, c >>, X, Y)
BY DEF Before

\* What comes before an element, when another one is sent and when the oldest is taken.
LEMMA PrefixOfAppend ==
  ASSUME NEW S, NEW q \in Seq(S), NEW x \in S
  PROVE  /\ \A i \in DOMAIN q : SubSeq(Append(q, x), 1, i - 1) = SubSeq(q, 1, i - 1)
         /\ SubSeq(Append(q, x), 1, Len(q)) = q
<1>1. /\ Append(q, x) \in Seq(S) /\ Len(Append(q, x)) = Len(q) + 1
      /\ \A i \in DOMAIN q : Append(q, x)[i] = q[i]
  BY AppendElements
<1>2. ASSUME NEW n \in 0 .. Len(q) PROVE SubSeq(Append(q, x), 1, n) = SubSeq(q, 1, n)
  <2>1. /\ SubSeq(q, 1, n) \in Seq(S) /\ Len(SubSeq(q, 1, n)) = n
        /\ \A i \in 1 .. n : SubSeq(q, 1, n)[i] = q[i]
    OBVIOUS
  <2>2. /\ SubSeq(Append(q, x), 1, n) \in Seq(S) /\ Len(SubSeq(Append(q, x), 1, n)) = n
        /\ \A i \in 1 .. n : SubSeq(Append(q, x), 1, n)[i] = Append(q, x)[i]
    BY <1>1
  <2> QED BY <1>1, <2>1, <2>2, SeqEqual
<1>3. \A i \in DOMAIN q : i - 1 \in 0 .. Len(q)
  OBVIOUS
<1>4. SubSeq(q, 1, Len(q)) = q /\ Len(q) \in 0 .. Len(q)
  OBVIOUS
<1> QED BY <1>2, <1>3, <1>4

LEMMA PrefixOfTail ==
  ASSUME NEW S, NEW q \in Seq(S), q # << >>, NEW i \in DOMAIN Tail(q)
  PROVE  /\ SubSeq(q, 1, i) \in Seq(S) /\ SubSeq(q, 1, i) # << >>
         /\ Head(SubSeq(q, 1, i)) = Head(q)
         /\ Tail(SubSeq(q, 1, i)) = SubSeq(Tail(q), 1, i - 1)
<1>1. /\ i \in Nat \ {0} /\ i + 1 <= Len(q) /\ Len(q) \in Nat
      /\ Tail(q) \in Seq(S) /\ Len(Tail(q)) = Len(q) - 1
      /\ \A j \in DOMAIN Tail(q) : Tail(q)[j] = q[j + 1]
  OBVIOUS
<1> DEFINE r == SubSeq(q, 1, i)
<1>2. r \in Seq(S) /\ Len(r) = i /\ r # << >> /\ \A j \in 1 .. i : r[j] = q[j]
  BY <1>1
<1>3. Head(r) = Head(q)
  BY <1>1, <1>2
<1>4. Tail(r) \in Seq(S) /\ Len(Tail(r)) = i - 1 /\ \A j \in 1 .. i - 1 : Tail(r)[j] = q[j + 1]
  BY <1>1, <1>2
<1>5. /\ SubSeq(Tail(q), 1, i - 1) \in Seq(S) /\ Len(SubSeq(Tail(q), 1, i - 1)) = i - 1
      /\ \A j \in 1 .. i - 1 : SubSeq(Tail(q), 1, i - 1)[j] = q[j + 1]
  BY <1>1
<1>6. Tail(r) = SubSeq(Tail(q), 1, i - 1)
  BY <1>4, <1>5, SeqEqual
<1> QED BY <1>2, <1>3, <1>6
=============================================================================
