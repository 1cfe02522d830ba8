------------------------- MODULE EdgeFsmQuiet_proofs -------------------------
(***************************************************************************)
(* Theorems about what the tasks of the general FSM agree on once nothing  *)
(* is on its way between them.  While something is, the last action that   *)
(* matters in the vectors still to be performed (or the last message in a  *)
(* channel) says what they will agree on.  The last part is about the      *)
(* watchdog: which vectors start it, which stop it, and in which order.    *)
(***************************************************************************)
EXTENDS EdgeFsm_proofs, SequenceLemmas

-----------------------------------------------------------------------------
(* The vectors of the transitions *)

\* Joining with the empty list, and lists of one and two.
LEMMA JoinEmpty ==
  ASSUME NEW S, NEW q \in Seq(S)
  PROVE  << >> \o q = q /\ q \o << >> = q
BY ConcatEmptySeq

LEMMA JoinPair ==
  ASSUME NEW S, NEW a \in S, NEW b \in S
  PROVE  << a >> \o << b >> = << a, b >>
<1>1. Append(<< a >>, b) = << a, b >>
  BY AppendIsList
<1>2. << a >> \in Seq(S)
  OBVIOUS
<1>3. << a >> \o << b >> = Append(<< a >>, b)
  BY <1>2, AppendIsConcat
<1> QED BY <1>1, <1>3, Zenon

LEMMA JoinTriple ==
  ASSUME NEW S, NEW a \in S, NEW b \in S, NEW c \in S
  PROVE  << a, b >> \o << c >> = << a, b, c >>
<1>1. Append(<< a, b >>, c) = << a, b, c >>
  BY AppendIsList
<1>2. << a, b >> \in Seq(S)
  OBVIOUS
<1>3. << a, b >> \o << c >> = Append(<< a, b >>, c)
  BY <1>2, AppendIsConcat
<1> QED BY <1>1, <1>3, Zenon

\* Which entry actions compute_on_entry pushes.
EntersBalance(s, u)   == s.balance # u.balance /\ u.balance # None
EntersQuorum(s, u)    == s.quorum # u.quorum /\ u.quorum # None
EntersPhase(s, u)     == s.phase # u.phase /\ u.phase # None
EntersGlobal(s, u, g) == s.global # u.global /\ u.global = g

\* compute_on_entry, for the changes of the state that occur.
LEMMA OnEntryIs ==
  ASSUME NEW s \in FsmState, NEW u \in FsmState,
         NEW B \in BOOLEAN, NEW Q \in BOOLEAN, NEW N \in BOOLEAN, NEW F \in BOOLEAN, NEW D \in BOOLEAN, NEW P \in BOOLEAN,
         EntersBalance(s, u) = B, EntersQuorum(s, u) = Q, EntersPhase(s, u) = P, EntersGlobal(s, u, "Normal") = N,
         EntersGlobal(s, u, "SafeMode") = F, EntersGlobal(s, u, "Disconnected") = D
  PROVE  /\ ~B /\ ~Q /\ ~N /\ ~F /\ ~D /\ ~P => ComputeOnEntry(s, u) = << >>
         /\ B /\ ~Q /\ ~N /\ ~F /\ ~D /\ ~P
              => ComputeOnEntry(s, u) = << OnEntry("OnEntryBalance", u.balance) >>
         /\ ~B /\ Q /\ ~N /\ ~F /\ ~D /\ ~P
              => ComputeOnEntry(s, u) = << OnEntry("OnEntryQuorum", u.quorum) >>
         /\ B /\ Q /\ ~N /\ ~F /\ ~D /\ ~P
              => ComputeOnEntry(s, u) = << OnEntry("OnEntryBalance", u.balance), OnEntry("OnEntryQuorum", u.quorum) >>
         /\ ~B /\ ~Q /\ N /\ ~F /\ ~D /\ ~P => ComputeOnEntry(s, u) = << Do("OnEntryNormal") >>
         /\ ~B /\ ~Q /\ ~N /\ F /\ ~D /\ ~P => ComputeOnEntry(s, u) = << Do("OnEntrySafeMode") >>
         /\ ~B /\ ~Q /\ ~N /\ ~F /\ D /\ ~P => ComputeOnEntry(s, u) = << Do("OnEntryDisconnected") >>
         /\ ~B /\ ~Q /\ ~N /\ ~F /\ ~D /\ P
              => ComputeOnEntry(s, u) = << OnEntry("OnEntryPhase", u.phase) >>
         /\ B /\ ~Q /\ ~N /\ ~F /\ ~D /\ P
              => ComputeOnEntry(s, u) = << OnEntry("OnEntryBalance", u.balance), OnEntry("OnEntryPhase", u.phase) >>
<1>1. PICK b, q, n, f, d, p :
        /\ b = When(B, OnEntry("OnEntryBalance", u.balance))
        /\ q = When(Q, OnEntry("OnEntryQuorum", u.quorum))
        /\ n = When(N, Do("OnEntryNormal"))
        /\ f = When(F, Do("OnEntrySafeMode"))
        /\ d = When(D, Do("OnEntryDisconnected"))
        /\ p = When(P, OnEntry("OnEntryPhase", u.phase))
  OBVIOUS
<1>2. ComputeOnEntry(s, u) = b \o q \o n \o f \o d \o p
  <2>1. /\ B = (s.balance # u.balance /\ u.balance # None) /\ Q = (s.quorum # u.quorum /\ u.quorum # None)
        /\ N = (s.global # u.global /\ u.global = "Normal") /\ F = (s.global # u.global /\ u.global = "SafeMode")
        /\ D = (s.global # u.global /\ u.global = "Disconnected") /\ P = (s.phase # u.phase /\ u.phase # None)
    BY DEF EntersBalance, EntersQuorum, EntersPhase, EntersGlobal
  <2> QED BY <1>1, <2>1, Zenon DEF ComputeOnEntry
<1>3. /\ B => OnEntry("OnEntryBalance", u.balance) \in Action
      /\ Q => OnEntry("OnEntryQuorum", u.quorum) \in Action
      /\ P => OnEntry("OnEntryPhase", u.phase) \in Action
      /\ Do("OnEntryNormal") \in Action /\ Do("OnEntrySafeMode") \in Action /\ Do("OnEntryDisconnected") \in Action
  BY ActionTypes DEF FsmState, EntersBalance, EntersQuorum, EntersPhase
<1>4. /\ ~B => b = << >>
      /\ ~Q => q = << >>
      /\ ~N => n = << >>
      /\ ~F => f = << >>
      /\ ~D => d = << >>
      /\ ~P => p = << >>
  BY <1>1 DEF When
<1>5. /\ B => b = << OnEntry("OnEntryBalance", u.balance) >>
      /\ Q => q = << OnEntry("OnEntryQuorum", u.quorum) >>
      /\ N => n = << Do("OnEntryNormal") >>
      /\ F => f = << Do("OnEntrySafeMode") >>
      /\ D => d = << Do("OnEntryDisconnected") >>
      /\ P => p = << OnEntry("OnEntryPhase", u.phase) >>
  BY <1>1 DEF When
<1>6. \A x \in Action : << x >> \in Seq(Action) /\ << >> \o << x >> = << x >> /\ << x >> \o << >> = << x >>
  BY JoinEmpty
<1>7. ASSUME NEW x \in Action, NEW y \in Action
      PROVE  << x, y >> \o << >> = << x, y >> /\ << x >> \o << y >> = << x, y >>
  <2>1. << x, y >> \in Seq(Action)
    OBVIOUS
  <2>2. << x, y >> \o << >> = << x, y >>
    BY <2>1, ConcatEmptySeq
  <2>3. << x >> \o << y >> = << x, y >>
    BY JoinPair
  <2> QED BY <2>2, <2>3
<1>8. << >> \o << >> = << >>
  OBVIOUS
<1>9. ~B /\ ~Q /\ ~N /\ ~F /\ ~D /\ ~P => ComputeOnEntry(s, u) = << >>
  BY <1>2, <1>4, <1>8, Zenon
<1>10. B /\ ~Q /\ ~N /\ ~F /\ ~D /\ ~P
         => ComputeOnEntry(s, u) = << OnEntry("OnEntryBalance", u.balance) >>
  BY <1>2, <1>3, <1>4, <1>5, <1>6, Zenon
<1>11. ~B /\ Q /\ ~N /\ ~F /\ ~D /\ ~P
         => ComputeOnEntry(s, u) = << OnEntry("OnEntryQuorum", u.quorum) >>
  BY <1>2, <1>3, <1>4, <1>5, <1>6, <1>8, Zenon
<1>12. B /\ Q /\ ~N /\ ~F /\ ~D /\ ~P
         => ComputeOnEntry(s, u) = << OnEntry("OnEntryBalance", u.balance), OnEntry("OnEntryQuorum", u.quorum) >>
  <2> SUFFICES ASSUME B /\ Q /\ ~N /\ ~F /\ ~D /\ ~P
               PROVE  ComputeOnEntry(s, u) = << OnEntry("OnEntryBalance", u.balance), OnEntry("OnEntryQuorum", u.quorum) >>
    OBVIOUS
  <2>1. PICK x \in Action, y \in Action : x = OnEntry("OnEntryBalance", u.balance) /\ y = OnEntry("OnEntryQuorum", u.quorum)
    BY <1>3
  <2>2. b = << x >> /\ q = << y >>
    BY <1>5, <2>1, Zenon
  <2>3. ComputeOnEntry(s, u) = << x, y >>
    BY <1>2, <1>4, <1>6, <1>7, <2>2, ZenonT(60)
  <2> QED BY <2>1, <2>3, Zenon
<1>13. ~B /\ ~Q /\ N /\ ~F /\ ~D /\ ~P => ComputeOnEntry(s, u) = << Do("OnEntryNormal") >>
  BY <1>2, <1>3, <1>4, <1>5, <1>6, <1>8, Zenon
<1>14. ~B /\ ~Q /\ ~N /\ F /\ ~D /\ ~P => ComputeOnEntry(s, u) = << Do("OnEntrySafeMode") >>
  BY <1>2, <1>3, <1>4, <1>5, <1>6, <1>8, Zenon
<1>15. ~B /\ ~Q /\ ~N /\ ~F /\ D /\ ~P => ComputeOnEntry(s, u) = << Do("OnEntryDisconnected") >>
  BY <1>2, <1>3, <1>4, <1>5, <1>6, <1>8, Zenon
<1>16. ~B /\ ~Q /\ ~N /\ ~F /\ ~D /\ P
         => ComputeOnEntry(s, u) = << OnEntry("OnEntryPhase", u.phase) >>
  BY <1>2, <1>3, <1>4, <1>5, <1>6, <1>8, Zenon
<1>17. B /\ ~Q /\ ~N /\ ~F /\ ~D /\ P
         => ComputeOnEntry(s, u) = << OnEntry("OnEntryBalance", u.balance), OnEntry("OnEntryPhase", u.phase) >>
  <2> SUFFICES ASSUME B /\ ~Q /\ ~N /\ ~F /\ ~D /\ P
               PROVE  ComputeOnEntry(s, u) = << OnEntry("OnEntryBalance", u.balance), OnEntry("OnEntryPhase", u.phase) >>
    OBVIOUS
  <2>1. PICK x \in Action, y \in Action : x = OnEntry("OnEntryBalance", u.balance) /\ y = OnEntry("OnEntryPhase", u.phase)
    BY <1>3
  <2>2. b = << x >> /\ p = << y >>
    BY <1>5, <2>1, Zenon
  <2>3. ComputeOnEntry(s, u) = << x, y >>
    BY <1>2, <1>4, <1>6, <1>7, <2>2, ZenonT(60)
  <2> QED BY <2>1, <2>3, Zenon
<1> QED BY <1>9, <1>10, <1>11, <1>12, <1>13, <1>14, <1>15, <1>16, <1>17

\* The states by the sub-state they are in.
Global(g)  == [global |-> g, balance |-> None, quorum |-> None, phase |-> None]
Balance(b) == [global |-> "BalanceMode", balance |-> b, quorum |-> None, phase |-> None]
Quorum(q)  == [global |-> "BalanceMode", balance |-> "Quorum", quorum |-> q, phase |-> None]
Phase(p)   == [global |-> "BalanceMode", balance |-> "Phase", quorum |-> None, phase |-> p]

Handshakes == {"InHandshake", "OutHandshake"}
Checks     == {"CheckQuorumIn", "CheckQuorumOut"}
Repeats    == {"RepeatHandshakeIn", "RepeatHandshakeOut"}

\* The transitions, each with its whole vector: those that stay, and those that move.
Stays(s, e, u, v) ==
  /\ u = s /\ e \in {"NewMessageHandshake", "NotApproveQuorum"}
  /\ s \in { Balance(b) : b \in Handshakes } \cup { Quorum(q) : q \in Repeats }
  /\ v = << >> \/ v = << Do("CalculateQuorum") >>
ToInit(s, e, u, v) ==
  /\ u = Balance("InitBalanceMode") /\ v = << OnEntry("OnEntryBalance", "InitBalanceMode") >>
  /\ s = Global("Start") \/ (s = Global("Disconnected") /\ e = "LocalConnected")
ToInHandshake(s, e, u, v) ==
  /\ s = Balance("InitBalanceMode") /\ e = "BalanceEpochOk"
  /\ u = Balance("InHandshake") /\ v = << OnEntry("OnEntryBalance", "InHandshake") >>
ToSafeMode(s, e, u, v) ==
  /\ s.global = "BalanceMode" /\ s.phase = None
  /\ e \in {"BalanceEpochNotOk", "NotApproveNotAttempts"}
  /\ u = Global("SafeMode") /\ v = << Do("OnEntrySafeMode") >>
ToCheck(s, e, u, v) ==
  \E q \in Checks :
    /\ s.global = "BalanceMode" /\ s.phase = None /\ e = "Timeout"
    /\ u = Quorum(q)
    /\ \/ s.quorum # None /\ v = << OnEntry("OnEntryQuorum", q) >>
       \/ s.quorum = None /\ v = << OnEntry("OnEntryBalance", "Quorum"), OnEntry("OnEntryQuorum", q) >>
ToRepeat(s, e, u, v) ==
  \E q \in Repeats :
    /\ s.global = "BalanceMode" /\ s.phase = None /\ s.quorum \in Checks /\ e = "NotApproveQuorum"
    /\ u = Quorum(q) /\ v = << OnEntry("OnEntryQuorum", q) >>
ToAlert(s, e, u, v) ==
  /\ s.global = "BalanceMode" /\ s.phase = None /\ e = "ApproveQuorum"
  /\ u = Phase("Alert")
  /\ v = << Do("StopTimer"), OnEntry("OnEntryBalance", "Phase"), OnEntry("OnEntryPhase", "Alert") >>
ToNextPhase(s, e, u, v) ==
  \E p \in {"Data", "Monitor"} :
    /\ s.balance = "Phase" /\ s.global = "BalanceMode" /\ e \in {"Timeout", "QuorumPhase"}
    /\ u = Phase(p) /\ v = << Do("StopTimer"), OnEntry("OnEntryPhase", p) >>
ToOutHandshake(s, e, u, v) ==
  /\ s = Phase("Monitor") /\ e \in {"Timeout", "QuorumPhase"}
  /\ u = Balance("OutHandshake")
  /\ v = << Do("StopSendHeartbeatMessagePhase"), Do("StopTimer"), OnEntry("OnEntryBalance", "OutHandshake") >>
ToNormal(s, e, u, v) ==
  /\ u = Global("Normal")
  /\ \/ /\ s.global = "BalanceMode" /\ s.phase = None /\ e = "ApproveQuorum"
        /\ v = << Do("StopTimer"), Do("OnEntryNormal") >>
     \/ /\ s = Global("SafeMode") /\ e \in {"Timeout", "QuorumSafeMode"}
        /\ v = << Do("StopSendHeartbeatMessageSafeMode"), Do("OnEntryNormal") >>
ToDisconnected(s, e, u, v) ==
  /\ u = Global("Disconnected") /\ e = "LocalDisconnected"
  /\ \/ /\ s.global = "BalanceMode"
        /\ v = << Do("StopSendHeartbeatMessagePhase"), Do("StopTimer"), Do("OnEntryDisconnected") >>
     \/ s = Global("SafeMode") /\ v = << Do("StopSendHeartbeatMessageSafeMode"), Do("OnEntryDisconnected") >>
     \/ s = Global("Normal") /\ v = << Do("StopSendHeartbeatMessageNormal"), Do("OnEntryDisconnected") >>

Moves(s, e, u, v) ==
  \/ ToInit(s, e, u, v) \/ ToInHandshake(s, e, u, v) \/ ToSafeMode(s, e, u, v) \/ ToCheck(s, e, u, v)
  \/ ToRepeat(s, e, u, v) \/ ToAlert(s, e, u, v) \/ ToNextPhase(s, e, u, v) \/ ToOutHandshake(s, e, u, v)
  \/ ToNormal(s, e, u, v) \/ ToDisconnected(s, e, u, v)

\* What a transition is made of.
LEMMA TransitionOf ==
  ASSUME NEW s, NEW e, NEW t \in Step(s, e)
  PROVE  \E i \in StepInner(s, e) : t.to = i.to /\ t.acts = i.acts \o ComputeOnEntry(s, i.to)
<1>1. PICK i \in StepInner(s, e) : t = [to |-> i.to, acts |-> i.acts \o ComputeOnEntry(s, i.to)]
  BY DEF Step
<1> QED BY <1>1

\* A state that keeps the hierarchy is one of these.
LEMMA StatesAre ==
  ASSUME NEW s \in FsmState, Hierarchical(s)
  PROVE  /\ s.global # "BalanceMode" => s = Global(s.global)
         /\ s.global = "BalanceMode" /\ s.balance = "Quorum" => s = Quorum(s.quorum) /\ s.quorum \in SubStateQuorum
         /\ s.global = "BalanceMode" /\ s.balance = "Phase" => s = Phase(s.phase) /\ s.phase \in SubStatePhase
         /\ s.global = "BalanceMode" /\ s.balance \notin {"Quorum", "Phase"}
              => s = Balance(s.balance) /\ s.balance \in {"InitBalanceMode", "InHandshake", "OutHandshake"}
BY DEF FsmState, Hierarchical, Global, Balance, Quorum, Phase, None, SubStateBalanceMode, SubStateQuorum, SubStatePhase,
       StateGlobal
\* These states are states of the machine.
LEMMA StatesTyped ==
  /\ \A g \in StateGlobal : Global(g) \in FsmState
  /\ \A b \in SubStateBalanceMode : Balance(b) \in FsmState
  /\ \A q \in SubStateQuorum : Quorum(q) \in FsmState
  /\ \A p \in SubStatePhase : Phase(p) \in FsmState
BY DEF Global, Balance, Quorum, Phase, FsmState, StateGlobal, SubStateBalanceMode, SubStateQuorum, SubStatePhase, None

\* The states of the balance mode outside its phases.
Unphased == { Balance(b) : b \in {"InitBalanceMode", "InHandshake", "OutHandshake"} }
            \cup { Quorum(q) : q \in SubStateQuorum }

\* The vectors: the actions of a transition, then those of the entry.
LEMMA Vectors ==
  ASSUME NEW s \in FsmState
  PROVE  /\ << >> \o ComputeOnEntry(s, s) = << >>
         /\ << Do("CalculateQuorum") >> \o ComputeOnEntry(s, s) = << Do("CalculateQuorum") >>
         /\ s \in {Global("Start"), Global("Disconnected")}
              => << >> \o ComputeOnEntry(s, Balance("InitBalanceMode")) = << OnEntry("OnEntryBalance", "InitBalanceMode") >>
         /\ s = Balance("InitBalanceMode")
              => << >> \o ComputeOnEntry(s, Balance("InHandshake")) = << OnEntry("OnEntryBalance", "InHandshake") >>
         /\ s \in Unphased
              => << >> \o ComputeOnEntry(s, Global("SafeMode")) = << Do("OnEntrySafeMode") >>
         /\ \A q \in SubStateQuorum : s \in { Balance(b) : b \in Handshakes }
              => << >> \o ComputeOnEntry(s, Quorum(q)) = << OnEntry("OnEntryBalance", "Quorum"), OnEntry("OnEntryQuorum", q) >>
         /\ \A q \in SubStateQuorum : s \in { Quorum(r) : r \in SubStateQuorum \ {q} }
              => << >> \o ComputeOnEntry(s, Quorum(q)) = << OnEntry("OnEntryQuorum", q) >>
         /\ s \in Unphased
              => << Do("StopTimer") >> \o ComputeOnEntry(s, Phase("Alert")) = << Do("StopTimer"), OnEntry("OnEntryBalance", "Phase"), OnEntry("OnEntryPhase", "Alert") >>
         /\ s \in Unphased
              => << Do("StopTimer") >> \o ComputeOnEntry(s, Global("Normal")) = << Do("StopTimer"), Do("OnEntryNormal") >>
         /\ \A p \in SubStatePhase : s \in { Phase(r) : r \in SubStatePhase \ {p} }
              => << Do("StopTimer") >> \o ComputeOnEntry(s, Phase(p)) = << Do("StopTimer"), OnEntry("OnEntryPhase", p) >>
         /\ s = Phase("Monitor")
              => << Do("StopSendHeartbeatMessagePhase"), Do("StopTimer") >> \o ComputeOnEntry(s, Balance("OutHandshake")) = << Do("StopSendHeartbeatMessagePhase"), Do("StopTimer"), OnEntry("OnEntryBalance", "OutHandshake") >>
         /\ s.global = "BalanceMode"
              => << Do("StopSendHeartbeatMessagePhase"), Do("StopTimer") >> \o ComputeOnEntry(s, Global("Disconnected")) = << Do("StopSendHeartbeatMessagePhase"), Do("StopTimer"), Do("OnEntryDisconnected") >>
         /\ s = Global("Normal")
              => << Do("StopSendHeartbeatMessageNormal") >> \o ComputeOnEntry(s, Global("Disconnected")) = << Do("StopSendHeartbeatMessageNormal"), Do("OnEntryDisconnected") >>
         /\ s = Global("SafeMode")
              => << Do("StopSendHeartbeatMessageSafeMode") >> \o ComputeOnEntry(s, Global("Disconnected")) = << Do("StopSendHeartbeatMessageSafeMode"), Do("OnEntryDisconnected") >>
         /\ s = Global("SafeMode")
              => << Do("StopSendHeartbeatMessageSafeMode") >> \o ComputeOnEntry(s, Global("Normal")) = << Do("StopSendHeartbeatMessageSafeMode"), Do("OnEntryNormal") >>
<1> DEFINE Entered(u, b, q, n, f, d, p) ==
             /\ EntersBalance(s, u) = b /\ EntersQuorum(s, u) = q /\ EntersPhase(s, u) = p
             /\ EntersGlobal(s, u, "Normal") = n /\ EntersGlobal(s, u, "SafeMode") = f
             /\ EntersGlobal(s, u, "Disconnected") = d
<1>a. \A x \in Action : << >> \o << x >> = << x >> /\ << x >> \o << >> = << x >>
  BY JoinEmpty
<1>b. \A x \in Action, y \in Action : << x >> \o << y >> = << x, y >>
  BY JoinPair
<1>c. \A x \in Action, y \in Action : << >> \o << x, y >> = << x, y >>
  <2> SUFFICES ASSUME NEW x \in Action, NEW y \in Action PROVE << >> \o << x, y >> = << x, y >>
    OBVIOUS
  <2>1. << x, y >> \in Seq(Action)
    OBVIOUS
  <2> QED BY <2>1, ConcatEmptySeq
<1>d. ASSUME NEW x \in Action, NEW y \in Action, NEW z \in Action PROVE << x >> \o << y, z >> = << x, y, z >>
  BY ConsPair
<1>e. ASSUME NEW x \in Action, NEW y \in Action, NEW z \in Action PROVE << x, y >> \o << z >> = << x, y, z >>
  BY JoinTriple
<1>f. /\ \A q \in SubStateQuorum : OnEntry("OnEntryQuorum", q) \in Action
      /\ \A p \in SubStatePhase : OnEntry("OnEntryPhase", p) \in Action
      /\ OnEntry("OnEntryPhase", "Alert") \in Action
  BY ActionTypes DEF SubStatePhase
<1>g. \A b \in {"InitBalanceMode", "InHandshake", "OutHandshake", "Quorum", "Phase"} : OnEntry("OnEntryBalance", b) \in Action
  BY ActionTypes DEF SubStateBalanceMode
<1>h. /\ Do("StopTimer") \in Action /\ Do("CalculateQuorum") \in Action /\ Do("StopSendHeartbeatMessagePhase") \in Action
      /\ Do("StopSendHeartbeatMessageSafeMode") \in Action /\ Do("StopSendHeartbeatMessageNormal") \in Action
      /\ Do("OnEntryNormal") \in Action /\ Do("OnEntrySafeMode") \in Action /\ Do("OnEntryDisconnected") \in Action
  BY ActionTypes
<1>0. << >> \o ComputeOnEntry(s, s) = << >> /\ << Do("CalculateQuorum") >> \o ComputeOnEntry(s, s) = << Do("CalculateQuorum") >>
  <2>1. Entered(s, FALSE, FALSE, FALSE, FALSE, FALSE, FALSE)
    BY DEF EntersBalance, EntersQuorum, EntersPhase, EntersGlobal
  <2>2. ComputeOnEntry(s, s) = << >>
    BY <2>1, OnEntryIs
  <2>3. << >> \o << >> = << >>
    OBVIOUS
  <2> QED BY <2>2, <2>3, <1>a, <1>h, Zenon
<1>1. ASSUME s \in {Global("Start"), Global("Disconnected")}
      PROVE  << >> \o ComputeOnEntry(s, Balance("InitBalanceMode")) = << OnEntry("OnEntryBalance", "InitBalanceMode") >>
  <2>1. Entered(Balance("InitBalanceMode"), TRUE, FALSE, FALSE, FALSE, FALSE, FALSE) /\ Balance("InitBalanceMode") \in FsmState
    BY <1>1, StatesTyped DEF EntersBalance, EntersQuorum, EntersPhase, EntersGlobal, Global, Balance, Quorum, Phase, None,
       StateGlobal, SubStateBalanceMode, SubStateQuorum, SubStatePhase
  <2>2. ComputeOnEntry(s, Balance("InitBalanceMode")) = << OnEntry("OnEntryBalance", "InitBalanceMode") >>
    BY <2>1, OnEntryIs DEF Balance
  <2> QED BY <2>2, <1>1, <1>a, <1>g, Zenon
<1>2. ASSUME s = Balance("InitBalanceMode")
      PROVE  << >> \o ComputeOnEntry(s, Balance("InHandshake")) = << OnEntry("OnEntryBalance", "InHandshake") >>
  <2>1. Entered(Balance("InHandshake"), TRUE, FALSE, FALSE, FALSE, FALSE, FALSE) /\ Balance("InHandshake") \in FsmState
    BY <1>2, StatesTyped DEF EntersBalance, EntersQuorum, EntersPhase, EntersGlobal, Global, Balance, Quorum, Phase, None,
       StateGlobal, SubStateBalanceMode, SubStateQuorum, SubStatePhase
  <2>2. ComputeOnEntry(s, Balance("InHandshake")) = << OnEntry("OnEntryBalance", "InHandshake") >>
    BY <2>1, OnEntryIs DEF Balance
  <2> QED BY <2>2, <1>2, <1>a, <1>g, Zenon
<1>3. ASSUME s \in Unphased
      PROVE  << >> \o ComputeOnEntry(s, Global("SafeMode")) = << Do("OnEntrySafeMode") >>
  <2>1. Entered(Global("SafeMode"), FALSE, FALSE, FALSE, TRUE, FALSE, FALSE) /\ Global("SafeMode") \in FsmState
    BY <1>3, StatesTyped DEF EntersBalance, EntersQuorum, EntersPhase, EntersGlobal, Global, Balance, Quorum, Phase, None,
       StateGlobal, SubStateBalanceMode, SubStateQuorum, SubStatePhase, Unphased
  <2>2. ComputeOnEntry(s, Global("SafeMode")) = << Do("OnEntrySafeMode") >>
    BY <2>1, OnEntryIs
  <2> QED BY <2>2, <1>3, <1>a, <1>h, Zenon
<1>4. ASSUME NEW q \in SubStateQuorum, s \in { Balance(b) : b \in Handshakes }
      PROVE  << >> \o ComputeOnEntry(s, Quorum(q)) = << OnEntry("OnEntryBalance", "Quorum"), OnEntry("OnEntryQuorum", q) >>
  <2>1. Entered(Quorum(q), TRUE, TRUE, FALSE, FALSE, FALSE, FALSE) /\ Quorum(q) \in FsmState
    BY <1>4, StatesTyped DEF EntersBalance, EntersQuorum, EntersPhase, EntersGlobal, Global, Balance, Quorum, Phase, None,
       StateGlobal, SubStateBalanceMode, SubStateQuorum, SubStatePhase, Handshakes
  <2>2. ComputeOnEntry(s, Quorum(q)) = << OnEntry("OnEntryBalance", "Quorum"), OnEntry("OnEntryQuorum", q) >>
    BY <2>1, OnEntryIs DEF Quorum
  <2> QED BY <2>2, <1>4, <1>c, <1>f, <1>g, Zenon
<1>5. ASSUME NEW q \in SubStateQuorum, s \in { Quorum(r) : r \in SubStateQuorum \ {q} }
      PROVE  << >> \o ComputeOnEntry(s, Quorum(q)) = << OnEntry("OnEntryQuorum", q) >>
  <2>1. Entered(Quorum(q), FALSE, TRUE, FALSE, FALSE, FALSE, FALSE) /\ Quorum(q) \in FsmState
    BY <1>5, StatesTyped DEF EntersBalance, EntersQuorum, EntersPhase, EntersGlobal, Global, Balance, Quorum, Phase, None,
       StateGlobal, SubStateBalanceMode, SubStateQuorum, SubStatePhase
  <2>2. ComputeOnEntry(s, Quorum(q)) = << OnEntry("OnEntryQuorum", q) >>
    BY <2>1, OnEntryIs DEF Quorum
  <2> QED BY <2>2, <1>5, <1>a, <1>f, Zenon
<1>6. ASSUME s \in Unphased
      PROVE  << Do("StopTimer") >> \o ComputeOnEntry(s, Phase("Alert")) = << Do("StopTimer"), OnEntry("OnEntryBalance", "Phase"), OnEntry("OnEntryPhase", "Alert") >>
  <2>1. Entered(Phase("Alert"), TRUE, FALSE, FALSE, FALSE, FALSE, TRUE) /\ Phase("Alert") \in FsmState
    BY <1>6, StatesTyped DEF EntersBalance, EntersQuorum, EntersPhase, EntersGlobal, Global, Balance, Quorum, Phase, None,
       StateGlobal, SubStateBalanceMode, SubStateQuorum, SubStatePhase, Unphased
  <2>2. ComputeOnEntry(s, Phase("Alert")) = << OnEntry("OnEntryBalance", "Phase"), OnEntry("OnEntryPhase", "Alert") >>
    BY <2>1, OnEntryIs DEF Phase
  <2>3. << Do("StopTimer") >> \o << OnEntry("OnEntryBalance", "Phase"), OnEntry("OnEntryPhase", "Alert") >> = << Do("StopTimer"), OnEntry("OnEntryBalance", "Phase"), OnEntry("OnEntryPhase", "Alert") >>
    <3>1. PICK x \in Action, y \in Action, z \in Action : x = Do("StopTimer") /\ y = OnEntry("OnEntryBalance", "Phase") /\ z = OnEntry("OnEntryPhase", "Alert")
      BY <1>f, <1>g, <1>h
    <3>2. << x >> \o << y, z >> = << x, y, z >>
      BY <1>d
    <3> QED BY <3>1, <3>2, Zenon
  <2> QED BY <2>2, <2>3, Zenon
<1>7. ASSUME s \in Unphased
      PROVE  << Do("StopTimer") >> \o ComputeOnEntry(s, Global("Normal")) = << Do("StopTimer"), Do("OnEntryNormal") >>
  <2>1. Entered(Global("Normal"), FALSE, FALSE, TRUE, FALSE, FALSE, FALSE) /\ Global("Normal") \in FsmState
    BY <1>7, StatesTyped DEF EntersBalance, EntersQuorum, EntersPhase, EntersGlobal, Global, Balance, Quorum, Phase, None,
       StateGlobal, SubStateBalanceMode, SubStateQuorum, SubStatePhase, Unphased
  <2>2. ComputeOnEntry(s, Global("Normal")) = << Do("OnEntryNormal") >>
    BY <2>1, OnEntryIs
  <2> QED BY <2>2, <1>7, <1>b, <1>h, Zenon
<1>8. ASSUME NEW p \in SubStatePhase, s \in { Phase(r) : r \in SubStatePhase \ {p} }
      PROVE  << Do("StopTimer") >> \o ComputeOnEntry(s, Phase(p)) = << Do("StopTimer"), OnEntry("OnEntryPhase", p) >>
  <2>1. Entered(Phase(p), FALSE, FALSE, FALSE, FALSE, FALSE, TRUE) /\ Phase(p) \in FsmState
    BY <1>8, StatesTyped DEF EntersBalance, EntersQuorum, EntersPhase, EntersGlobal, Global, Balance, Quorum, Phase, None,
       StateGlobal, SubStateBalanceMode, SubStateQuorum, SubStatePhase
  <2>2. ComputeOnEntry(s, Phase(p)) = << OnEntry("OnEntryPhase", p) >>
    BY <2>1, OnEntryIs DEF Phase
  <2> QED BY <2>2, <1>8, <1>b, <1>f, <1>h, Zenon
<1>9. ASSUME s = Phase("Monitor")
      PROVE  << Do("StopSendHeartbeatMessagePhase"), Do("StopTimer") >> \o ComputeOnEntry(s, Balance("OutHandshake")) = << Do("StopSendHeartbeatMessagePhase"), Do("StopTimer"), OnEntry("OnEntryBalance", "OutHandshake") >>
  <2>1. Entered(Balance("OutHandshake"), TRUE, FALSE, FALSE, FALSE, FALSE, FALSE) /\ Balance("OutHandshake") \in FsmState
    BY <1>9, StatesTyped DEF EntersBalance, EntersQuorum, EntersPhase, EntersGlobal, Global, Balance, Quorum, Phase, None,
       StateGlobal, SubStateBalanceMode, SubStateQuorum, SubStatePhase
  <2>2. ComputeOnEntry(s, Balance("OutHandshake")) = << OnEntry("OnEntryBalance", "OutHandshake") >>
    BY <2>1, OnEntryIs DEF Balance
  <2>3. << Do("StopSendHeartbeatMessagePhase"), Do("StopTimer") >> \o << OnEntry("OnEntryBalance", "OutHandshake") >> = << Do("StopSendHeartbeatMessagePhase"), Do("StopTimer"), OnEntry("OnEntryBalance", "OutHandshake") >>
    <3>1. PICK x \in Action, y \in Action, z \in Action : x = Do("StopSendHeartbeatMessagePhase") /\ y = Do("StopTimer") /\ z = OnEntry("OnEntryBalance", "OutHandshake")
      BY <1>g, <1>h
    <3>2. << x, y >> \o << z >> = << x, y, z >>
      BY <1>e
    <3> QED BY <3>1, <3>2, Zenon
  <2> QED BY <2>2, <2>3, Zenon
<1>10. ASSUME s.global = "BalanceMode"
      PROVE  << Do("StopSendHeartbeatMessagePhase"), Do("StopTimer") >> \o ComputeOnEntry(s, Global("Disconnected")) = << Do("StopSendHeartbeatMessagePhase"), Do("StopTimer"), Do("OnEntryDisconnected") >>
  <2>1. Entered(Global("Disconnected"), FALSE, FALSE, FALSE, FALSE, TRUE, FALSE) /\ Global("Disconnected") \in FsmState
    BY <1>10, StatesTyped DEF EntersBalance, EntersQuorum, EntersPhase, EntersGlobal, Global, Balance, Quorum, Phase, None,
       StateGlobal, SubStateBalanceMode, SubStateQuorum, SubStatePhase
  <2>2. ComputeOnEntry(s, Global("Disconnected")) = << Do("OnEntryDisconnected") >>
    BY <2>1, OnEntryIs
  <2>3. << Do("StopSendHeartbeatMessagePhase"), Do("StopTimer") >> \o << Do("OnEntryDisconnected") >> = << Do("StopSendHeartbeatMessagePhase"), Do("StopTimer"), Do("OnEntryDisconnected") >>
    <3>1. PICK x \in Action, y \in Action, z \in Action : x = Do("StopSendHeartbeatMessagePhase") /\ y = Do("StopTimer") /\ z = Do("OnEntryDisconnected")
      BY <1>h
    <3>2. << x, y >> \o << z >> = << x, y, z >>
      BY <1>e
    <3> QED BY <3>1, <3>2, Zenon
  <2> QED BY <2>2, <2>3, Zenon
<1>11. ASSUME s = Global("Normal")
      PROVE  << Do("StopSendHeartbeatMessageNormal") >> \o ComputeOnEntry(s, Global("Disconnected")) = << Do("StopSendHeartbeatMessageNormal"), Do("OnEntryDisconnected") >>
  <2>1. Entered(Global("Disconnected"), FALSE, FALSE, FALSE, FALSE, TRUE, FALSE) /\ Global("Disconnected") \in FsmState
    BY <1>11, StatesTyped DEF EntersBalance, EntersQuorum, EntersPhase, EntersGlobal, Global, Balance, Quorum, Phase, None,
       StateGlobal, SubStateBalanceMode, SubStateQuorum, SubStatePhase
  <2>2. ComputeOnEntry(s, Global("Disconnected")) = << Do("OnEntryDisconnected") >>
    BY <2>1, OnEntryIs
  <2> QED BY <2>2, <1>11, <1>b, <1>h, Zenon
<1>12. ASSUME s = Global("SafeMode")
      PROVE  << Do("StopSendHeartbeatMessageSafeMode") >> \o ComputeOnEntry(s, Global("Disconnected")) = << Do("StopSendHeartbeatMessageSafeMode"), Do("OnEntryDisconnected") >>
  <2>1. Entered(Global("Disconnected"), FALSE, FALSE, FALSE, FALSE, TRUE, FALSE) /\ Global("Disconnected") \in FsmState
    BY <1>12, StatesTyped DEF EntersBalance, EntersQuorum, EntersPhase, EntersGlobal, Global, Balance, Quorum, Phase, None,
       StateGlobal, SubStateBalanceMode, SubStateQuorum, SubStatePhase
  <2>2. ComputeOnEntry(s, Global("Disconnected")) = << Do("OnEntryDisconnected") >>
    BY <2>1, OnEntryIs
  <2> QED BY <2>2, <1>12, <1>b, <1>h, Zenon
<1>13. ASSUME s = Global("SafeMode")
      PROVE  << Do("StopSendHeartbeatMessageSafeMode") >> \o ComputeOnEntry(s, Global("Normal")) = << Do("StopSendHeartbeatMessageSafeMode"), Do("OnEntryNormal") >>
  <2>1. Entered(Global("Normal"), FALSE, FALSE, TRUE, FALSE, FALSE, FALSE) /\ Global("Normal") \in FsmState
    BY <1>13, StatesTyped DEF EntersBalance, EntersQuorum, EntersPhase, EntersGlobal, Global, Balance, Quorum, Phase, None,
       StateGlobal, SubStateBalanceMode, SubStateQuorum, SubStatePhase
  <2>2. ComputeOnEntry(s, Global("Normal")) = << Do("OnEntryNormal") >>
    BY <2>1, OnEntryIs
  <2> QED BY <2>2, <1>13, <1>b, <1>h, Zenon
<1> QED BY <1>0, <1>1, <1>2, <1>3, <1>4, <1>5, <1>6, <1>7, <1>8, <1>9, <1>10, <1>11, <1>12, <1>13
\* A state is its four fields.
LEMMA StateOfFields ==
  ASSUME NEW u, DOMAIN u = {"global", "balance", "quorum", "phase"}, u = [f \in DOMAIN u |-> u[f]]
  PROVE  u = [global |-> u.global, balance |-> u.balance, quorum |-> u.quorum, phase |-> u.phase]
OBVIOUS

\* What the handlers of domain.rs make of a state, one lemma for each way they edit it.
LEMMA EnterBalance ==
  ASSUME NEW x, NEW b
  PROVE  [Global(x) EXCEPT !.global = "BalanceMode", !.balance = b] = Balance(b)
<1>1. PICK u : u = [Global(x) EXCEPT !.global = "BalanceMode", !.balance = b]
  OBVIOUS
<1>2. DOMAIN u = {"global", "balance", "quorum", "phase"} /\ u = [f \in DOMAIN u |-> u[f]]
  BY <1>1 DEF Global
<1>3. u.global = "BalanceMode" /\ u.balance = b /\ u.quorum = None /\ u.phase = None
  BY <1>1 DEF Global
<1>4. u = Balance(b)
  BY StateOfFields, <1>2, <1>3 DEF Balance
<1> QED BY <1>1, <1>4

LEMMA SwitchGlobal ==
  ASSUME NEW x, NEW g
  PROVE  [Global(x) EXCEPT !.global = g] = Global(g)
<1>1. PICK u : u = [Global(x) EXCEPT !.global = g]
  OBVIOUS
<1>2. DOMAIN u = {"global", "balance", "quorum", "phase"} /\ u = [f \in DOMAIN u |-> u[f]]
  BY <1>1 DEF Global
<1>3. u.global = g /\ u.balance = None /\ u.quorum = None /\ u.phase = None
  BY <1>1 DEF Global
<1>4. u = Global(g)
  BY StateOfFields, <1>2, <1>3 DEF Global
<1> QED BY <1>1, <1>4

LEMMA SwitchBalance ==
  ASSUME NEW b, NEW c
  PROVE  [Balance(b) EXCEPT !.balance = c] = Balance(c)
<1>1. PICK u : u = [Balance(b) EXCEPT !.balance = c]
  OBVIOUS
<1>2. DOMAIN u = {"global", "balance", "quorum", "phase"} /\ u = [f \in DOMAIN u |-> u[f]]
  BY <1>1 DEF Balance
<1>3. u.global = "BalanceMode" /\ u.balance = c /\ u.quorum = None /\ u.phase = None
  BY <1>1 DEF Balance
<1>4. u = Balance(c)
  BY StateOfFields, <1>2, <1>3 DEF Balance
<1> QED BY <1>1, <1>4

LEMMA BalanceToGlobal ==
  ASSUME NEW b, NEW g
  PROVE  [Balance(b) EXCEPT !.global = g, !.balance = None] = Global(g)
<1>1. PICK u : u = [Balance(b) EXCEPT !.global = g, !.balance = None]
  OBVIOUS
<1>2. DOMAIN u = {"global", "balance", "quorum", "phase"} /\ u = [f \in DOMAIN u |-> u[f]]
  BY <1>1 DEF Balance
<1>3. u.global = g /\ u.balance = None /\ u.quorum = None /\ u.phase = None
  BY <1>1 DEF Balance
<1>4. u = Global(g)
  BY StateOfFields, <1>2, <1>3 DEF Global
<1> QED BY <1>1, <1>4

LEMMA BalanceToQuorum ==
  ASSUME NEW b, NEW q
  PROVE  [Balance(b) EXCEPT !.balance = "Quorum", !.quorum = q] = Quorum(q)
<1>1. PICK u : u = [Balance(b) EXCEPT !.balance = "Quorum", !.quorum = q]
  OBVIOUS
<1>2. DOMAIN u = {"global", "balance", "quorum", "phase"} /\ u = [f \in DOMAIN u |-> u[f]]
  BY <1>1 DEF Balance
<1>3. u.global = "BalanceMode" /\ u.balance = "Quorum" /\ u.quorum = q /\ u.phase = None
  BY <1>1 DEF Balance
<1>4. u = Quorum(q)
  BY StateOfFields, <1>2, <1>3 DEF Quorum
<1> QED BY <1>1, <1>4

LEMMA SwitchQuorum ==
  ASSUME NEW q, NEW r
  PROVE  [Quorum(q) EXCEPT !.quorum = r] = Quorum(r)
<1>1. PICK u : u = [Quorum(q) EXCEPT !.quorum = r]
  OBVIOUS
<1>2. DOMAIN u = {"global", "balance", "quorum", "phase"} /\ u = [f \in DOMAIN u |-> u[f]]
  BY <1>1 DEF Quorum
<1>3. u.global = "BalanceMode" /\ u.balance = "Quorum" /\ u.quorum = r /\ u.phase = None
  BY <1>1 DEF Quorum
<1>4. u = Quorum(r)
  BY StateOfFields, <1>2, <1>3 DEF Quorum
<1> QED BY <1>1, <1>4

LEMMA QuorumToGlobal ==
  ASSUME NEW q, NEW g
  PROVE  [Quorum(q) EXCEPT !.global = g, !.balance = None, !.quorum = None] = Global(g)
<1>1. PICK u : u = [Quorum(q) EXCEPT !.global = g, !.balance = None, !.quorum = None]
  OBVIOUS
<1>2. DOMAIN u = {"global", "balance", "quorum", "phase"} /\ u = [f \in DOMAIN u |-> u[f]]
  BY <1>1 DEF Quorum
<1>3. u.global = g /\ u.balance = None /\ u.quorum = None /\ u.phase = None
  BY <1>1 DEF Quorum
<1>4. u = Global(g)
  BY StateOfFields, <1>2, <1>3 DEF Global
<1> QED BY <1>1, <1>4

LEMMA QuorumToPhase ==
  ASSUME NEW q, NEW p
  PROVE  [Quorum(q) EXCEPT !.balance = "Phase", !.phase = p, !.quorum = None] = Phase(p)
<1>1. PICK u : u = [Quorum(q) EXCEPT !.balance = "Phase", !.phase = p, !.quorum = None]
  OBVIOUS
<1>2. DOMAIN u = {"global", "balance", "quorum", "phase"} /\ u = [f \in DOMAIN u |-> u[f]]
  BY <1>1 DEF Quorum
<1>3. u.global = "BalanceMode" /\ u.balance = "Phase" /\ u.quorum = None /\ u.phase = p
  BY <1>1 DEF Quorum
<1>4. u = Phase(p)
  BY StateOfFields, <1>2, <1>3 DEF Phase
<1> QED BY <1>1, <1>4

LEMMA BalanceToPhase ==
  ASSUME NEW b, NEW p
  PROVE  [Balance(b) EXCEPT !.balance = "Phase", !.phase = p, !.quorum = None] = Phase(p)
<1>1. PICK u : u = [Balance(b) EXCEPT !.balance = "Phase", !.phase = p, !.quorum = None]
  OBVIOUS
<1>2. DOMAIN u = {"global", "balance", "quorum", "phase"} /\ u = [f \in DOMAIN u |-> u[f]]
  BY <1>1 DEF Balance
<1>3. u.global = "BalanceMode" /\ u.balance = "Phase" /\ u.quorum = None /\ u.phase = p
  BY <1>1 DEF Balance
<1>4. u = Phase(p)
  BY StateOfFields, <1>2, <1>3 DEF Phase
<1> QED BY <1>1, <1>4

LEMMA SwitchPhase ==
  ASSUME NEW p, NEW r
  PROVE  [Phase(p) EXCEPT !.phase = r] = Phase(r)
<1>1. PICK u : u = [Phase(p) EXCEPT !.phase = r]
  OBVIOUS
<1>2. DOMAIN u = {"global", "balance", "quorum", "phase"} /\ u = [f \in DOMAIN u |-> u[f]]
  BY <1>1 DEF Phase
<1>3. u.global = "BalanceMode" /\ u.balance = "Phase" /\ u.quorum = None /\ u.phase = r
  BY <1>1 DEF Phase
<1>4. u = Phase(r)
  BY StateOfFields, <1>2, <1>3 DEF Phase
<1> QED BY <1>1, <1>4

LEMMA PhaseToBalance ==
  ASSUME NEW p, NEW b
  PROVE  [Phase(p) EXCEPT !.balance = b, !.phase = None] = Balance(b)
<1>1. PICK u : u = [Phase(p) EXCEPT !.balance = b, !.phase = None]
  OBVIOUS
<1>2. DOMAIN u = {"global", "balance", "quorum", "phase"} /\ u = [f \in DOMAIN u |-> u[f]]
  BY <1>1 DEF Phase
<1>3. u.global = "BalanceMode" /\ u.balance = b /\ u.quorum = None /\ u.phase = None
  BY <1>1 DEF Phase
<1>4. u = Balance(b)
  BY StateOfFields, <1>2, <1>3 DEF Balance
<1> QED BY <1>1, <1>4

\* The same of the end of the last handshake.
LEMMA OutEdit ==
  [Balance("OutHandshake") EXCEPT !.global = "Normal", !.balance = None, !.quorum = None] = Global("Normal")
<1>1. PICK u : u = [Balance("OutHandshake") EXCEPT !.global = "Normal", !.balance = None, !.quorum = None]
  OBVIOUS
<1>2. DOMAIN u = {"global", "balance", "quorum", "phase"} /\ u = [f \in DOMAIN u |-> u[f]]
  BY <1>1 DEF Balance
<1>3. u.global = "Normal" /\ u.balance = None /\ u.quorum = None /\ u.phase = None
  BY <1>1 DEF Balance
<1>4. u = Global("Normal")
  BY <1>2, <1>3 DEF Global
<1> QED BY <1>1, <1>4

\* FsmState::step makes these transitions and no other.
LEMMA TransitionIs ==
  ASSUME NEW s \in FsmState, Hierarchical(s), NEW e \in Event, NEW t \in Step(s, e)
  PROVE  Stays(s, e, t.to, t.acts) \/ Moves(s, e, t.to, t.acts)
<1>1. PICK i \in StepInner(s, e) : t.to = i.to /\ t.acts = i.acts \o ComputeOnEntry(s, i.to)
  BY TransitionOf, ZenonT(60)
<1>2. ASSUME NEW u, NEW as, NEW v, i \in Valid(u, as), as \o ComputeOnEntry(s, u) = v
      PROVE  t.to = u /\ t.acts = v
  <2>1. i.to = u /\ i.acts = as
    BY <1>2, ValidFields
  <2> QED BY <1>1, <1>2, <2>1, Zenon
<1> USE DEF Invalid, StopTimerOnly, None, Checks, Repeats, Handshakes
<1>4. CASE s.global = "Start"
  <2>0. i \in StepStart(s, e) /\ s = Global("Start")
    BY <1>4, StatesAre DEF StepInner
  <2>1. CASE e = "Start"
    <3>1. i \in Valid([s EXCEPT !.global = "BalanceMode", !.balance = "InitBalanceMode"], << >>) /\ [s EXCEPT !.global = "BalanceMode", !.balance = "InitBalanceMode"] = Balance("InitBalanceMode")
      <4>1. i \in Valid([s EXCEPT !.global = "BalanceMode", !.balance = "InitBalanceMode"], << >>)
        BY <2>1, <2>0 DEF StepStart
      <4>2. [s EXCEPT !.global = "BalanceMode", !.balance = "InitBalanceMode"] = Balance("InitBalanceMode")
        BY <2>0, EnterBalance, Zenon
      <4> QED BY <4>1, <4>2
    <3>2. << >> \o ComputeOnEntry(s, Balance("InitBalanceMode")) = << OnEntry("OnEntryBalance", "InitBalanceMode") >>
      BY <2>1, <2>0, Vectors DEF Unphased, SubStateQuorum, SubStatePhase
    <3>3. t.to = Balance("InitBalanceMode") /\ t.acts = << OnEntry("OnEntryBalance", "InitBalanceMode") >>
      BY <1>2, <3>1, <3>2, Zenon
    <3> QED BY <2>1, <2>0, <3>3 DEF Moves, ToInit, Global, Balance, Quorum, Phase
  <2> QED BY <2>1, <2>0 DEF StepStart, Balance, Quorum
<1>5. CASE s.global = "Disconnected"
  <2>0. i \in StepDisconnected(s, e) /\ s = Global("Disconnected")
    BY <1>5, StatesAre DEF StepInner
  <2>1. CASE e = "LocalConnected"
    <3>1. i \in Valid([s EXCEPT !.global = "BalanceMode", !.balance = "InitBalanceMode"], << >>) /\ [s EXCEPT !.global = "BalanceMode", !.balance = "InitBalanceMode"] = Balance("InitBalanceMode")
      <4>1. i \in Valid([s EXCEPT !.global = "BalanceMode", !.balance = "InitBalanceMode"], << >>)
        BY <2>1, <2>0 DEF StepDisconnected
      <4>2. [s EXCEPT !.global = "BalanceMode", !.balance = "InitBalanceMode"] = Balance("InitBalanceMode")
        BY <2>0, EnterBalance, Zenon
      <4> QED BY <4>1, <4>2
    <3>2. << >> \o ComputeOnEntry(s, Balance("InitBalanceMode")) = << OnEntry("OnEntryBalance", "InitBalanceMode") >>
      BY <2>1, <2>0, Vectors DEF Unphased, SubStateQuorum, SubStatePhase
    <3>3. t.to = Balance("InitBalanceMode") /\ t.acts = << OnEntry("OnEntryBalance", "InitBalanceMode") >>
      BY <1>2, <3>1, <3>2, Zenon
    <3> QED BY <2>1, <2>0, <3>3 DEF Moves, ToInit, Global, Balance, Quorum, Phase
  <2> QED BY <2>1, <2>0 DEF StepDisconnected, Balance, Quorum
<1>6. CASE s.global = "Normal"
  <2>0. i \in StepNormal(s, e) /\ s = Global("Normal")
    BY <1>6, StatesAre DEF StepInner
  <2>1. CASE e = "LocalDisconnected"
    <3>1. i \in Valid([s EXCEPT !.global = "Disconnected"], << Do("StopSendHeartbeatMessageNormal") >>) /\ [s EXCEPT !.global = "Disconnected"] = Global("Disconnected")
      <4>1. i \in Valid([s EXCEPT !.global = "Disconnected"], << Do("StopSendHeartbeatMessageNormal") >>)
        BY <2>1, <2>0 DEF StepNormal
      <4>2. [s EXCEPT !.global = "Disconnected"] = Global("Disconnected")
        BY <2>0, SwitchGlobal, Zenon
      <4> QED BY <4>1, <4>2
    <3>2. << Do("StopSendHeartbeatMessageNormal") >> \o ComputeOnEntry(s, Global("Disconnected")) = << Do("StopSendHeartbeatMessageNormal"), Do("OnEntryDisconnected") >>
      BY <2>1, <2>0, Vectors DEF Unphased, SubStateQuorum, SubStatePhase
    <3>3. t.to = Global("Disconnected") /\ t.acts = << Do("StopSendHeartbeatMessageNormal"), Do("OnEntryDisconnected") >>
      BY <1>2, <3>1, <3>2, Zenon
    <3> QED BY <2>1, <2>0, <3>3 DEF Moves, ToDisconnected, Global, Balance, Quorum, Phase
  <2> QED BY <2>1, <2>0 DEF StepNormal, Balance, Quorum
<1>7. CASE s.global = "SafeMode"
  <2>0. i \in StepSafeMode(s, e) /\ s = Global("SafeMode")
    BY <1>7, StatesAre DEF StepInner
  <2>1. CASE e = "LocalDisconnected"
    <3>1. i \in Valid([s EXCEPT !.global = "Disconnected"], << Do("StopSendHeartbeatMessageSafeMode") >>) /\ [s EXCEPT !.global = "Disconnected"] = Global("Disconnected")
      <4>1. i \in Valid([s EXCEPT !.global = "Disconnected"], << Do("StopSendHeartbeatMessageSafeMode") >>)
        BY <2>1, <2>0 DEF StepSafeMode
      <4>2. [s EXCEPT !.global = "Disconnected"] = Global("Disconnected")
        BY <2>0, SwitchGlobal, Zenon
      <4> QED BY <4>1, <4>2
    <3>2. << Do("StopSendHeartbeatMessageSafeMode") >> \o ComputeOnEntry(s, Global("Disconnected")) = << Do("StopSendHeartbeatMessageSafeMode"), Do("OnEntryDisconnected") >>
      BY <2>1, <2>0, Vectors DEF Unphased, SubStateQuorum, SubStatePhase
    <3>3. t.to = Global("Disconnected") /\ t.acts = << Do("StopSendHeartbeatMessageSafeMode"), Do("OnEntryDisconnected") >>
      BY <1>2, <3>1, <3>2, Zenon
    <3> QED BY <2>1, <2>0, <3>3 DEF Moves, ToDisconnected, Global, Balance, Quorum, Phase
  <2>2. CASE e \in {"Timeout", "QuorumSafeMode"}
    <3>1. i \in Valid([s EXCEPT !.global = "Normal"], << Do("StopSendHeartbeatMessageSafeMode") >>) /\ [s EXCEPT !.global = "Normal"] = Global("Normal")
      <4>1. i \in Valid([s EXCEPT !.global = "Normal"], << Do("StopSendHeartbeatMessageSafeMode") >>)
        BY <2>2, <2>0 DEF StepSafeMode
      <4>2. [s EXCEPT !.global = "Normal"] = Global("Normal")
        BY <2>0, SwitchGlobal, Zenon
      <4> QED BY <4>1, <4>2
    <3>2. << Do("StopSendHeartbeatMessageSafeMode") >> \o ComputeOnEntry(s, Global("Normal")) = << Do("StopSendHeartbeatMessageSafeMode"), Do("OnEntryNormal") >>
      BY <2>2, <2>0, Vectors DEF Unphased, SubStateQuorum, SubStatePhase
    <3>3. t.to = Global("Normal") /\ t.acts = << Do("StopSendHeartbeatMessageSafeMode"), Do("OnEntryNormal") >>
      BY <1>2, <3>1, <3>2, Zenon
    <3> QED BY <2>2, <2>0, <3>3 DEF Moves, ToNormal, Global, Balance, Quorum, Phase
  <2> QED BY <2>1, <2>2, <2>0 DEF StepSafeMode, Balance, Quorum
<1>8. CASE s.global = "BalanceMode"
  <2>0. i \in StepBalanceMode(s, e)
    BY <1>8 DEF StepInner
  <2>1. CASE e = "LocalDisconnected"
    <3>1. i \in Valid(Global("Disconnected"), << Do("StopSendHeartbeatMessagePhase"), Do("StopTimer") >>)
      BY <2>0, <2>1, <1>8 DEF StepBalanceMode, Global
    <3>2. << Do("StopSendHeartbeatMessagePhase"), Do("StopTimer") >> \o ComputeOnEntry(s, Global("Disconnected")) = << Do("StopSendHeartbeatMessagePhase"), Do("StopTimer"), Do("OnEntryDisconnected") >>
      BY <2>0, <2>1, <1>8, Vectors DEF Unphased, SubStateQuorum, SubStatePhase
    <3>3. t.to = Global("Disconnected") /\ t.acts = << Do("StopSendHeartbeatMessagePhase"), Do("StopTimer"), Do("OnEntryDisconnected") >>
      BY <1>2, <3>1, <3>2, Zenon
    <3> QED BY <2>0, <2>1, <1>8, <3>3 DEF Moves, ToDisconnected, Global, Balance, Quorum, Phase
  <2>2. CASE e # "LocalDisconnected" /\ s.balance = "InitBalanceMode"
    <3>0. i \in StepInitBalanceMode(s, e) /\ s = Balance("InitBalanceMode")
      BY <2>0, <2>2, <1>8, StatesAre DEF StepBalanceMode
    <3>1. CASE e = "BalanceEpochOk"
      <4>1. i \in Valid([s EXCEPT !.balance = "InHandshake"], << >>) /\ [s EXCEPT !.balance = "InHandshake"] = Balance("InHandshake")
        <5>1. i \in Valid([s EXCEPT !.balance = "InHandshake"], << >>)
          BY <3>1, <3>0 DEF StepInitBalanceMode
        <5>2. [s EXCEPT !.balance = "InHandshake"] = Balance("InHandshake")
          BY <3>0, SwitchBalance, Zenon
        <5> QED BY <5>1, <5>2
      <4>2. << >> \o ComputeOnEntry(s, Balance("InHandshake")) = << OnEntry("OnEntryBalance", "InHandshake") >>
        BY <3>1, <3>0, Vectors DEF Unphased, SubStateQuorum, SubStatePhase
      <4>3. t.to = Balance("InHandshake") /\ t.acts = << OnEntry("OnEntryBalance", "InHandshake") >>
        BY <1>2, <4>1, <4>2, Zenon
      <4> QED BY <3>1, <3>0, <4>3 DEF Moves, ToInHandshake, Global, Balance, Quorum, Phase
    <3>2. CASE e = "BalanceEpochNotOk"
      <4>1. i \in Valid([s EXCEPT !.global = "SafeMode", !.balance = None], << >>) /\ [s EXCEPT !.global = "SafeMode", !.balance = None] = Global("SafeMode")
        <5>1. i \in Valid([s EXCEPT !.global = "SafeMode", !.balance = None], << >>)
          BY <3>2, <3>0 DEF StepInitBalanceMode
        <5>2. [s EXCEPT !.global = "SafeMode", !.balance = None] = Global("SafeMode")
          BY <3>0, BalanceToGlobal, Zenon
        <5> QED BY <5>1, <5>2
      <4>2. << >> \o ComputeOnEntry(s, Global("SafeMode")) = << Do("OnEntrySafeMode") >>
        BY <3>2, <3>0, Vectors DEF Unphased, SubStateQuorum, SubStatePhase
      <4>3. t.to = Global("SafeMode") /\ t.acts = << Do("OnEntrySafeMode") >>
        BY <1>2, <4>1, <4>2, Zenon
      <4> QED BY <3>2, <3>0, <4>3 DEF Moves, ToSafeMode, Global, Balance, Quorum, Phase
    <3> QED BY <3>1, <3>2, <3>0 DEF StepInitBalanceMode, Balance, Quorum
  <2>3. CASE e # "LocalDisconnected" /\ s.balance = "InHandshake"
    <3>0. i \in StepInHandshake(s, e) /\ s = Balance("InHandshake")
      BY <2>0, <2>3, <1>8, StatesAre DEF StepBalanceMode
    <3>1. CASE e = "Timeout"
      <4>1. i \in Valid([s EXCEPT !.balance = "Quorum", !.quorum = "CheckQuorumIn"], << >>) /\ [s EXCEPT !.balance = "Quorum", !.quorum = "CheckQuorumIn"] = Quorum("CheckQuorumIn")
        <5>1. i \in Valid([s EXCEPT !.balance = "Quorum", !.quorum = "CheckQuorumIn"], << >>)
          BY <3>1, <3>0 DEF StepInHandshake, ApproveIn
        <5>2. [s EXCEPT !.balance = "Quorum", !.quorum = "CheckQuorumIn"] = Quorum("CheckQuorumIn")
          BY <3>0, BalanceToQuorum, Zenon
        <5> QED BY <5>1, <5>2
      <4>2. << >> \o ComputeOnEntry(s, Quorum("CheckQuorumIn")) = << OnEntry("OnEntryBalance", "Quorum"), OnEntry("OnEntryQuorum", "CheckQuorumIn") >>
        BY <3>1, <3>0, Vectors DEF Unphased, SubStateQuorum, SubStatePhase
      <4>3. t.to = Quorum("CheckQuorumIn") /\ t.acts = << OnEntry("OnEntryBalance", "Quorum"), OnEntry("OnEntryQuorum", "CheckQuorumIn") >>
        BY <1>2, <4>1, <4>2, Zenon
      <4> QED BY <3>1, <3>0, <4>3 DEF Moves, ToCheck, Global, Balance, Quorum, Phase
    <3>2. CASE e = "ApproveQuorum"
      <4>1. i \in Valid([s EXCEPT !.balance = "Phase", !.phase = "Alert", !.quorum = None], << Do("StopTimer") >>) /\ [s EXCEPT !.balance = "Phase", !.phase = "Alert", !.quorum = None] = Phase("Alert")
        <5>1. i \in Valid([s EXCEPT !.balance = "Phase", !.phase = "Alert", !.quorum = None], << Do("StopTimer") >>)
          BY <3>2, <3>0 DEF StepInHandshake, ApproveIn
        <5>2. [s EXCEPT !.balance = "Phase", !.phase = "Alert", !.quorum = None] = Phase("Alert")
          BY <3>0, BalanceToPhase, Zenon
        <5> QED BY <5>1, <5>2
      <4>2. << Do("StopTimer") >> \o ComputeOnEntry(s, Phase("Alert")) = << Do("StopTimer"), OnEntry("OnEntryBalance", "Phase"), OnEntry("OnEntryPhase", "Alert") >>
        BY <3>2, <3>0, Vectors DEF Unphased, SubStateQuorum, SubStatePhase
      <4>3. t.to = Phase("Alert") /\ t.acts = << Do("StopTimer"), OnEntry("OnEntryBalance", "Phase"), OnEntry("OnEntryPhase", "Alert") >>
        BY <1>2, <4>1, <4>2, Zenon
      <4> QED BY <3>2, <3>0, <4>3 DEF Moves, ToAlert, Global, Balance, Quorum, Phase
    <3>3. CASE e = "NewMessageHandshake"
      <4>1. i \in Valid(s, << Do("CalculateQuorum") >>)
        BY <3>3, <3>0 DEF StepInHandshake, ApproveIn
      <4>2. << Do("CalculateQuorum") >> \o ComputeOnEntry(s, s) = << Do("CalculateQuorum") >>
        BY <3>3, <3>0, Vectors DEF Unphased, SubStateQuorum, SubStatePhase
      <4>3. t.to = s /\ t.acts = << Do("CalculateQuorum") >>
        BY <1>2, <4>1, <4>2, Zenon
      <4> QED BY <3>3, <3>0, <4>3 DEF Stays, Global, Balance, Quorum, Phase
    <3>4. CASE e = "NotApproveQuorum"
      <4>1. i \in Valid(s, << >>)
        BY <3>4, <3>0 DEF StepInHandshake, ApproveIn
      <4>2. << >> \o ComputeOnEntry(s, s) = << >>
        BY <3>4, <3>0, Vectors DEF Unphased, SubStateQuorum, SubStatePhase
      <4>3. t.to = s /\ t.acts = << >>
        BY <1>2, <4>1, <4>2, Zenon
      <4> QED BY <3>4, <3>0, <4>3 DEF Stays, Global, Balance, Quorum, Phase
    <3> QED BY <3>1, <3>2, <3>3, <3>4, <3>0 DEF StepInHandshake, ApproveIn, Balance, Quorum
  <2>4. CASE e # "LocalDisconnected" /\ s.balance = "OutHandshake"
    <3>0. i \in StepOutHandshake(s, e) /\ s = Balance("OutHandshake")
      BY <2>0, <2>4, <1>8, StatesAre DEF StepBalanceMode
    <3>1. CASE e = "Timeout"
      <4>1. i \in Valid([s EXCEPT !.balance = "Quorum", !.quorum = "CheckQuorumOut"], << >>) /\ [s EXCEPT !.balance = "Quorum", !.quorum = "CheckQuorumOut"] = Quorum("CheckQuorumOut")
        <5>1. i \in Valid([s EXCEPT !.balance = "Quorum", !.quorum = "CheckQuorumOut"], << >>)
          BY <3>1, <3>0 DEF StepOutHandshake, ApproveOut
        <5>2. [s EXCEPT !.balance = "Quorum", !.quorum = "CheckQuorumOut"] = Quorum("CheckQuorumOut")
          BY <3>0, BalanceToQuorum, Zenon
        <5> QED BY <5>1, <5>2
      <4>2. << >> \o ComputeOnEntry(s, Quorum("CheckQuorumOut")) = << OnEntry("OnEntryBalance", "Quorum"), OnEntry("OnEntryQuorum", "CheckQuorumOut") >>
        BY <3>1, <3>0, Vectors DEF Unphased, SubStateQuorum, SubStatePhase
      <4>3. t.to = Quorum("CheckQuorumOut") /\ t.acts = << OnEntry("OnEntryBalance", "Quorum"), OnEntry("OnEntryQuorum", "CheckQuorumOut") >>
        BY <1>2, <4>1, <4>2, Zenon
      <4> QED BY <3>1, <3>0, <4>3 DEF Moves, ToCheck, Global, Balance, Quorum, Phase
    <3>2. CASE e = "ApproveQuorum"
      <4>1. i \in Valid([s EXCEPT !.global = "Normal", !.balance = None, !.quorum = None], << Do("StopTimer") >>) /\ [s EXCEPT !.global = "Normal", !.balance = None, !.quorum = None] = Global("Normal")
        <5>1. i \in Valid([s EXCEPT !.global = "Normal", !.balance = None, !.quorum = None], << Do("StopTimer") >>)
          BY <3>2, <3>0 DEF StepOutHandshake, ApproveOut
        <5>2. [s EXCEPT !.global = "Normal", !.balance = None, !.quorum = None] = Global("Normal")
          <6>1. [Balance("OutHandshake") EXCEPT !.global = "Normal", !.balance = None, !.quorum = None] = Global("Normal")
            BY OutEdit
          <6> QED BY <3>0, <6>1, Zenon
        <5> QED BY <5>1, <5>2
      <4>2. << Do("StopTimer") >> \o ComputeOnEntry(s, Global("Normal")) = << Do("StopTimer"), Do("OnEntryNormal") >>
        BY <3>2, <3>0, Vectors DEF Unphased, SubStateQuorum, SubStatePhase
      <4>3. t.to = Global("Normal") /\ t.acts = << Do("StopTimer"), Do("OnEntryNormal") >>
        BY <1>2, <4>1, <4>2, Zenon
      <4> QED BY <3>2, <3>0, <4>3 DEF Moves, ToNormal, Global, Balance, Quorum, Phase
    <3>3. CASE e = "NewMessageHandshake"
      <4>1. i \in Valid(s, << Do("CalculateQuorum") >>)
        BY <3>3, <3>0 DEF StepOutHandshake, ApproveOut
      <4>2. << Do("CalculateQuorum") >> \o ComputeOnEntry(s, s) = << Do("CalculateQuorum") >>
        BY <3>3, <3>0, Vectors DEF Unphased, SubStateQuorum, SubStatePhase
      <4>3. t.to = s /\ t.acts = << Do("CalculateQuorum") >>
        BY <1>2, <4>1, <4>2, Zenon
      <4> QED BY <3>3, <3>0, <4>3 DEF Stays, Global, Balance, Quorum, Phase
    <3>4. CASE e = "NotApproveQuorum"
      <4>1. i \in Valid(s, << >>)
        BY <3>4, <3>0 DEF StepOutHandshake, ApproveOut
      <4>2. << >> \o ComputeOnEntry(s, s) = << >>
        BY <3>4, <3>0, Vectors DEF Unphased, SubStateQuorum, SubStatePhase
      <4>3. t.to = s /\ t.acts = << >>
        BY <1>2, <4>1, <4>2, Zenon
      <4> QED BY <3>4, <3>0, <4>3 DEF Stays, Global, Balance, Quorum, Phase
    <3> QED BY <3>1, <3>2, <3>3, <3>4, <3>0 DEF StepOutHandshake, ApproveOut, Balance, Quorum
  <2>5. CASE e # "LocalDisconnected" /\ s.balance = "Quorum"
    <3>0. i \in StepQuorum(s, e) /\ s = Quorum(s.quorum) /\ s.quorum \in SubStateQuorum
      BY <2>0, <2>5, <1>8, StatesAre DEF StepBalanceMode
    <3>1. CASE s.quorum = "CheckQuorumIn"
      <4>0. i \in StepCheckQuorum(s, e, "RepeatHandshakeIn", ApproveIn(s)) /\ s = Quorum("CheckQuorumIn")
        BY <3>0, <3>1 DEF StepQuorum
      <4>1. CASE e = "NotApproveQuorum"
        <5>1. i \in Valid([s EXCEPT !.quorum = "RepeatHandshakeIn"], << >>) /\ [s EXCEPT !.quorum = "RepeatHandshakeIn"] = Quorum("RepeatHandshakeIn")
          <6>1. i \in Valid([s EXCEPT !.quorum = "RepeatHandshakeIn"], << >>)
            BY <4>1, <4>0 DEF StepCheckQuorum, ApproveIn
          <6>2. [s EXCEPT !.quorum = "RepeatHandshakeIn"] = Quorum("RepeatHandshakeIn")
            BY <4>0, SwitchQuorum, Zenon
          <6> QED BY <6>1, <6>2
        <5>2. << >> \o ComputeOnEntry(s, Quorum("RepeatHandshakeIn")) = << OnEntry("OnEntryQuorum", "RepeatHandshakeIn") >>
          BY <4>1, <4>0, Vectors DEF Unphased, SubStateQuorum, SubStatePhase
        <5>3. t.to = Quorum("RepeatHandshakeIn") /\ t.acts = << OnEntry("OnEntryQuorum", "RepeatHandshakeIn") >>
          BY <1>2, <5>1, <5>2, Zenon
        <5> QED BY <4>1, <4>0, <5>3 DEF Moves, ToRepeat, Global, Balance, Quorum, Phase
      <4>2. CASE e = "ApproveQuorum"
        <5>1. i \in Valid([s EXCEPT !.balance = "Phase", !.phase = "Alert", !.quorum = None], << Do("StopTimer") >>) /\ [s EXCEPT !.balance = "Phase", !.phase = "Alert", !.quorum = None] = Phase("Alert")
          <6>1. i \in Valid([s EXCEPT !.balance = "Phase", !.phase = "Alert", !.quorum = None], << Do("StopTimer") >>)
            BY <4>2, <4>0 DEF StepCheckQuorum, ApproveIn
          <6>2. [s EXCEPT !.balance = "Phase", !.phase = "Alert", !.quorum = None] = Phase("Alert")
            BY <4>0, QuorumToPhase, Zenon
          <6> QED BY <6>1, <6>2
        <5>2. << Do("StopTimer") >> \o ComputeOnEntry(s, Phase("Alert")) = << Do("StopTimer"), OnEntry("OnEntryBalance", "Phase"), OnEntry("OnEntryPhase", "Alert") >>
          BY <4>2, <4>0, Vectors DEF Unphased, SubStateQuorum, SubStatePhase
        <5>3. t.to = Phase("Alert") /\ t.acts = << Do("StopTimer"), OnEntry("OnEntryBalance", "Phase"), OnEntry("OnEntryPhase", "Alert") >>
          BY <1>2, <5>1, <5>2, Zenon
        <5> QED BY <4>2, <4>0, <5>3 DEF Moves, ToAlert, Global, Balance, Quorum, Phase
      <4>3. CASE e = "NotApproveNotAttempts"
        <5>1. i \in Valid([s EXCEPT !.global = "SafeMode", !.balance = None, !.quorum = None], << >>) /\ [s EXCEPT !.global = "SafeMode", !.balance = None, !.quorum = None] = Global("SafeMode")
          <6>1. i \in Valid([s EXCEPT !.global = "SafeMode", !.balance = None, !.quorum = None], << >>)
            BY <4>3, <4>0 DEF StepCheckQuorum, ApproveIn
          <6>2. [s EXCEPT !.global = "SafeMode", !.balance = None, !.quorum = None] = Global("SafeMode")
            BY <4>0, QuorumToGlobal, Zenon
          <6> QED BY <6>1, <6>2
        <5>2. << >> \o ComputeOnEntry(s, Global("SafeMode")) = << Do("OnEntrySafeMode") >>
          BY <4>3, <4>0, Vectors DEF Unphased, SubStateQuorum, SubStatePhase
        <5>3. t.to = Global("SafeMode") /\ t.acts = << Do("OnEntrySafeMode") >>
          BY <1>2, <5>1, <5>2, Zenon
        <5> QED BY <4>3, <4>0, <5>3 DEF Moves, ToSafeMode, Global, Balance, Quorum, Phase
      <4> QED BY <4>1, <4>2, <4>3, <4>0 DEF StepCheckQuorum, ApproveIn, Balance, Quorum
    <3>2. CASE s.quorum = "RepeatHandshakeIn"
      <4>0. i \in StepRepeatHandshake(s, e, "CheckQuorumIn", ApproveIn(s)) /\ s = Quorum("RepeatHandshakeIn")
        BY <3>0, <3>2 DEF StepQuorum
      <4>1. CASE e = "Timeout"
        <5>1. i \in Valid([s EXCEPT !.quorum = "CheckQuorumIn"], << >>) /\ [s EXCEPT !.quorum = "CheckQuorumIn"] = Quorum("CheckQuorumIn")
          <6>1. i \in Valid([s EXCEPT !.quorum = "CheckQuorumIn"], << >>)
            BY <4>1, <4>0 DEF StepRepeatHandshake, ApproveIn
          <6>2. [s EXCEPT !.quorum = "CheckQuorumIn"] = Quorum("CheckQuorumIn")
            BY <4>0, SwitchQuorum, Zenon
          <6> QED BY <6>1, <6>2
        <5>2. << >> \o ComputeOnEntry(s, Quorum("CheckQuorumIn")) = << OnEntry("OnEntryQuorum", "CheckQuorumIn") >>
          BY <4>1, <4>0, Vectors DEF Unphased, SubStateQuorum, SubStatePhase
        <5>3. t.to = Quorum("CheckQuorumIn") /\ t.acts = << OnEntry("OnEntryQuorum", "CheckQuorumIn") >>
          BY <1>2, <5>1, <5>2, Zenon
        <5> QED BY <4>1, <4>0, <5>3 DEF Moves, ToCheck, Global, Balance, Quorum, Phase
      <4>2. CASE e = "ApproveQuorum"
        <5>1. i \in Valid([s EXCEPT !.balance = "Phase", !.phase = "Alert", !.quorum = None], << Do("StopTimer") >>) /\ [s EXCEPT !.balance = "Phase", !.phase = "Alert", !.quorum = None] = Phase("Alert")
          <6>1. i \in Valid([s EXCEPT !.balance = "Phase", !.phase = "Alert", !.quorum = None], << Do("StopTimer") >>)
            BY <4>2, <4>0 DEF StepRepeatHandshake, ApproveIn
          <6>2. [s EXCEPT !.balance = "Phase", !.phase = "Alert", !.quorum = None] = Phase("Alert")
            BY <4>0, QuorumToPhase, Zenon
          <6> QED BY <6>1, <6>2
        <5>2. << Do("StopTimer") >> \o ComputeOnEntry(s, Phase("Alert")) = << Do("StopTimer"), OnEntry("OnEntryBalance", "Phase"), OnEntry("OnEntryPhase", "Alert") >>
          BY <4>2, <4>0, Vectors DEF Unphased, SubStateQuorum, SubStatePhase
        <5>3. t.to = Phase("Alert") /\ t.acts = << Do("StopTimer"), OnEntry("OnEntryBalance", "Phase"), OnEntry("OnEntryPhase", "Alert") >>
          BY <1>2, <5>1, <5>2, Zenon
        <5> QED BY <4>2, <4>0, <5>3 DEF Moves, ToAlert, Global, Balance, Quorum, Phase
      <4>3. CASE e = "NewMessageHandshake"
        <5>1. i \in Valid(s, << Do("CalculateQuorum") >>)
          BY <4>3, <4>0 DEF StepRepeatHandshake, ApproveIn
        <5>2. << Do("CalculateQuorum") >> \o ComputeOnEntry(s, s) = << Do("CalculateQuorum") >>
          BY <4>3, <4>0, Vectors DEF Unphased, SubStateQuorum, SubStatePhase
        <5>3. t.to = s /\ t.acts = << Do("CalculateQuorum") >>
          BY <1>2, <5>1, <5>2, Zenon
        <5> QED BY <4>3, <4>0, <5>3 DEF Stays, Global, Balance, Quorum, Phase
      <4>4. CASE e = "NotApproveQuorum"
        <5>1. i \in Valid(s, << >>)
          BY <4>4, <4>0 DEF StepRepeatHandshake, ApproveIn
        <5>2. << >> \o ComputeOnEntry(s, s) = << >>
          BY <4>4, <4>0, Vectors DEF Unphased, SubStateQuorum, SubStatePhase
        <5>3. t.to = s /\ t.acts = << >>
          BY <1>2, <5>1, <5>2, Zenon
        <5> QED BY <4>4, <4>0, <5>3 DEF Stays, Global, Balance, Quorum, Phase
      <4> QED BY <4>1, <4>2, <4>3, <4>4, <4>0 DEF StepRepeatHandshake, ApproveIn, Balance, Quorum
    <3>3. CASE s.quorum = "CheckQuorumOut"
      <4>0. i \in StepCheckQuorum(s, e, "RepeatHandshakeOut", ApproveOut(s)) /\ s = Quorum("CheckQuorumOut")
        BY <3>0, <3>3 DEF StepQuorum
      <4>1. CASE e = "NotApproveQuorum"
        <5>1. i \in Valid([s EXCEPT !.quorum = "RepeatHandshakeOut"], << >>) /\ [s EXCEPT !.quorum = "RepeatHandshakeOut"] = Quorum("RepeatHandshakeOut")
          <6>1. i \in Valid([s EXCEPT !.quorum = "RepeatHandshakeOut"], << >>)
            BY <4>1, <4>0 DEF StepCheckQuorum, ApproveOut
          <6>2. [s EXCEPT !.quorum = "RepeatHandshakeOut"] = Quorum("RepeatHandshakeOut")
            BY <4>0, SwitchQuorum, Zenon
          <6> QED BY <6>1, <6>2
        <5>2. << >> \o ComputeOnEntry(s, Quorum("RepeatHandshakeOut")) = << OnEntry("OnEntryQuorum", "RepeatHandshakeOut") >>
          BY <4>1, <4>0, Vectors DEF Unphased, SubStateQuorum, SubStatePhase
        <5>3. t.to = Quorum("RepeatHandshakeOut") /\ t.acts = << OnEntry("OnEntryQuorum", "RepeatHandshakeOut") >>
          BY <1>2, <5>1, <5>2, Zenon
        <5> QED BY <4>1, <4>0, <5>3 DEF Moves, ToRepeat, Global, Balance, Quorum, Phase
      <4>2. CASE e = "ApproveQuorum"
        <5>1. i \in Valid([s EXCEPT !.global = "Normal", !.balance = None, !.quorum = None], << Do("StopTimer") >>) /\ [s EXCEPT !.global = "Normal", !.balance = None, !.quorum = None] = Global("Normal")
          <6>1. i \in Valid([s EXCEPT !.global = "Normal", !.balance = None, !.quorum = None], << Do("StopTimer") >>)
            BY <4>2, <4>0 DEF StepCheckQuorum, ApproveOut
          <6>2. [s EXCEPT !.global = "Normal", !.balance = None, !.quorum = None] = Global("Normal")
            BY <4>0, QuorumToGlobal, Zenon
          <6> QED BY <6>1, <6>2
        <5>2. << Do("StopTimer") >> \o ComputeOnEntry(s, Global("Normal")) = << Do("StopTimer"), Do("OnEntryNormal") >>
          BY <4>2, <4>0, Vectors DEF Unphased, SubStateQuorum, SubStatePhase
        <5>3. t.to = Global("Normal") /\ t.acts = << Do("StopTimer"), Do("OnEntryNormal") >>
          BY <1>2, <5>1, <5>2, Zenon
        <5> QED BY <4>2, <4>0, <5>3 DEF Moves, ToNormal, Global, Balance, Quorum, Phase
      <4>3. CASE e = "NotApproveNotAttempts"
        <5>1. i \in Valid([s EXCEPT !.global = "SafeMode", !.balance = None, !.quorum = None], << >>) /\ [s EXCEPT !.global = "SafeMode", !.balance = None, !.quorum = None] = Global("SafeMode")
          <6>1. i \in Valid([s EXCEPT !.global = "SafeMode", !.balance = None, !.quorum = None], << >>)
            BY <4>3, <4>0 DEF StepCheckQuorum, ApproveOut
          <6>2. [s EXCEPT !.global = "SafeMode", !.balance = None, !.quorum = None] = Global("SafeMode")
            BY <4>0, QuorumToGlobal, Zenon
          <6> QED BY <6>1, <6>2
        <5>2. << >> \o ComputeOnEntry(s, Global("SafeMode")) = << Do("OnEntrySafeMode") >>
          BY <4>3, <4>0, Vectors DEF Unphased, SubStateQuorum, SubStatePhase
        <5>3. t.to = Global("SafeMode") /\ t.acts = << Do("OnEntrySafeMode") >>
          BY <1>2, <5>1, <5>2, Zenon
        <5> QED BY <4>3, <4>0, <5>3 DEF Moves, ToSafeMode, Global, Balance, Quorum, Phase
      <4> QED BY <4>1, <4>2, <4>3, <4>0 DEF StepCheckQuorum, ApproveOut, Balance, Quorum
    <3>4. CASE s.quorum = "RepeatHandshakeOut"
      <4>0. i \in StepRepeatHandshake(s, e, "CheckQuorumOut", ApproveOut(s)) /\ s = Quorum("RepeatHandshakeOut")
        BY <3>0, <3>4 DEF StepQuorum
      <4>1. CASE e = "Timeout"
        <5>1. i \in Valid([s EXCEPT !.quorum = "CheckQuorumOut"], << >>) /\ [s EXCEPT !.quorum = "CheckQuorumOut"] = Quorum("CheckQuorumOut")
          <6>1. i \in Valid([s EXCEPT !.quorum = "CheckQuorumOut"], << >>)
            BY <4>1, <4>0 DEF StepRepeatHandshake, ApproveOut
          <6>2. [s EXCEPT !.quorum = "CheckQuorumOut"] = Quorum("CheckQuorumOut")
            BY <4>0, SwitchQuorum, Zenon
          <6> QED BY <6>1, <6>2
        <5>2. << >> \o ComputeOnEntry(s, Quorum("CheckQuorumOut")) = << OnEntry("OnEntryQuorum", "CheckQuorumOut") >>
          BY <4>1, <4>0, Vectors DEF Unphased, SubStateQuorum, SubStatePhase
        <5>3. t.to = Quorum("CheckQuorumOut") /\ t.acts = << OnEntry("OnEntryQuorum", "CheckQuorumOut") >>
          BY <1>2, <5>1, <5>2, Zenon
        <5> QED BY <4>1, <4>0, <5>3 DEF Moves, ToCheck, Global, Balance, Quorum, Phase
      <4>2. CASE e = "ApproveQuorum"
        <5>1. i \in Valid([s EXCEPT !.global = "Normal", !.balance = None, !.quorum = None], << Do("StopTimer") >>) /\ [s EXCEPT !.global = "Normal", !.balance = None, !.quorum = None] = Global("Normal")
          <6>1. i \in Valid([s EXCEPT !.global = "Normal", !.balance = None, !.quorum = None], << Do("StopTimer") >>)
            BY <4>2, <4>0 DEF StepRepeatHandshake, ApproveOut
          <6>2. [s EXCEPT !.global = "Normal", !.balance = None, !.quorum = None] = Global("Normal")
            BY <4>0, QuorumToGlobal, Zenon
          <6> QED BY <6>1, <6>2
        <5>2. << Do("StopTimer") >> \o ComputeOnEntry(s, Global("Normal")) = << Do("StopTimer"), Do("OnEntryNormal") >>
          BY <4>2, <4>0, Vectors DEF Unphased, SubStateQuorum, SubStatePhase
        <5>3. t.to = Global("Normal") /\ t.acts = << Do("StopTimer"), Do("OnEntryNormal") >>
          BY <1>2, <5>1, <5>2, Zenon
        <5> QED BY <4>2, <4>0, <5>3 DEF Moves, ToNormal, Global, Balance, Quorum, Phase
      <4>3. CASE e = "NewMessageHandshake"
        <5>1. i \in Valid(s, << Do("CalculateQuorum") >>)
          BY <4>3, <4>0 DEF StepRepeatHandshake, ApproveOut
        <5>2. << Do("CalculateQuorum") >> \o ComputeOnEntry(s, s) = << Do("CalculateQuorum") >>
          BY <4>3, <4>0, Vectors DEF Unphased, SubStateQuorum, SubStatePhase
        <5>3. t.to = s /\ t.acts = << Do("CalculateQuorum") >>
          BY <1>2, <5>1, <5>2, Zenon
        <5> QED BY <4>3, <4>0, <5>3 DEF Stays, Global, Balance, Quorum, Phase
      <4>4. CASE e = "NotApproveQuorum"
        <5>1. i \in Valid(s, << >>)
          BY <4>4, <4>0 DEF StepRepeatHandshake, ApproveOut
        <5>2. << >> \o ComputeOnEntry(s, s) = << >>
          BY <4>4, <4>0, Vectors DEF Unphased, SubStateQuorum, SubStatePhase
        <5>3. t.to = s /\ t.acts = << >>
          BY <1>2, <5>1, <5>2, Zenon
        <5> QED BY <4>4, <4>0, <5>3 DEF Stays, Global, Balance, Quorum, Phase
      <4> QED BY <4>1, <4>2, <4>3, <4>4, <4>0 DEF StepRepeatHandshake, ApproveOut, Balance, Quorum
    <3> QED BY <3>0, <3>1, <3>2, <3>3, <3>4 DEF SubStateQuorum
  <2>6. CASE e # "LocalDisconnected" /\ s.balance = "Phase"
    <3>0. i \in StepPhase(s, e) /\ s = Phase(s.phase) /\ s.phase \in SubStatePhase
      BY <2>0, <2>6, <1>8, StatesAre DEF StepBalanceMode
    <3>1. e \in {"Timeout", "QuorumPhase"}
      BY <3>0 DEF StepPhase
    <3>2. CASE s.phase = "Alert"
      <4>0. i \in StepPhase(s, e) /\ e \in {"Timeout", "QuorumPhase"} /\ s = Phase("Alert")
        BY <3>0, <3>1, <3>2
      <4>1. i \in Valid([s EXCEPT !.phase = "Data"], << Do("StopTimer") >>) /\ [s EXCEPT !.phase = "Data"] = Phase("Data")
        <5>1. i \in Valid([s EXCEPT !.phase = "Data"], << Do("StopTimer") >>)
          BY <4>0 DEF StepPhase, Phase
        <5>2. [s EXCEPT !.phase = "Data"] = Phase("Data")
          BY <4>0, SwitchPhase, Zenon
        <5> QED BY <5>1, <5>2
      <4>2. << Do("StopTimer") >> \o ComputeOnEntry(s, Phase("Data")) = << Do("StopTimer"), OnEntry("OnEntryPhase", "Data") >>
        BY <4>0, Vectors DEF Unphased, SubStateQuorum, SubStatePhase
      <4>3. t.to = Phase("Data") /\ t.acts = << Do("StopTimer"), OnEntry("OnEntryPhase", "Data") >>
        BY <1>2, <4>1, <4>2, Zenon
      <4> QED BY <4>0, <4>3 DEF Moves, ToNextPhase, Global, Balance, Quorum, Phase
    <3>3. CASE s.phase = "Data"
      <4>0. i \in StepPhase(s, e) /\ e \in {"Timeout", "QuorumPhase"} /\ s = Phase("Data")
        BY <3>0, <3>1, <3>3
      <4>1. i \in Valid([s EXCEPT !.phase = "Monitor"], << Do("StopTimer") >>) /\ [s EXCEPT !.phase = "Monitor"] = Phase("Monitor")
        <5>1. i \in Valid([s EXCEPT !.phase = "Monitor"], << Do("StopTimer") >>)
          BY <4>0 DEF StepPhase, Phase
        <5>2. [s EXCEPT !.phase = "Monitor"] = Phase("Monitor")
          BY <4>0, SwitchPhase, Zenon
        <5> QED BY <5>1, <5>2
      <4>2. << Do("StopTimer") >> \o ComputeOnEntry(s, Phase("Monitor")) = << Do("StopTimer"), OnEntry("OnEntryPhase", "Monitor") >>
        BY <4>0, Vectors DEF Unphased, SubStateQuorum, SubStatePhase
      <4>3. t.to = Phase("Monitor") /\ t.acts = << Do("StopTimer"), OnEntry("OnEntryPhase", "Monitor") >>
        BY <1>2, <4>1, <4>2, Zenon
      <4> QED BY <4>0, <4>3 DEF Moves, ToNextPhase, Global, Balance, Quorum, Phase
    <3>4. CASE s.phase = "Monitor"
      <4>0. i \in StepPhase(s, e) /\ e \in {"Timeout", "QuorumPhase"} /\ s = Phase("Monitor")
        BY <3>0, <3>1, <3>4
      <4>1. i \in Valid([s EXCEPT !.balance = "OutHandshake", !.phase = None], << Do("StopSendHeartbeatMessagePhase"), Do("StopTimer") >>) /\ [s EXCEPT !.balance = "OutHandshake", !.phase = None] = Balance("OutHandshake")
        <5>1. i \in Valid([s EXCEPT !.balance = "OutHandshake", !.phase = None], << Do("StopSendHeartbeatMessagePhase"), Do("StopTimer") >>)
          BY <4>0 DEF StepPhase, Phase
        <5>2. [s EXCEPT !.balance = "OutHandshake", !.phase = None] = Balance("OutHandshake")
          BY <4>0, PhaseToBalance, Zenon
        <5> QED BY <5>1, <5>2
      <4>2. << Do("StopSendHeartbeatMessagePhase"), Do("StopTimer") >> \o ComputeOnEntry(s, Balance("OutHandshake")) = << Do("StopSendHeartbeatMessagePhase"), Do("StopTimer"), OnEntry("OnEntryBalance", "OutHandshake") >>
        BY <4>0, Vectors DEF Unphased, SubStateQuorum, SubStatePhase
      <4>3. t.to = Balance("OutHandshake") /\ t.acts = << Do("StopSendHeartbeatMessagePhase"), Do("StopTimer"), OnEntry("OnEntryBalance", "OutHandshake") >>
        BY <1>2, <4>1, <4>2, Zenon
      <4> QED BY <4>0, <4>3 DEF Moves, ToOutHandshake, Global, Balance, Quorum, Phase
    <3> QED BY <3>0, <3>2, <3>3, <3>4 DEF SubStatePhase
  <2> QED BY <2>0, <2>1, <2>2, <2>3, <2>4, <2>5, <2>6, <1>8 DEF StepBalanceMode
<1> QED BY <1>4, <1>5, <1>6, <1>7, <1>8 DEF FsmState, StateGlobal

-----------------------------------------------------------------------------
(* What the handler has still to perform *)

\* The vectors with an action in W; those whose last action in W is in T.
Busy(W)    == { v \in Seq(Action) : ~NoneIn(v, W) }
Ends(W, T) == { v \in Seq(Action) : LastIn(v, W, T) }

\* Of the vectors p on their way and of what is left of the one in hand, d: the last
\* action in W is in T; there is none in W.
Pending(p, d, W, T) == LastIn(p, Busy(W), Ends(W, T)) \/ (NoneIn(p, Busy(W)) /\ LastIn(d, W, T))
Done(p, d, W)       == NoneIn(p, Busy(W)) /\ NoneIn(d, W)

LEMMA NothingPending ==
  ASSUME NEW W, NEW T
  PROVE  Done(<< >>, << >>, W) /\ ~Pending(<< >>, << >>, W, T)
BY LastOfEmpty DEF Pending, Done

\* run_fsm sends one more vector.
LEMMA SendKeeps ==
  ASSUME NEW W, NEW T, NEW p \in Seq(Seq(Action)), NEW d \in Seq(Action), NEW v \in Seq(Action)
  PROVE  /\ LastIn(v, W, T) => Pending(Append(p, v), d, W, T)
         /\ NoneIn(v, W) /\ Pending(p, d, W, T) => Pending(Append(p, v), d, W, T)
         /\ NoneIn(v, W) /\ Done(p, d, W) => Done(Append(p, v), d, W)
<1> DEFINE V == Seq(Action)
<1>1. p \in Seq(V) /\ v \in V
  OBVIOUS
<1>2. /\ LastIn(v, W, T) => v \in Busy(W) \cap Ends(W, T)
      /\ NoneIn(v, W) => v \notin Busy(W)
  BY LastOrNone DEF Busy, Ends
<1> HIDE DEF V
<1>3. /\ v \in Busy(W) \cap Ends(W, T) => LastIn(Append(p, v), Busy(W), Ends(W, T))
      /\ v \notin Busy(W) /\ LastIn(p, Busy(W), Ends(W, T)) => LastIn(Append(p, v), Busy(W), Ends(W, T))
      /\ v \notin Busy(W) /\ NoneIn(p, Busy(W)) => NoneIn(Append(p, v), Busy(W))
  BY <1>1, LastOfAppend
<1> QED BY <1>2, <1>3, Zenon DEF Pending, Done

\* The handler takes the next vector.
LEMMA TakeKeeps ==
  ASSUME NEW W, NEW T, NEW p \in Seq(Seq(Action)), p # << >>
  PROVE  /\ Pending(p, << >>, W, T) => Pending(Tail(p), Head(p), W, T)
         /\ Done(p, << >>, W) => Done(Tail(p), Head(p), W)
<1> DEFINE V == Seq(Action)
<1>1. p \in Seq(V)
  OBVIOUS
<1> HIDE DEF V
<1>2. Head(p) \in V
  BY <1>1, TailElements
<1>3. /\ LastIn(p, Busy(W), Ends(W, T)) => \/ LastIn(Tail(p), Busy(W), Ends(W, T))
                                           \/ NoneIn(Tail(p), Busy(W)) /\ Head(p) \in Busy(W) \cap Ends(W, T)
      /\ NoneIn(p, Busy(W)) => NoneIn(Tail(p), Busy(W)) /\ Head(p) \notin Busy(W)
  BY <1>1, LastOfTail
<1>4. /\ Head(p) \in Ends(W, T) => LastIn(Head(p), W, T)
      /\ Head(p) \notin Busy(W) => NoneIn(Head(p), W)
  BY <1>2 DEF V, Busy, Ends
<1>5. ~LastIn(<< >>, W, T)
  BY LastOfEmpty
<1> QED BY <1>3, <1>4, <1>5 DEF Pending, Done

\* The handler performs the next action.
LEMMA PerformKeeps ==
  ASSUME NEW W, NEW T, NEW p, NEW d \in Seq(Action), d # << >>
  PROVE  /\ Pending(p, d, W, T)
              => Pending(p, Tail(d), W, T) \/ (Done(p, Tail(d), W) /\ Head(d) \in W \cap T)
         /\ Done(p, d, W) => Done(p, Tail(d), W) /\ Head(d) \notin W
<1>1. /\ LastIn(d, W, T) => LastIn(Tail(d), W, T) \/ (NoneIn(Tail(d), W) /\ Head(d) \in W \cap T)
      /\ NoneIn(d, W) => NoneIn(Tail(d), W) /\ Head(d) \notin W
  BY LastOfTail
<1> QED BY <1>1, Zenon DEF Pending, Done

\* The vectors on their way: those in the channel and the one run_fsm is blocked with.
Pipe == actions \o held

\* What the channel and its sender keep, whatever else happens.
PipeInv ==
  /\ TypeOK /\ Hierarchy
  /\ Len(held) <= 1
  /\ fsm.global = "Start" => actions = << >> /\ held = << >> /\ doing = << >>

\* run_fsm makes a transition on e; the handler takes a vector; nothing of these moves.
Transits(e) == \E t \in Step(fsm, e) : fsm' = t.to /\ Pipe' = Append(Pipe, t.acts) /\ doing' = doing
TakesVector == fsm' = fsm /\ Pipe # << >> /\ doing = << >> /\ doing' = Head(Pipe) /\ Pipe' = Tail(Pipe)
PipeSame    == fsm' = fsm /\ Pipe' = Pipe /\ doing' = doing

LEMMA PipeTyped ==
  ASSUME PipeInv
  PROVE  /\ Pipe \in Seq(Seq(Action)) /\ doing \in Seq(Action) /\ fsm \in FsmState /\ Hierarchical(fsm)
         /\ held = << >> \/ held = << Head(held) >>
<1> DEFINE V == Seq(Action)
<1>1. actions \in Seq(V) /\ held \in Seq(V) /\ Len(held) <= 1
  BY DEF PipeInv, TypeOK
<1>2. doing \in Seq(Action) /\ fsm \in FsmState /\ Hierarchical(fsm)
  BY DEF PipeInv, TypeOK, Hierarchy
<1> HIDE DEF V
<1>3. Pipe \in Seq(V)
  BY <1>1 DEF Pipe
<1>4. held = << >> \/ held = << Head(held) >>
  BY <1>1, OnlyElement
<1> QED BY <1>2, <1>3, <1>4 DEF V

\* handle_transition sends its vector, blocked or not.
LEMMA HandleSends ==
  ASSUME PipeInv, NEW e, held = << >>, doing' = doing, HandleTransition(Step(fsm, e)), e \in Event
  PROVE  (PipeSame /\ Step(fsm, e) = {} /\ UNCHANGED << actions, held >>) \/ (Transits(e) /\ Len(held') <= 1)
<1> DEFINE V == Seq(Action)
<1>1. actions \in Seq(V) /\ fsm \in FsmState
  BY DEF PipeInv, TypeOK
<1>2. CASE Step(fsm, e) = {}
  BY <1>2 DEF HandleTransition, PipeSame, Pipe
<1>3. CASE Step(fsm, e) # {}
  <2>1. PICK t \in Step(fsm, e) :
          /\ fsm' = t.to
          /\ IF Len(actions) < ActionCap
             THEN actions' = Append(actions, t.acts) /\ UNCHANGED held
             ELSE held' = << t.acts >> /\ UNCHANGED actions
    BY <1>3 DEF HandleTransition
  <2>2. PICK v : v = t.acts
    OBVIOUS
  <2>3. v \in V
    BY <1>1, <2>2, StepWellformed DEF Wellformed
  <2>4. \/ actions' = Append(actions, v) /\ held' = << >>
        \/ held' = << v >> /\ actions' = actions
    BY <2>1, <2>2
  <2> HIDE DEF V
  <2>5. actions \o << >> = actions /\ Append(actions, v) \o << >> = Append(actions, v) /\ actions \o << v >> = Append(actions, v)
    BY <1>1, <2>3, BlockedSend
  <2>6. actions' \o held' = Append(actions, v)
    BY <2>4, <2>5, Zenon
  <2>7. actions \o held = actions
    BY <2>5
  <2>8. Len(held') <= 1
    <3>1. Len(<< >>) <= 1 /\ Len(<< v >>) <= 1
      OBVIOUS
    <3> QED BY <2>4, <3>1, Zenon
  <2>9. Pipe' = Append(Pipe, v)
    BY <2>6, <2>7, Zenon DEF Pipe
  <2>10. Transits(e)
    BY <2>1, <2>2, <2>9, Zenon DEF Transits
  <2> QED BY <2>8, <2>10
<1> QED BY <1>2, <1>3

\* run_fsm, by what it does to the vectors on their way.
LEMMA RunFsmSends ==
  ASSUME PipeInv, RunFsm
  PROVE  /\ Len(held') <= 1
         /\ \/ fsm.global = "Start" /\ Transits("Start") /\ UNCHANGED events
            \/ fsm.global # "Start" /\ FsmTurn /\ events # << >> /\ Transits(Head(events))
            \/ fsm.global # "Start" /\ FsmTurn /\ events # << >> /\ Step(fsm, Head(events)) = {} /\ PipeSame
            \/ fsm.global # "Start" /\ FsmUnblocked /\ UNCHANGED events /\ PipeSame
<1> DEFINE V == Seq(Action)
<1>1. actions \in Seq(V) /\ held \in Seq(V) /\ fsm \in FsmState /\ events \in Seq(Event) /\ Len(held) <= 1
  BY DEF PipeInv, TypeOK
<1>2. CASE FsmStart
  <2>1. fsm.global = "Start" /\ held = << >> /\ doing' = doing /\ HandleTransition(Step(fsm, "Start")) /\ UNCHANGED events
    BY <1>2 DEF FsmStart, PipeInv, handlerVars
  <2>2. Step(fsm, "Start") # {}
    BY <2>1 DEF Step, StepInner, StepStart, Valid
  <2>3. "Start" \in Event
    BY DEF Event
  <2> QED BY <2>1, <2>2, <2>3, HandleSends
<1>3. CASE FsmTurn
  <2>1. fsm.global # "Start" /\ held = << >> /\ doing' = doing /\ HandleTransition(Step(fsm, Head(events))) /\ events # << >>
    BY <1>3 DEF FsmTurn, handlerVars
  <2>2. Head(events) \in Event
    BY <1>1, <2>1, ChannelTypes
  <2>3. (PipeSame /\ Step(fsm, Head(events)) = {} /\ UNCHANGED << actions, held >>) \/ (Transits(Head(events)) /\ Len(held') <= 1)
    BY <2>1, <2>2, HandleSends
  <2> QED BY <1>1, <1>3, <2>1, <2>3
<1>4. CASE FsmUnblocked
  <2>1. /\ held # << >> /\ held' = << >> /\ actions' = Append(actions, Head(held))
        /\ fsm' = fsm /\ doing' = doing /\ UNCHANGED events
    BY <1>4 DEF FsmUnblocked, handlerVars
  <2>2. fsm.global # "Start"
    BY <2>1 DEF PipeInv
  <2> HIDE DEF V
  <2>3. PICK v \in V : v = Head(held)
    BY <1>1, <2>1, TailElements
  <2>4. held = << v >>
    BY <1>1, <2>1, <2>3, OnlyElement
  <2>5. Append(actions, v) \o << >> = Append(actions, v) /\ actions \o << v >> = Append(actions, v)
    BY <1>1, <2>3, BlockedSend
  <2>6. Pipe' = Pipe
    BY <2>1, <2>3, <2>4, <2>5, Zenon DEF Pipe
  <2>7. Len(held') <= 1
    BY <2>1
  <2> QED BY <1>4, <2>1, <2>2, <2>6, <2>7 DEF PipeSame
<1> QED BY <1>2, <1>3, <1>4 DEF RunFsm

\* The second branch of the select! takes the oldest vector.
LEMMA TakeActionsTakes ==
  ASSUME PipeInv, TakeActions
  PROVE  /\ TakesVector /\ Idle /\ held' = held
         /\ UNCHANGED << events, outbox, session, mode, beat, dbEpoch, shouted, commands, timerVars, envVars >>
<1> DEFINE V == Seq(Action)
<1>1. actions \in Seq(V) /\ held \in Seq(V)
  BY DEF PipeInv, TypeOK
<1>2. /\ actions # << >> /\ doing = << >> /\ Idle /\ fsm' = fsm /\ held' = held
      /\ doing' = Head(actions) /\ actions' = Tail(actions)
      /\ UNCHANGED << events, outbox, session, mode, beat, dbEpoch, shouted, commands, timerVars, envVars >>
  BY DEF TakeActions, Idle, fsmVars
<1> HIDE DEF V
<1>3. actions \o held # << >> /\ Head(actions \o held) = Head(actions) /\ Tail(actions \o held) = Tail(actions) \o held
  BY <1>1, <1>2, BlockedReceive
<1>4. Pipe # << >> /\ Head(Pipe) = Head(actions) /\ Tail(Pipe) = Tail(actions) \o held
  BY <1>3, Zenon DEF Pipe
<1>5. Pipe' = Tail(Pipe)
  BY <1>2, <1>4, Zenon DEF Pipe
<1>6. doing' = Head(Pipe)
  BY <1>2, <1>4
<1> QED BY <1>2, <1>4, <1>5, <1>6 DEF TakesVector

\* The handler performs the actions of the vector in hand one by one.
LEMMA PerformTakes ==
  ASSUME PipeInv, NEW a, Perform(a)
  PROVE  /\ doing # << >> /\ Head(doing) = a /\ doing' = Tail(doing) /\ outbox = << >>
         /\ fsm' = fsm /\ Pipe' = Pipe /\ held' = held
         /\ UNCHANGED << events, commands, timerVars, totalHubs, link >>
BY DEF Perform, fsmVars, Pipe

LEMMA HandleActionPerforms ==
  ASSUME HandleAction
  PROVE  \E a : Perform(a)
<1>1. EnterInitBalanceMode => \E a : Perform(a)
  BY DEF EnterInitBalanceMode
<1>2. EnterHandshake => \E a : Perform(a)
  BY DEF EnterHandshake
<1>3. EnterCheckQuorum => \E a : Perform(a)
  BY DEF EnterCheckQuorum
<1>4. EnterRepeatHandshake => \E a : Perform(a)
  BY DEF EnterRepeatHandshake, RepeatHandshake
<1>5. EnterPhase => \E a : Perform(a)
  BY DEF EnterPhase
<1>6. EnterNormal => \E a : Perform(a)
  BY DEF EnterNormal
<1>7. EnterSafeMode => \E a : Perform(a)
  BY DEF EnterSafeMode
<1>8. EnterDisconnected => \E a : Perform(a)
  BY DEF EnterDisconnected
<1>9. CalculateQuorum => \E a : Perform(a)
  BY DEF CalculateQuorum
<1>10. StopTimer => \E a : Perform(a)
  BY DEF StopTimer
<1>11. StopHeartbeats => \E a : Perform(a)
  BY DEF StopHeartbeats
<1>12. SkipAction => \E a : Perform(a)
  BY DEF SkipAction
<1> QED BY <1>1, <1>2, <1>3, <1>4, <1>5, <1>6, <1>7, <1>8, <1>9, <1>10, <1>11, <1>12 DEF HandleAction

\* Nobody else touches the vectors.
LEMMA PipeOthers ==
  ASSUME [Next]_vars, ~RunFsm, ~TakeActions, ~HandleAction, ~Crash
  PROVE  fsm' = fsm /\ actions' = actions /\ held' = held /\ doing' = doing
<1>1. CASE UNCHANGED vars
  BY <1>1 DEF vars
<1>2. CASE HandleHandshake \/ HandleQueue \/ HandleQueueSafe \/ HandleConnection
  BY <1>2 DEF HandleHandshake, HandleQueue, HandleQueueSafe, HandleConnection, TakeCommand, fsmVars
<1>3. CASE HandlerSend
  BY <1>3 DEF HandlerSend, fsmVars
<1>4. CASE Timer \/ TimerExpire
  BY <1>4 DEF Timer, TimerReceive, TimerFire, TimerExpire, fsmVars, handlerVars
<1>5. CASE HubMessage \/ LinkEvent \/ TopologyChange
  BY <1>5 DEF HubMessage, LinkEvent, TopologyChange, Deliver, fsmVars, handlerVars
<1> QED BY <1>1, <1>2, <1>3, <1>4, <1>5 DEF Next, Handler, Environment

\* No transition leads back to the start.
LEMMA NeverBack ==
  ASSUME NEW s \in FsmState, Hierarchical(s), NEW e \in Event, NEW t \in Step(s, e)
  PROVE  t.to.global # "Start"
<1>1. Stays(s, e, t.to, t.acts) \/ Moves(s, e, t.to, t.acts)
  BY TransitionIs
<1>2. CASE Stays(s, e, t.to, t.acts)
  BY <1>2 DEF Stays, Balance, Quorum
<1>3. CASE Moves(s, e, t.to, t.acts)
  <2>1. ToInit(s, e, t.to, t.acts) => t.to.global # "Start"
    BY DEF ToInit, Global, Balance, Quorum, Phase
  <2>2. ToInHandshake(s, e, t.to, t.acts) => t.to.global # "Start"
    BY DEF ToInHandshake, Global, Balance, Quorum, Phase
  <2>3. ToSafeMode(s, e, t.to, t.acts) => t.to.global # "Start"
    BY DEF ToSafeMode, Global, Balance, Quorum, Phase
  <2>4. ToCheck(s, e, t.to, t.acts) => t.to.global # "Start"
    BY DEF ToCheck, Global, Balance, Quorum, Phase
  <2>5. ToRepeat(s, e, t.to, t.acts) => t.to.global # "Start"
    BY DEF ToRepeat, Global, Balance, Quorum, Phase
  <2>6. ToAlert(s, e, t.to, t.acts) => t.to.global # "Start"
    BY DEF ToAlert, Global, Balance, Quorum, Phase
  <2>7. ToNextPhase(s, e, t.to, t.acts) => t.to.global # "Start"
    BY DEF ToNextPhase, Global, Balance, Quorum, Phase
  <2>8. ToOutHandshake(s, e, t.to, t.acts) => t.to.global # "Start"
    BY DEF ToOutHandshake, Global, Balance, Quorum, Phase
  <2>9. ToNormal(s, e, t.to, t.acts) => t.to.global # "Start"
    BY DEF ToNormal, Global, Balance, Quorum, Phase
  <2>10. ToDisconnected(s, e, t.to, t.acts) => t.to.global # "Start"
    BY DEF ToDisconnected, Global, Balance, Quorum, Phase
  <2> QED BY <1>3, <2>1, <2>2, <2>3, <2>4, <2>5, <2>6, <2>7, <2>8, <2>9, <2>10 DEF Moves
<1> QED BY <1>1, <1>2, <1>3

\* Only the first balance leads out of the start.
LEMMA FromStart ==
  ASSUME NEW s \in FsmState, Hierarchical(s), s.global = "Start", NEW e \in Event, NEW t \in Step(s, e)
  PROVE  ToInit(s, e, t.to, t.acts)
<1>1. Stays(s, e, t.to, t.acts) \/ Moves(s, e, t.to, t.acts)
  BY TransitionIs
<1>2. s.phase = None /\ s.balance = None
  BY DEF Hierarchical, None
<1>3. ~Stays(s, e, t.to, t.acts)
  BY DEF Stays, Balance, Quorum
<1>4. ~ToInHandshake(s, e, t.to, t.acts)
  BY DEF ToInHandshake, Global, Balance, Phase
<1>5. ~ToSafeMode(s, e, t.to, t.acts)
  BY DEF ToSafeMode, Global, Balance, Phase
<1>6. ~ToCheck(s, e, t.to, t.acts)
  BY DEF ToCheck, Global, Balance, Phase
<1>7. ~ToRepeat(s, e, t.to, t.acts)
  BY DEF ToRepeat, Global, Balance, Phase
<1>8. ~ToAlert(s, e, t.to, t.acts)
  BY DEF ToAlert, Global, Balance, Phase
<1>9. ~ToNextPhase(s, e, t.to, t.acts)
  BY DEF ToNextPhase, Global, Balance, Phase
<1>10. ~ToOutHandshake(s, e, t.to, t.acts)
  BY DEF ToOutHandshake, Global, Balance, Phase
<1>11. ~ToNormal(s, e, t.to, t.acts)
  BY DEF ToNormal, Global, Balance, Phase
<1>12. ~ToDisconnected(s, e, t.to, t.acts)
  BY DEF ToDisconnected, Global, Balance, Phase
<1> QED BY <1>1, <1>3, <1>4, <1>5, <1>6, <1>7, <1>8, <1>9, <1>10, <1>11, <1>12 DEF Moves

LEMMA PipeStep ==
  ASSUME PipeInv, [Next]_vars
  PROVE  PipeInv'
<1>1. TypeOK' /\ Hierarchy'
  <2>1. TypeOK'
    BY NextTypeOK DEF PipeInv
  <2>2. CASE RunFsm
    BY <2>1, <2>2, RunFsmTypeOK DEF PipeInv
  <2>3. CASE Crash
    BY <2>1, <2>3 DEF Crash, Hierarchy, Hierarchical, NewFsmState, None
  <2>4. CASE ~RunFsm /\ ~Crash
    BY <2>1, <2>4, FsmUnchanged DEF PipeInv, Hierarchy
  <2> QED BY <2>1, <2>2, <2>3, <2>4
<1>2. Len(held') <= 1 /\ (fsm'.global = "Start" => actions' = << >> /\ held' = << >> /\ doing' = << >>)
  <2>1. CASE RunFsm
    <3>1. Len(held') <= 1 /\ (fsm.global # "Start" \/ Transits("Start"))
      BY <2>1, RunFsmSends
    <3>2. fsm'.global # "Start"
      <4>1. (\E e \in Event : Transits(e)) \/ (fsm.global # "Start" /\ fsm' = fsm)
        <5>1. events \in Seq(Event) /\ "Start" \in Event
          BY DEF PipeInv, TypeOK, Event
        <5>2. events # << >> => Head(events) \in Event
          BY <5>1, ChannelTypes
        <5> QED BY <2>1, <5>1, <5>2, RunFsmSends DEF PipeSame
      <4>2. \A e \in Event : Transits(e) => fsm'.global # "Start"
        BY PipeTyped, NeverBack DEF Transits
      <4> QED BY <4>1, <4>2
    <3> QED BY <3>1, <3>2
  <2>2. CASE TakeActions
    <3>1. TakesVector /\ held' = held
      BY <2>2, TakeActionsTakes
    <3>2. actions # << >> /\ fsm' = fsm
      BY <2>2 DEF TakeActions, fsmVars
    <3> QED BY <3>1, <3>2 DEF PipeInv
  <2>3. CASE HandleAction
    <3>1. PICK a : Perform(a)
      BY <2>3, HandleActionPerforms
    <3>2. doing # << >> /\ fsm' = fsm /\ held' = held
      BY <3>1 DEF Perform, fsmVars
    <3> QED BY <3>2 DEF PipeInv
  <2>4. CASE Crash
    BY <2>4 DEF Crash
  <2>5. CASE ~RunFsm /\ ~TakeActions /\ ~HandleAction /\ ~Crash
    BY <2>5, PipeOthers DEF PipeInv
  <2> QED BY <2>1, <2>2, <2>3, <2>4, <2>5
<1> QED BY <1>1, <1>2 DEF PipeInv

LEMMA PipeInit == Init => PipeInv
<1>1. Init => TypeOK
  BY InitTypeOK
<1>2. Init => Hierarchy /\ Len(held) <= 1 /\ (fsm.global = "Start" => actions = << >> /\ held = << >> /\ doing = << >>)
  BY DEF Init, Hierarchy, Hierarchical, NewFsmState, None
<1> QED BY <1>1, <1>2 DEF PipeInv

LEMMA PipeAlways == Spec => []PipeInv
BY PipeInit, PipeStep, PTL DEF Spec

-----------------------------------------------------------------------------
(* The link *)

\* The news of the broker on its way to the machine: as a command, as a message of the
\* handler, as an event.
LinkKinds    == {"LocalConnected", "LocalDisconnected"}
LinkCommands == { c \in Command : c.kind \in LinkKinds }
LinkMessages == { m \in Message : m.msg \in LinkKinds }

LinkInCommands == LastIn(commands, LinkCommands, { c \in Command : c.kind = link })
LinkInOutbox   == link \in LinkKinds /\ outbox = << ToFsm(link) >>
LinkInEvents   == LastIn(events, LinkKinds, {link})
LinkSeen       == /\ NoneIn(events, LinkKinds)
                  /\ (fsm.global = "Disconnected") = (link = "LocalDisconnected")

\* The last news is the first of these that there is, and the machine has seen it when
\* there is none.
LinkHeard == NoneIn(outbox, LinkMessages) /\ (LinkInEvents \/ LinkSeen)
LinkInv   == LinkInCommands \/ (NoneIn(commands, LinkCommands) /\ (LinkInOutbox \/ LinkHeard))

\* An event disconnects the machine, connects it, or leaves it as it is.
Disconnects(s, e) == e = "LocalDisconnected" \/ (e # "LocalConnected" /\ s.global = "Disconnected")

LEMMA StepLink ==
  ASSUME NEW s \in FsmState, Hierarchical(s), s.global # "Start", NEW e \in Event
  PROVE  /\ \A t \in Step(s, e) : (t.to.global = "Disconnected") = Disconnects(s, e)
         /\ Step(s, e) = {} => (s.global = "Disconnected") = Disconnects(s, e)
<1>1. ASSUME NEW t \in Step(s, e)
      PROVE  (t.to.global = "Disconnected") = Disconnects(s, e)
  <2>1. Stays(s, e, t.to, t.acts) \/ Moves(s, e, t.to, t.acts)
    BY TransitionIs
  <2>2. CASE Stays(s, e, t.to, t.acts)
    BY <2>2 DEF Stays, Balance, Quorum, Disconnects
  <2>3. CASE ToDisconnected(s, e, t.to, t.acts)
    BY <2>3 DEF ToDisconnected, Global, Disconnects
  <2>4. CASE ToInit(s, e, t.to, t.acts)
    BY <2>4 DEF ToInit, Global, Balance, Disconnects
  <2>5. CASE Moves(s, e, t.to, t.acts) /\ ~ToDisconnected(s, e, t.to, t.acts) /\ ~ToInit(s, e, t.to, t.acts)
    <3> DEFINE Elsewhere == e \notin LinkKinds /\ s.global # "Disconnected" /\ t.to.global # "Disconnected"
    <3>1. ToInHandshake(s, e, t.to, t.acts) => Elsewhere
      BY DEF ToInHandshake, Balance, LinkKinds
    <3>2. ToSafeMode(s, e, t.to, t.acts) => Elsewhere
      BY DEF ToSafeMode, Global, LinkKinds
    <3>3. ToCheck(s, e, t.to, t.acts) => Elsewhere
      BY DEF ToCheck, Quorum, LinkKinds
    <3>4. ToRepeat(s, e, t.to, t.acts) => Elsewhere
      BY DEF ToRepeat, Quorum, LinkKinds
    <3>5. ToAlert(s, e, t.to, t.acts) => Elsewhere
      BY DEF ToAlert, Phase, LinkKinds
    <3>6. ToNextPhase(s, e, t.to, t.acts) => Elsewhere
      BY DEF ToNextPhase, Phase, LinkKinds
    <3>7. ToOutHandshake(s, e, t.to, t.acts) => Elsewhere
      BY DEF ToOutHandshake, Phase, Balance, LinkKinds
    <3>8. ToNormal(s, e, t.to, t.acts) => Elsewhere
      BY DEF ToNormal, Global, LinkKinds
    <3>9. Elsewhere
      BY <2>5, <3>1, <3>2, <3>3, <3>4, <3>5, <3>6, <3>7, <3>8 DEF Moves
    <3> QED BY <3>9 DEF Disconnects, LinkKinds
  <2> QED BY <2>1, <2>2, <2>3, <2>4, <2>5
<1>2. ASSUME Step(s, e) = {}
      PROVE  (s.global = "Disconnected") = Disconnects(s, e)
  <2>1. StepInner(s, e) = {}
    BY <1>2 DEF Step
  <2>2. CASE s.global = "BalanceMode"
    <3>1. e # "LocalDisconnected"
      BY <2>1, <2>2 DEF StepInner, StepBalanceMode, Valid
    <3> QED BY <2>2, <3>1 DEF Disconnects
  <2>3. CASE s.global = "SafeMode"
    <3>1. e # "LocalDisconnected"
      BY <2>1, <2>3 DEF StepInner, StepSafeMode, Valid
    <3> QED BY <2>3, <3>1 DEF Disconnects
  <2>4. CASE s.global = "Normal"
    <3>1. e # "LocalDisconnected"
      BY <2>1, <2>4 DEF StepInner, StepNormal, Valid
    <3> QED BY <2>4, <3>1 DEF Disconnects
  <2>5. CASE s.global = "Disconnected"
    <3>1. e # "LocalConnected"
      BY <2>1, <2>5 DEF StepInner, StepDisconnected, Valid
    <3> QED BY <2>5, <3>1 DEF Disconnects
  <2> QED BY <2>2, <2>3, <2>4, <2>5 DEF FsmState, StateGlobal
<1> QED BY <1>1, <1>2

\* A transition, or an event that leads to none: the machine has seen the news.
LEMMA LinkSeenByFsm ==
  ASSUME PipeInv, NEW e \in Event, fsm.global # "Start",
         Transits(e) \/ (Step(fsm, e) = {} /\ PipeSame)
  PROVE  (fsm'.global = "Disconnected") = Disconnects(fsm, e)
<1>1. fsm \in FsmState /\ Hierarchical(fsm)
  BY PipeTyped
<1>2. CASE Transits(e)
  BY <1>1, <1>2, StepLink DEF Transits
<1>3. CASE Step(fsm, e) = {} /\ PipeSame
  BY <1>1, <1>3, StepLink DEF PipeSame
<1> QED BY <1>2, <1>3

\* run_fsm hears the news or leaves it where it is.
LEMMA LinkRunFsm ==
  ASSUME PipeInv, LinkInv, RunFsm
  PROVE  LinkInv'
<1>1. UNCHANGED << commands, outbox, link >>
  BY DEF RunFsm, FsmStart, FsmTurn, FsmUnblocked, handlerVars, envVars
<1>2. LinkInEvents \/ LinkSeen => LinkInEvents' \/ LinkSeen'
  <2> SUFFICES ASSUME LinkInEvents \/ LinkSeen PROVE LinkInEvents' \/ LinkSeen'
    OBVIOUS
  <2>0. events \in Seq(Event) /\ link \in {"Unknown", "LocalConnected", "LocalDisconnected"} /\ fsm \in FsmState /\ Hierarchical(fsm)
    BY DEF PipeInv, TypeOK, Hierarchy
  <2>1. CASE fsm.global = "Start" /\ Transits("Start") /\ UNCHANGED events
    <3>1. PICK t \in Step(fsm, "Start") : fsm' = t.to
      BY <2>1 DEF Transits
    <3>2. t.to.global = "BalanceMode"
      <4>1. ToInit(fsm, "Start", t.to, t.acts)
        BY <2>0, <2>1, <3>1, FromStart DEF Event
      <4> QED BY <4>1 DEF ToInit, Balance
    <3> QED BY <1>1, <2>1, <3>1, <3>2 DEF LinkInEvents, LinkSeen
  <2>2. CASE fsm.global # "Start" /\ PipeSame /\ UNCHANGED events
    BY <1>1, <2>2 DEF LinkInEvents, LinkSeen, PipeSame
  <2>3. CASE /\ fsm.global # "Start" /\ FsmTurn /\ events # << >>
             /\ Transits(Head(events)) \/ (Step(fsm, Head(events)) = {} /\ PipeSame)
    <3>1. PICK e \in Event : e = Head(events)
      BY <2>0, <2>3, ChannelTypes
    <3>2. events' = Tail(events)
      BY <2>3 DEF FsmTurn
    <3>3. (fsm'.global = "Disconnected") = Disconnects(fsm, e)
      BY <2>3, <3>1, LinkSeenByFsm
    <3>4. CASE LinkInEvents
      <4>1. LastIn(events', LinkKinds, {link}) \/ (NoneIn(events', LinkKinds) /\ e \in LinkKinds \cap {link})
        BY <2>0, <2>3, <3>1, <3>2, <3>4, LastOfTail DEF LinkInEvents
      <4>2. e \in LinkKinds \cap {link} => (fsm'.global = "Disconnected") = (link = "LocalDisconnected")
        BY <3>3 DEF Disconnects, LinkKinds
      <4> QED BY <1>1, <4>1, <4>2 DEF LinkInEvents, LinkSeen
    <3>5. CASE LinkSeen
      <4>1. NoneIn(events', LinkKinds) /\ e \notin LinkKinds
        BY <2>0, <2>3, <3>1, <3>2, <3>5, LastOfTail DEF LinkSeen
      <4>2. (fsm'.global = "Disconnected") = (link = "LocalDisconnected")
        BY <3>3, <3>5, <4>1 DEF Disconnects, LinkKinds, LinkSeen
      <4> QED BY <1>1, <4>1, <4>2 DEF LinkSeen
    <3> QED BY <3>4, <3>5
  <2> QED BY <2>1, <2>2, <2>3, RunFsmSends
<1> QED BY <1>1, <1>2 DEF LinkInv, LinkHeard, LinkInCommands, LinkInOutbox

\* The handler takes a command: the news becomes its message.
LEMMA LinkTakeCommand ==
  ASSUME TypeOK, LinkInv, HandleHandshake \/ HandleQueue \/ HandleQueueSafe \/ HandleConnection
  PROVE  LinkInv'
<1>1. /\ outbox = << >> /\ commands # << >> /\ commands' = Tail(commands)
      /\ UNCHANGED << fsm, events, link >>
      /\ \/ Head(commands).kind \in LinkKinds /\ outbox' = << ToFsm(Head(commands).kind) >>
         \/ Head(commands).kind \notin LinkKinds /\ HandleHandshake
         \/ Head(commands).kind \notin LinkKinds /\ (HandleQueue \/ HandleQueueSafe)
  BY DEF HandleHandshake, HandleQueue, HandleQueueSafe, HandleConnection, TakeCommand, Idle, fsmVars, envVars, LinkKinds
<1>2. commands \in Seq(Command) /\ Head(commands) \in Command
  BY <1>1, ChannelTypes DEF TypeOK
<1>3. /\ LinkInCommands => LinkInCommands' \/ (NoneIn(commands', LinkCommands) /\ Head(commands).kind \in LinkKinds /\ Head(commands).kind = link)
      /\ NoneIn(commands, LinkCommands) => NoneIn(commands', LinkCommands) /\ Head(commands).kind \notin LinkKinds
  <2>1. PICK W, T : W = LinkCommands /\ T = { c \in Command : c.kind = link }
    OBVIOUS
  <2>2. /\ LastIn(commands, W, T) => LastIn(Tail(commands), W, T) \/ (NoneIn(Tail(commands), W) /\ Head(commands) \in W \cap T)
        /\ NoneIn(commands, W) => NoneIn(Tail(commands), W) /\ Head(commands) \notin W
    BY <1>1, <1>2, LastOfTail
  <2>3. LinkInCommands = LastIn(commands, W, T) /\ LinkInCommands' = LastIn(commands', W, T)
    BY <1>1, <2>1, Zenon DEF LinkInCommands, LinkCommands
  <2>4. /\ Head(commands) \in W => Head(commands).kind \in LinkKinds
        /\ Head(commands) \in T => Head(commands).kind = link
        /\ Head(commands) \notin W => Head(commands).kind \notin LinkKinds
    BY <1>2, <2>1 DEF LinkCommands
  <2>5. commands' = Tail(commands) /\ W = LinkCommands
    BY <1>1, <2>1
  <2> QED BY <2>2, <2>3, <2>4, <2>5, Zenon
<1>4. CASE Head(commands).kind \in LinkKinds /\ outbox' = << ToFsm(Head(commands).kind) >>
  <2>1. LinkInCommands
    BY <1>3, <1>4 DEF LinkInv
  <2> QED BY <1>1, <1>3, <1>4, <2>1 DEF LinkInv, LinkInOutbox
<1>5. CASE Head(commands).kind \notin LinkKinds /\ NoneIn(outbox', LinkMessages)
  <2>1. LinkInCommands => LinkInCommands'
    BY <1>3, <1>5
  <2>2. outbox = << >> => ~LinkInOutbox
    BY DEF LinkInOutbox
  <2>3. LinkHeard => LinkHeard'
    BY <1>1, <1>5 DEF LinkHeard, LinkInEvents, LinkSeen
  <2> QED BY <1>1, <1>3, <2>1, <2>2, <2>3 DEF LinkInv
<1>6. HandleHandshake => NoneIn(outbox', LinkMessages)
  <2>1. ToFsm("NewMessageHandshake") \notin LinkMessages
    BY DEF ToFsm, LinkMessages, LinkKinds
  <2> QED BY <1>1, <2>1 DEF HandleHandshake, NoneIn
<1>7. HandleQueue \/ HandleQueueSafe => NoneIn(outbox', LinkMessages)
  <2>1. ToFsm("QuorumPhase") \notin LinkMessages /\ ToFsm("QuorumSafeMode") \notin LinkMessages /\ ToTimer("StopTimer") \notin LinkMessages
    BY DEF ToFsm, ToTimer, LinkMessages, LinkKinds
  <2>2. /\ NoneIn(<< >>, LinkMessages)
        /\ NoneIn(<< ToFsm("QuorumPhase"), ToTimer("StopTimer") >>, LinkMessages)
        /\ NoneIn(<< ToFsm("QuorumSafeMode"), ToTimer("StopTimer") >>, LinkMessages)
    BY <2>1 DEF NoneIn
  <2> QED BY <1>1, <2>2 DEF HandleQueue, HandleQueueSafe, CountEmpty
<1> QED BY <1>1, <1>4, <1>5, <1>6, <1>7

\* The events the handler answers an action with.
Answered == {"BalanceEpochOk", "BalanceEpochNotOk", "ApproveQuorum", "NotApproveQuorum", "NotApproveNotAttempts"}

\* quorum_algorithm, by its answers.
LEMMA QuorumAnswers ==
  ASSUME NEW s, s.attempts \in Nat
  PROVE  QuorumAlgorithm(s) \in {"ApproveQuorum", "NotApproveQuorum", "NotApproveNotAttempts"}
BY BoundsAssumption DEF QuorumAlgorithm

\* What an action of a vector leaves the handler to send.
LEMMA ActionSends ==
  ASSUME TypeOK, HandleAction
  PROVE  \/ outbox' = << >>
         \/ \E e \in Answered : outbox' = << ToFsm(e) >>
         \/ \E c \in TimerCommand : outbox' = << ToTimer(c) >>
<1>1. session.attempts \in Nat
  BY DEF TypeOK
<1>2. QuorumAlgorithm(session) \in Answered
  BY <1>1, QuorumAnswers DEF Answered
<1>3. "InitTimer" \in TimerCommand /\ "StopTimer" \in TimerCommand /\ "BalanceEpochOk" \in Answered /\ "BalanceEpochNotOk" \in Answered
  BY DEF TimerCommand, Answered
<1>4. EnterInitBalanceMode => outbox' = << ToFsm("BalanceEpochOk") >> \/ outbox' = << ToFsm("BalanceEpochNotOk") >>
  BY DEF EnterInitBalanceMode
<1>5. EnterCheckQuorum \/ CalculateQuorum => outbox' = << ToFsm(QuorumAlgorithm(session)) >>
  BY DEF EnterCheckQuorum, CalculateQuorum
<1>6. EnterHandshake \/ EnterRepeatHandshake \/ EnterPhase \/ EnterSafeMode => outbox' = << ToTimer("InitTimer") >>
  <2>1. EnterHandshake => outbox' = << ToTimer("InitTimer") >>
    BY DEF EnterHandshake
  <2>2. EnterRepeatHandshake => outbox' = << ToTimer("InitTimer") >>
    BY DEF EnterRepeatHandshake, RepeatHandshake
  <2>3. EnterPhase => outbox' = << ToTimer("InitTimer") >>
    BY DEF EnterPhase
  <2>4. EnterSafeMode => outbox' = << ToTimer("InitTimer") >>
    BY DEF EnterSafeMode
  <2> QED BY <2>1, <2>2, <2>3, <2>4
<1>7. StopTimer => outbox' = << ToTimer("StopTimer") >>
  BY DEF StopTimer
<1>8. EnterNormal \/ EnterDisconnected \/ StopHeartbeats \/ SkipAction => outbox' = << >>
  BY DEF EnterNormal, EnterDisconnected, StopHeartbeats, SkipAction, Perform
<1> QED BY <1>2, <1>3, <1>4, <1>5, <1>6, <1>7, <1>8, Zenon DEF HandleAction

\* The handler sends: the news becomes an event.
LEMMA LinkHandlerSend ==
  ASSUME TypeOK, LinkInv, HandlerSend
  PROVE  LinkInv'
<1>1. outbox # << >> /\ outbox' = Tail(outbox) /\ UNCHANGED << fsm, commands, link >>
  BY DEF HandlerSend, fsmVars, envVars
<1>2. outbox \in Seq(Message) /\ events \in Seq(Event)
  BY DEF TypeOK
<1>3. PICK m \in Message : m = Head(outbox)
  BY <1>1, <1>2, ChannelTypes
<1>4. (m.to = "fsm" /\ m.msg \in Event /\ events' = Append(events, m.msg)) \/ (m.to = "timer" /\ UNCHANGED events)
  BY <1>3, MessageTypes DEF HandlerSend
<1>5. LinkInOutbox => LinkHeard'
  <2> SUFFICES ASSUME LinkInOutbox PROVE LinkHeard'
    OBVIOUS
  <2>1. link \in LinkKinds /\ outbox = << ToFsm(link) >>
    BY DEF LinkInOutbox
  <2>2. m = ToFsm(link) /\ outbox' = << >>
    BY <1>1, <1>3, <2>1
  <2>3. events' = Append(events, link) /\ link \in Event
    BY <1>4, <2>2 DEF ToFsm
  <2>4. LastIn(events', LinkKinds, {link})
    BY <1>2, <2>1, <2>3, LastOfAppend
  <2>5. NoneIn(outbox', LinkMessages)
    BY <2>2, LastOfEmpty
  <2> QED BY <1>1, <2>4, <2>5 DEF LinkHeard, LinkInEvents
<1>6. LinkHeard => LinkHeard'
  <2> SUFFICES ASSUME LinkHeard PROVE LinkHeard'
    OBVIOUS
  <2>1. NoneIn(outbox', LinkMessages) /\ m \notin LinkMessages
    BY <1>1, <1>2, <1>3, LastOfTail DEF LinkHeard
  <2>2. m.msg \notin LinkKinds
    BY <2>1 DEF LinkMessages
  <2>3. /\ LastIn(events, LinkKinds, {link}) => LastIn(events', LinkKinds, {link})
        /\ NoneIn(events, LinkKinds) => NoneIn(events', LinkKinds)
    <3>1. PICK x \in Event : \/ x \notin LinkKinds /\ events' = Append(events, x)
                             \/ events' = events
      BY <1>4, <2>2 DEF Event
    <3>2. /\ x \notin LinkKinds /\ LastIn(events, LinkKinds, {link}) => LastIn(Append(events, x), LinkKinds, {link})
          /\ x \notin LinkKinds /\ NoneIn(events, LinkKinds) => NoneIn(Append(events, x), LinkKinds)
      BY <1>2, LastOfAppend
    <3> QED BY <3>1, <3>2, Zenon
  <2> QED BY <1>1, <2>1, <2>3 DEF LinkHeard, LinkInEvents, LinkSeen
<1> QED BY <1>1, <1>5, <1>6 DEF LinkInv, LinkInCommands

\* The other actions of the handler do not touch the news.
LEMMA LinkHandleAction ==
  ASSUME TypeOK, LinkInv, HandleAction
  PROVE  LinkInv'
<1>1. outbox = << >> /\ UNCHANGED << fsm, commands, events, link >>
  <2>1. PICK a : Perform(a)
    BY HandleActionPerforms
  <2> QED BY <2>1 DEF Perform, fsmVars
<1>2. ~LinkInOutbox
  BY <1>1 DEF LinkInOutbox
<1>3. NoneIn(outbox', LinkMessages)
  <2>1. \A e \in Answered : NoneIn(<< ToFsm(e) >>, LinkMessages)
    BY DEF Answered, ToFsm, LinkMessages, LinkKinds, NoneIn
  <2>2. \A c \in TimerCommand : NoneIn(<< ToTimer(c) >>, LinkMessages)
    BY DEF TimerCommand, ToTimer, LinkMessages, LinkKinds, NoneIn
  <2> QED BY <2>1, <2>2, ActionSends, LastOfEmpty
<1>4. LinkHeard => LinkHeard'
  BY <1>1, <1>3 DEF LinkHeard, LinkInEvents, LinkSeen
<1> QED BY <1>1, <1>2, <1>4 DEF LinkInv, LinkInCommands

\* The surroundings: the last event of the broker is the last command about it.
LEMMA LinkEnvironment ==
  ASSUME TypeOK, LinkInv, HubMessage \/ LinkEvent \/ TopologyChange
  PROVE  LinkInv'
<1>1. UNCHANGED << fsm, events, outbox >>
  BY DEF HubMessage, LinkEvent, TopologyChange, Deliver, fsmVars, handlerVars
<1>2. commands \in Seq(Command)
  BY DEF TypeOK
<1>3. CASE HubMessage
  <2>1. PICK c \in Command : commands' = Append(commands, c) /\ c \notin LinkCommands /\ link' = link
    <3>1. PICK h \in Hubs :
            \/ \E e \in shouted : Deliver([kind |-> "Handshake", hub |-> h, epoch |-> e])
            \/ \E k \in {"Queue", "QueueSafe"} : Deliver([kind |-> k, hub |-> h])
      BY <1>3 DEF HubMessage
    <3>2. link' = link /\ shouted \subseteq Nat
      BY <1>3 DEF HubMessage, TypeOK
    <3>3. CASE \E e \in shouted : Deliver([kind |-> "Handshake", hub |-> h, epoch |-> e])
      <4>1. PICK e \in shouted : Deliver([kind |-> "Handshake", hub |-> h, epoch |-> e])
        BY <3>3
      <4>2. PICK c : c = [kind |-> "Handshake", hub |-> h, epoch |-> e]
        OBVIOUS
      <4>3. c \in Command /\ c.kind = "Handshake"
        BY <3>2, <4>1, <4>2, CommandTypes
      <4> QED BY <3>2, <4>1, <4>2, <4>3 DEF Deliver, LinkCommands, LinkKinds
    <3>4. CASE \E k \in {"Queue", "QueueSafe"} : Deliver([kind |-> k, hub |-> h])
      <4>1. PICK k \in {"Queue", "QueueSafe"} : Deliver([kind |-> k, hub |-> h])
        BY <3>4
      <4>2. PICK c : c = [kind |-> k, hub |-> h]
        OBVIOUS
      <4>3. c \in Command /\ c.kind \in {"Queue", "QueueSafe"}
        BY <3>2, <4>1, <4>2, CommandTypes
      <4> QED BY <3>2, <4>1, <4>2, <4>3 DEF Deliver, LinkCommands, LinkKinds
    <3> QED BY <3>1, <3>3, <3>4
  <2>2. PICK W, T : W = LinkCommands /\ T = { d \in Command : d.kind = link }
    OBVIOUS
  <2>3. /\ LastIn(commands, W, T) => LastIn(commands', W, T)
        /\ NoneIn(commands, W) => NoneIn(commands', W)
    BY <1>2, <2>1, <2>2, LastOfAppend
  <2>4. LinkInCommands = LastIn(commands, W, T) /\ LinkInCommands' = LastIn(commands', W, T)
    BY <2>1, <2>2, Zenon DEF LinkInCommands, LinkCommands
  <2>5. (LinkInOutbox => LinkInOutbox') /\ (LinkHeard => LinkHeard')
    BY <1>1, <2>1 DEF LinkInOutbox, LinkHeard, LinkInEvents, LinkSeen
  <2> QED BY <2>2, <2>3, <2>4, <2>5 DEF LinkInv
<1>4. CASE LinkEvent
  <2>1. PICK k \in LinkKinds : link' = k /\ commands' = Append(commands, [kind |-> k])
    BY <1>4 DEF LinkEvent, Deliver, LinkKinds
  <2>2. PICK c \in Command : c = [kind |-> k]
    BY CommandTypes DEF LinkKinds
  <2>3. PICK W, T : W = LinkCommands /\ T = { d \in Command : d.kind = link' }
    OBVIOUS
  <2>4. c \in W \cap T
    BY <2>1, <2>2, <2>3 DEF LinkCommands
  <2>5. commands' = Append(commands, c)
    BY <2>1, <2>2, Zenon
  <2>6. LastIn(commands', W, T)
    BY <1>2, <2>4, <2>5, LastOfAppend
  <2>7. LinkInCommands'
    BY <2>3, <2>6, Zenon DEF LinkInCommands, LinkCommands
  <2> QED BY <2>7 DEF LinkInv
<1>5. CASE TopologyChange
  <2>1. commands' = commands /\ link' = link
    BY <1>5 DEF TopologyChange
  <2> QED BY <1>1, <2>1 DEF LinkInv, LinkInCommands, LinkInOutbox, LinkHeard, LinkInEvents, LinkSeen
<1> QED BY <1>3, <1>4, <1>5

\* A Timeout is no news.
LEMMA LinkTimer ==
  ASSUME TypeOK, LinkInv, Timer \/ TimerExpire
  PROVE  LinkInv'
<1>1. UNCHANGED << fsm, commands, outbox, link >> /\ (events' = events \/ events' = Append(events, "Timeout"))
  BY DEF Timer, TimerReceive, TimerFire, TimerExpire, fsmVars, handlerVars, envVars
<1>2. events \in Seq(Event) /\ "Timeout" \in Event /\ "Timeout" \notin LinkKinds
  BY DEF TypeOK, Event, LinkKinds
<1>3. /\ LastIn(events, LinkKinds, {link}) => LastIn(Append(events, "Timeout"), LinkKinds, {link})
      /\ NoneIn(events, LinkKinds) => NoneIn(Append(events, "Timeout"), LinkKinds)
  BY <1>2, LastOfAppend
<1>4. /\ LastIn(events, LinkKinds, {link}) => LastIn(events', LinkKinds, {link})
      /\ NoneIn(events, LinkKinds) => NoneIn(events', LinkKinds)
  BY <1>1, <1>3, Zenon
<1>5. LinkHeard => LinkHeard'
  BY <1>1, <1>4 DEF LinkHeard, LinkInEvents, LinkSeen
<1> QED BY <1>1, <1>5 DEF LinkInv, LinkInCommands, LinkInOutbox

\* Nothing is on its way, and the machine is not disconnected.
LEMMA LinkFresh ==
  ASSUME commands = << >>, outbox = << >>, events = << >>, fsm = NewFsmState, link = "Unknown"
  PROVE  LinkInv
<1>1. NoneIn(commands, LinkCommands) /\ NoneIn(outbox, LinkMessages) /\ NoneIn(events, LinkKinds)
  BY LastOfEmpty
<1>2. (fsm.global = "Disconnected") = (link = "LocalDisconnected")
  BY DEF NewFsmState
<1> QED BY <1>1, <1>2 DEF LinkInv, LinkHeard, LinkSeen

LEMMA LinkStep ==
  ASSUME PipeInv, LinkInv, [Next]_vars
  PROVE  LinkInv'
<1>0. TypeOK
  BY DEF PipeInv
<1>1. CASE UNCHANGED vars
  BY <1>1 DEF vars, LinkInv, LinkInCommands, LinkInOutbox, LinkHeard, LinkInEvents, LinkSeen
<1>2. CASE RunFsm
  BY <1>2, LinkRunFsm
<1>3. CASE TakeActions
  BY <1>3 DEF TakeActions, fsmVars, envVars, LinkInv, LinkInCommands, LinkInOutbox, LinkHeard, LinkInEvents, LinkSeen
<1>4. CASE HandleHandshake \/ HandleQueue \/ HandleQueueSafe \/ HandleConnection
  BY <1>0, <1>4, LinkTakeCommand
<1>5. CASE HandleAction
  BY <1>0, <1>5, LinkHandleAction
<1>6. CASE HandlerSend
  BY <1>0, <1>6, LinkHandlerSend
<1>7. CASE Timer \/ TimerExpire
  BY <1>0, <1>7, LinkTimer
<1>8. CASE HubMessage \/ LinkEvent \/ TopologyChange
  BY <1>0, <1>8, LinkEnvironment
<1>9. CASE Crash
  <2>1. /\ (commands = << >>)' /\ (outbox = << >>)' /\ (events = << >>)'
        /\ (fsm = NewFsmState)' /\ (link = "Unknown")'
    BY <1>9 DEF Crash, NewFsmState
  <2>2. NoneIn(<< >>, LinkCommands) /\ NoneIn(<< >>, LinkMessages) /\ NoneIn(<< >>, LinkKinds)
    BY LastOfEmpty
  <2>3. LinkSeen'
    BY <2>1, <2>2 DEF LinkSeen, NewFsmState
  <2> QED BY <2>1, <2>2, <2>3 DEF LinkInv, LinkHeard
<1> QED BY <1>1, <1>2, <1>3, <1>4, <1>5, <1>6, <1>7, <1>8, <1>9 DEF Next, Handler, Environment

\* However fast the broker of the edge comes and goes, and whatever the hubs and the timer
\* do meanwhile: when nothing is on its way, the machine is disconnected exactly when the
\* last event of the connection was a disconnection (run_fsm and the branch of the handler for the commands).
THEOREM LinkFollowedCorrect == Spec => []LinkFollowed
<1>1. Init => LinkInv
  BY LinkFresh DEF Init
<1>2. PipeInv /\ LinkInv /\ [Next]_vars => LinkInv'
  BY LinkStep
<1>3. LinkInv => LinkFollowed
  <2> SUFFICES ASSUME LinkInv, Quiet PROVE (fsm.global = "Disconnected") = (link = "LocalDisconnected")
    BY DEF LinkFollowed
  <2>1. commands = << >> /\ outbox = << >> /\ events = << >>
    BY DEF Quiet
  <2>2. ~LinkInCommands /\ ~LinkInEvents
    BY <2>1, LastOfEmpty DEF LinkInCommands, LinkInEvents
  <2>3. ~LinkInOutbox
    BY <2>1 DEF LinkInOutbox
  <2> QED BY <2>2, <2>3 DEF LinkInv, LinkHeard, LinkSeen
<1> QED BY <1>1, <1>2, <1>3, PipeAlways, PTL DEF Spec

-----------------------------------------------------------------------------
(* The heartbeats *)

\* The pace the heartbeats should have in a state; the actions that ask for a pace.
BeatOf(s) == CASE s.balance = "Phase"               -> "Phase"
               [] s.global \in {"Normal", "SafeMode"} -> s.global
               [] OTHER                               -> "None"

Beats   == {"None", "Phase", "SafeMode", "Normal"}
Sets(b) == { a \in {OnEntry("OnEntryPhase", "Alert")} : b = "Phase" }
           \cup { a \in {Do("OnEntryNormal")} : b = "Normal" }
           \cup { a \in {Do("OnEntrySafeMode")} : b = "SafeMode" }
           \cup { a \in {Do("StopSendHeartbeatMessagePhase"), Do("StopSendHeartbeatMessageSafeMode"),
                         Do("StopSendHeartbeatMessageNormal")} : b = "None" }
Setters == Sets("Phase") \cup Sets("Normal") \cup Sets("SafeMode") \cup Sets("None")

\* The last action of the vectors that asks for a pace asks for that of the state, and
\* once all is performed the heartbeats have it.
BeatInv == \/ Pending(Pipe, doing, Setters, Sets(BeatOf(fsm)))
           \/ Done(Pipe, doing, Setters) /\ beat = BeatOf(fsm)

\* Which actions those are.
LEMMA SettersAre ==
  /\ OnEntry("OnEntryPhase", "Alert") \in Setters \cap Sets("Phase")
  /\ Do("OnEntryNormal") \in Setters \cap Sets("Normal")
  /\ Do("OnEntrySafeMode") \in Setters \cap Sets("SafeMode")
  /\ Do("StopSendHeartbeatMessagePhase") \in Setters \cap Sets("None")
  /\ Do("StopSendHeartbeatMessageSafeMode") \in Setters \cap Sets("None")
  /\ Do("StopSendHeartbeatMessageNormal") \in Setters \cap Sets("None")
  /\ Do("StopTimer") \notin Setters /\ Do("CalculateQuorum") \notin Setters /\ Do("OnEntryDisconnected") \notin Setters
  /\ \A b : OnEntry("OnEntryBalance", b) \notin Setters
  /\ \A q : OnEntry("OnEntryQuorum", q) \notin Setters
  /\ \A p \in {"Data", "Monitor"} : OnEntry("OnEntryPhase", p) \notin Setters
BY DEF Setters, Sets, Do, OnEntry

LEMMA SetsDisjoint ==
  ASSUME NEW b \in Beats, NEW c \in Beats, NEW a \in Sets(b), a \in Sets(c)
  PROVE  b = c
BY DEF Sets, Beats, Do, OnEntry

\* What the vector of a transition asks for.
LEMMA StepBeat ==
  ASSUME NEW s \in FsmState, Hierarchical(s), NEW e \in Event, NEW t \in Step(s, e)
  PROVE  \/ LastIn(t.acts, Setters, Sets(BeatOf(t.to)))
         \/ NoneIn(t.acts, Setters) /\ BeatOf(t.to) = BeatOf(s)
<1> DEFINE u == t.to
           v == t.acts
           Good == LastIn(v, Setters, Sets(BeatOf(u))) \/ (NoneIn(v, Setters) /\ BeatOf(u) = BeatOf(s))
<1>1. Stays(s, e, u, v) \/ Moves(s, e, u, v)
  BY TransitionIs
<1>2. /\ \A a \in Action : a \notin Setters => NoneIn(<< a >>, Setters)
      /\ \A a, b \in Action : a \notin Setters /\ b \notin Setters => NoneIn(<< a, b >>, Setters)
  BY LastOfList
<1>3. ASSUME NEW T, NEW a \in Action, NEW b \in Action, NEW c \in Action
      PROVE  /\ a \in Setters \cap T => LastIn(<< a >>, Setters, T)
             /\ b \in Setters \cap T => LastIn(<< a, b >>, Setters, T)
             /\ a \in Setters \cap T /\ b \notin Setters => LastIn(<< a, b >>, Setters, T)
             /\ c \in Setters \cap T => LastIn(<< a, b, c >>, Setters, T)
             /\ a \in Setters \cap T /\ b \notin Setters /\ c \notin Setters => LastIn(<< a, b, c >>, Setters, T)
  BY LastOfList
<1>4. s.global = "BalanceMode" /\ s.phase = None => BeatOf(s) = "None"
  BY DEF Hierarchical, BeatOf, None
<1>5. /\ \A g \in StateGlobal : BeatOf(Global(g)) = IF g \in {"Normal", "SafeMode"} THEN g ELSE "None"
      /\ \A b \in {"InitBalanceMode", "InHandshake", "OutHandshake"} : BeatOf(Balance(b)) = "None"
      /\ \A q : BeatOf(Quorum(q)) = "None"
      /\ \A p : BeatOf(Phase(p)) = "Phase"
  BY DEF BeatOf, Global, Balance, Quorum, Phase, None, StateGlobal
<1> HIDE DEF u, v
<1>6. Stays(s, e, u, v) => Good
  <2> SUFFICES ASSUME Stays(s, e, u, v) PROVE Good
    OBVIOUS
  <2>1. u = s /\ (v = << >> \/ v = << Do("CalculateQuorum") >>)
    BY DEF Stays
  <2>2. NoneIn(v, Setters)
    BY <2>1, <1>2, LastOfEmpty, SettersAre, ActionTypes
  <2> QED BY <2>1, <2>2
<1>7. ToInit(s, e, u, v) => Good
  <2> SUFFICES ASSUME ToInit(s, e, u, v) PROVE Good
    OBVIOUS
  <2>1. v = << OnEntry("OnEntryBalance", "InitBalanceMode") >> /\ OnEntry("OnEntryBalance", "InitBalanceMode") \in Action
    BY ActionTypes DEF ToInit, SubStateBalanceMode
  <2>2. NoneIn(v, Setters)
    BY <2>1, <1>2, SettersAre
  <2>3. BeatOf(u) = "None" /\ BeatOf(s) = "None"
    BY <1>5 DEF ToInit, StateGlobal
  <2> QED BY <2>2, <2>3
<1>8. ToInHandshake(s, e, u, v) => Good
  <2> SUFFICES ASSUME ToInHandshake(s, e, u, v) PROVE Good
    OBVIOUS
  <2>1. v = << OnEntry("OnEntryBalance", "InHandshake") >> /\ OnEntry("OnEntryBalance", "InHandshake") \in Action
    BY ActionTypes DEF ToInHandshake, SubStateBalanceMode
  <2>2. NoneIn(v, Setters)
    BY <2>1, <1>2, SettersAre
  <2>3. BeatOf(u) = "None" /\ BeatOf(s) = "None"
    BY <1>5 DEF ToInHandshake
  <2> QED BY <2>2, <2>3
<1>9. ToSafeMode(s, e, u, v) => Good
  <2> SUFFICES ASSUME ToSafeMode(s, e, u, v) PROVE Good
    OBVIOUS
  <2>1. v = << Do("OnEntrySafeMode") >> /\ Do("OnEntrySafeMode") \in Action
    BY ActionTypes DEF ToSafeMode
  <2>2. BeatOf(u) = "SafeMode"
    BY <1>5 DEF ToSafeMode, StateGlobal
  <2> QED BY <2>1, <2>2, <1>3, SettersAre
<1>10. ToCheck(s, e, u, v) => Good
  <2> SUFFICES ASSUME ToCheck(s, e, u, v) PROVE Good
    OBVIOUS
  <2>1. PICK q \in Checks : /\ u = Quorum(q) /\ s.global = "BalanceMode" /\ s.phase = None
                            /\ \/ v = << OnEntry("OnEntryQuorum", q) >>
                               \/ v = << OnEntry("OnEntryBalance", "Quorum"), OnEntry("OnEntryQuorum", q) >>
    BY DEF ToCheck
  <2>2. OnEntry("OnEntryQuorum", q) \in Action /\ OnEntry("OnEntryBalance", "Quorum") \in Action
    BY ActionTypes DEF Checks, SubStateQuorum, SubStateBalanceMode
  <2>3. NoneIn(v, Setters)
    BY <2>1, <2>2, <1>2, SettersAre
  <2>4. BeatOf(u) = "None" /\ BeatOf(s) = "None"
    BY <1>4, <1>5, <2>1
  <2> QED BY <2>3, <2>4
<1>11. ToRepeat(s, e, u, v) => Good
  <2> SUFFICES ASSUME ToRepeat(s, e, u, v) PROVE Good
    OBVIOUS
  <2>1. PICK q \in Repeats : /\ u = Quorum(q) /\ s.global = "BalanceMode" /\ s.phase = None
                             /\ v = << OnEntry("OnEntryQuorum", q) >>
    BY DEF ToRepeat
  <2>2. OnEntry("OnEntryQuorum", q) \in Action
    BY ActionTypes DEF Repeats, SubStateQuorum
  <2>3. NoneIn(v, Setters)
    BY <2>1, <2>2, <1>2, SettersAre
  <2>4. BeatOf(u) = "None" /\ BeatOf(s) = "None"
    BY <1>4, <1>5, <2>1
  <2> QED BY <2>3, <2>4
<1>12. ToAlert(s, e, u, v) => Good
  <2> SUFFICES ASSUME ToAlert(s, e, u, v) PROVE Good
    OBVIOUS
  <2>1. v = << Do("StopTimer"), OnEntry("OnEntryBalance", "Phase"), OnEntry("OnEntryPhase", "Alert") >>
    BY DEF ToAlert
  <2>2. Do("StopTimer") \in Action /\ OnEntry("OnEntryBalance", "Phase") \in Action /\ OnEntry("OnEntryPhase", "Alert") \in Action
    BY ActionTypes DEF SubStateBalanceMode, SubStatePhase
  <2>3. BeatOf(u) = "Phase"
    BY <1>5 DEF ToAlert
  <2> QED BY <2>1, <2>2, <2>3, <1>3, SettersAre
<1>13. ToNextPhase(s, e, u, v) => Good
  <2> SUFFICES ASSUME ToNextPhase(s, e, u, v) PROVE Good
    OBVIOUS
  <2>1. PICK p \in {"Data", "Monitor"} : u = Phase(p) /\ s.balance = "Phase" /\ s.global = "BalanceMode" /\ v = << Do("StopTimer"), OnEntry("OnEntryPhase", p) >>
    BY DEF ToNextPhase
  <2>2. Do("StopTimer") \in Action /\ OnEntry("OnEntryPhase", p) \in Action
    BY ActionTypes DEF SubStatePhase
  <2>3. NoneIn(v, Setters)
    BY <2>1, <2>2, <1>2, SettersAre
  <2>4. BeatOf(u) = "Phase"
    BY <1>5, <2>1
  <2>5. BeatOf(s) = "Phase"
    BY <2>1 DEF BeatOf
  <2> QED BY <2>3, <2>4, <2>5
<1>14. ToOutHandshake(s, e, u, v) => Good
  <2> SUFFICES ASSUME ToOutHandshake(s, e, u, v) PROVE Good
    OBVIOUS
  <2>1. v = << Do("StopSendHeartbeatMessagePhase"), Do("StopTimer"), OnEntry("OnEntryBalance", "OutHandshake") >>
    BY DEF ToOutHandshake
  <2>2. Do("StopSendHeartbeatMessagePhase") \in Action /\ Do("StopTimer") \in Action /\ OnEntry("OnEntryBalance", "OutHandshake") \in Action
    BY ActionTypes DEF SubStateBalanceMode
  <2>3. BeatOf(u) = "None"
    BY <1>5 DEF ToOutHandshake
  <2> QED BY <2>1, <2>2, <2>3, <1>3, SettersAre
<1>15. ToNormal(s, e, u, v) => Good
  <2> SUFFICES ASSUME ToNormal(s, e, u, v) PROVE Good
    OBVIOUS
  <2>1. PICK a \in {Do("StopTimer"), Do("StopSendHeartbeatMessageSafeMode")} : v = << a, Do("OnEntryNormal") >>
    BY DEF ToNormal
  <2>2. a \in Action /\ Do("OnEntryNormal") \in Action
    BY ActionTypes
  <2>3. BeatOf(u) = "Normal"
    BY <1>5 DEF ToNormal, StateGlobal
  <2> QED BY <2>1, <2>2, <2>3, <1>3, SettersAre
<1>16. ToDisconnected(s, e, u, v) => Good
  <2> SUFFICES ASSUME ToDisconnected(s, e, u, v) PROVE Good
    OBVIOUS
  <2>1. \/ v = << Do("StopSendHeartbeatMessagePhase"), Do("StopTimer"), Do("OnEntryDisconnected") >>
        \/ v = << Do("StopSendHeartbeatMessageSafeMode"), Do("OnEntryDisconnected") >>
        \/ v = << Do("StopSendHeartbeatMessageNormal"), Do("OnEntryDisconnected") >>
    BY DEF ToDisconnected
  <2>2. \A a \in {"StopSendHeartbeatMessagePhase", "StopTimer", "OnEntryDisconnected", "StopSendHeartbeatMessageSafeMode",
                  "StopSendHeartbeatMessageNormal"} : Do(a) \in Action
    BY ActionTypes
  <2>3. BeatOf(u) = "None"
    BY <1>5 DEF ToDisconnected, StateGlobal
  <2> QED BY <2>1, <2>2, <2>3, <1>3, SettersAre
<1> QED BY <1>1, <1>6, <1>7, <1>8, <1>9, <1>10, <1>11, <1>12, <1>13, <1>14, <1>15, <1>16 DEF Moves, u, v

\* What the handler does about the heartbeats for each action.
LEMMA BeatActions ==
  ASSUME HandleAction
  PROVE  \E a : Perform(a) /\ ((a \notin Setters /\ beat' = beat) \/ (beat' \in Beats /\ a \in Sets(beat')))
<1> DEFINE Goal == \E a : Perform(a) /\ ((a \notin Setters /\ beat' = beat) \/ (beat' \in Beats /\ a \in Sets(beat')))
<1>1. EnterInitBalanceMode => Goal
  BY SettersAre DEF EnterInitBalanceMode
<1>2. EnterHandshake => Goal
  BY SettersAre DEF EnterHandshake
<1>3. EnterCheckQuorum => Goal
  BY SettersAre DEF EnterCheckQuorum
<1>4. EnterRepeatHandshake => Goal
  BY SettersAre DEF EnterRepeatHandshake, RepeatHandshake
<1>5. EnterPhase => Goal
  <2> SUFFICES ASSUME EnterPhase PROVE Goal
    OBVIOUS
  <2>1. PICK p \in SubStatePhase : Perform(OnEntry("OnEntryPhase", p)) /\ beat' = IF p = "Alert" THEN "Phase" ELSE beat
    BY DEF EnterPhase
  <2>2. CASE p = "Alert"
    BY <2>1, <2>2, SettersAre DEF Beats
  <2>3. CASE p # "Alert"
    <3>1. OnEntry("OnEntryPhase", p) \notin Setters
      BY <2>3, SettersAre DEF SubStatePhase
    <3> QED BY <2>1, <2>3, <3>1
  <2> QED BY <2>2, <2>3
<1>6. EnterNormal => Goal
  BY SettersAre DEF EnterNormal, Beats
<1>7. EnterSafeMode => Goal
  BY SettersAre DEF EnterSafeMode, Beats
<1>8. EnterDisconnected => Goal
  BY SettersAre DEF EnterDisconnected
<1>9. CalculateQuorum => Goal
  BY SettersAre DEF CalculateQuorum
<1>10. StopTimer => Goal
  BY SettersAre DEF StopTimer
<1>11. StopHeartbeats => Goal
  <2> SUFFICES ASSUME StopHeartbeats PROVE Goal
    OBVIOUS
  <2>1. PICK x \in {"StopSendHeartbeatMessagePhase", "StopSendHeartbeatMessageSafeMode", "StopSendHeartbeatMessageNormal"} :
          Perform(Do(x)) /\ beat' = "None"
    BY DEF StopHeartbeats
  <2> QED BY <2>1, SettersAre DEF Beats
<1>12. SkipAction => Goal
  BY SettersAre DEF SkipAction
<1> QED BY <1>1, <1>2, <1>3, <1>4, <1>5, <1>6, <1>7, <1>8, <1>9, <1>10, <1>11, <1>12 DEF HandleAction

\* Nobody else does anything about them.
LEMMA BeatOthers ==
  ASSUME [Next]_vars, ~HandleAction, ~Crash
  PROVE  beat' = beat
<1>1. CASE UNCHANGED vars
  BY <1>1 DEF vars
<1>2. CASE HandleHandshake \/ HandleQueue \/ HandleQueueSafe \/ HandleConnection
  BY <1>2 DEF HandleHandshake, HandleQueue, HandleQueueSafe, HandleConnection, TakeCommand
<1>3. CASE HandlerSend \/ TakeActions
  BY <1>3 DEF HandlerSend, TakeActions
<1>4. CASE Timer \/ TimerExpire
  BY <1>4 DEF Timer, TimerReceive, TimerFire, TimerExpire, handlerVars
<1>5. CASE HubMessage \/ LinkEvent \/ TopologyChange
  BY <1>5 DEF HubMessage, LinkEvent, TopologyChange, Deliver, handlerVars
<1>6. CASE RunFsm
  BY <1>6 DEF RunFsm, FsmStart, FsmTurn, FsmUnblocked, handlerVars
<1> QED BY <1>1, <1>2, <1>3, <1>4, <1>5, <1>6 DEF Next, Handler, Environment

LEMMA BeatStep ==
  ASSUME PipeInv, BeatInv, [Next]_vars
  PROVE  BeatInv'
<1>0. Pipe \in Seq(Seq(Action)) /\ doing \in Seq(Action) /\ fsm \in FsmState /\ Hierarchical(fsm) /\ events \in Seq(Event)
  BY PipeTyped DEF PipeInv, TypeOK
<1>1. ASSUME NEW e \in Event, Transits(e), beat' = beat
      PROVE  BeatInv'
  <2>1. PICK t \in Step(fsm, e) : fsm' = t.to /\ Pipe' = Append(Pipe, t.acts) /\ doing' = doing
    BY <1>1 DEF Transits
  <2>2. PICK v \in Seq(Action) : v = t.acts
    BY <1>0, StepWellformed DEF Wellformed
  <2>3. LastIn(v, Setters, Sets(BeatOf(fsm'))) \/ (NoneIn(v, Setters) /\ BeatOf(fsm') = BeatOf(fsm))
    BY <1>0, <2>1, <2>2, StepBeat
  <2>4. PICK p, d, T : p = Pipe /\ d = doing /\ T = Sets(BeatOf(fsm'))
    OBVIOUS
  <2>5. Pipe' = Append(p, v) /\ doing' = d
    BY <2>1, <2>2, <2>4, Zenon
  <2>6. /\ LastIn(v, Setters, T) => Pending(Append(p, v), d, Setters, T)
        /\ NoneIn(v, Setters) /\ Pending(p, d, Setters, T) => Pending(Append(p, v), d, Setters, T)
        /\ NoneIn(v, Setters) /\ Done(p, d, Setters) => Done(Append(p, v), d, Setters)
    BY <1>0, <2>4, SendKeeps
  <2> QED BY <1>1, <2>3, <2>4, <2>5, <2>6, Zenon DEF BeatInv
<1>2. CASE RunFsm
  <2>2. beat' = beat
    BY <1>2 DEF RunFsm, FsmStart, FsmTurn, FsmUnblocked, handlerVars
  <2>3. events # << >> => Head(events) \in Event
    BY <1>0, ChannelTypes
  <2>4. "Start" \in Event
    BY DEF Event
  <2>5. (\E e \in Event : Transits(e)) \/ PipeSame
    BY <1>2, <2>3, <2>4, RunFsmSends
  <2>6. CASE PipeSame
    BY <2>2, <2>6 DEF BeatInv, PipeSame
  <2> QED BY <1>1, <2>2, <2>5, <2>6
<1>3. CASE TakeActions
  <2>1. fsm' = fsm /\ Pipe # << >> /\ doing = << >> /\ doing' = Head(Pipe) /\ Pipe' = Tail(Pipe) /\ beat' = beat
    BY <1>3, TakeActionsTakes DEF TakesVector
  <2>2. PICK p, T : p = Pipe /\ T = Sets(BeatOf(fsm))
    OBVIOUS
  <2>3. /\ Pending(p, << >>, Setters, T) => Pending(Tail(p), Head(p), Setters, T)
        /\ Done(p, << >>, Setters) => Done(Tail(p), Head(p), Setters)
    BY <1>0, <2>1, <2>2, TakeKeeps
  <2> QED BY <2>1, <2>2, <2>3, Zenon DEF BeatInv
<1>4. CASE HandleAction
  <2>1. PICK a : Perform(a) /\ ((a \notin Setters /\ beat' = beat) \/ (beat' \in Beats /\ a \in Sets(beat')))
    BY <1>4, BeatActions
  <2>2. doing # << >> /\ Head(doing) = a /\ doing' = Tail(doing) /\ fsm' = fsm /\ Pipe' = Pipe
    BY <2>1, PerformTakes
  <2>3. PICK p, d, b : p = Pipe /\ d = doing /\ b = BeatOf(fsm)
    OBVIOUS
  <2>4. /\ Pending(p, d, Setters, Sets(b))
             => Pending(p, Tail(d), Setters, Sets(b)) \/ (Done(p, Tail(d), Setters) /\ Head(d) \in Setters \cap Sets(b))
        /\ Done(p, d, Setters) => Done(p, Tail(d), Setters) /\ Head(d) \notin Setters
    BY <1>0, <2>2, <2>3, PerformKeeps
  <2>5. a \in Sets(beat') /\ beat' \in Beats => a \in Setters
    BY DEF Setters, Beats
  <2>6. b \in Beats
    BY <1>0, <2>3 DEF BeatOf, Beats
  <2>7. a \in Sets(b) /\ a \in Setters => beat' = b
    BY <2>1, <2>6, SetsDisjoint
  <2> QED BY <2>1, <2>2, <2>3, <2>4, <2>5, <2>7, Zenon DEF BeatInv
<1>5. CASE Crash
  <2>1. Pipe' = << >> /\ doing' = << >> /\ beat' = "None" /\ fsm' = NewFsmState
    BY <1>5, JoinEmpty DEF Crash, Pipe
  <2>2. Done(<< >>, << >>, Setters)
    BY NothingPending
  <2>3. BeatOf(NewFsmState) = "None"
    BY DEF BeatOf, NewFsmState, None
  <2> QED BY <2>1, <2>2, <2>3, Zenon DEF BeatInv
<1>6. CASE ~RunFsm /\ ~TakeActions /\ ~HandleAction /\ ~Crash
  BY <1>6, PipeOthers, BeatOthers DEF BeatInv, Pipe
<1> QED BY <1>2, <1>3, <1>4, <1>5, <1>6

\* Heartbeats were asked for, at the pace of the mode, exactly where they should be, once
\* nothing is on its way: no order of the vectors in the channel leaves a pace behind
\* (compute_on_entry, and the arms of handle_action for heartbeat_generator).
THEOREM HeartbeatsMatchCorrect == Spec => []HeartbeatsMatch
<1>1. Init => BeatInv
  <2> SUFFICES ASSUME Init PROVE BeatInv
    OBVIOUS
  <2>1. Pipe = << >> /\ doing = << >> /\ beat = "None" /\ fsm = NewFsmState
    BY JoinEmpty DEF Init, Pipe
  <2>2. Done(<< >>, << >>, Setters)
    BY NothingPending
  <2>3. BeatOf(NewFsmState) = "None"
    BY DEF BeatOf, NewFsmState, None
  <2> QED BY <2>1, <2>2, <2>3, Zenon DEF BeatInv
<1>2. PipeInv /\ BeatInv /\ [Next]_vars => BeatInv'
  BY BeatStep
<1>3. BeatInv => HeartbeatsMatch
  <2> SUFFICES ASSUME BeatInv, Quiet PROVE beat = BeatOf(fsm)
    BY DEF HeartbeatsMatch, BeatOf
  <2>1. Pipe = << >> /\ doing = << >>
    BY JoinEmpty DEF Quiet, Pipe
  <2>2. ~Pending(<< >>, << >>, Setters, Sets(BeatOf(fsm)))
    BY NothingPending
  <2> QED BY <2>1, <2>2, Zenon DEF BeatInv
<1> QED BY <1>1, <1>2, <1>3, PipeAlways, PTL DEF Spec

-----------------------------------------------------------------------------
(* The mode that is announced *)

\* The action that announces a mode; all of them.
Announces(g)  == { a \in {OnEntry("OnEntryBalance", "InitBalanceMode")} : g = "BalanceMode" }
                 \cup { a \in {Do("OnEntryNormal")} : g = "Normal" }
                 \cup { a \in {Do("OnEntrySafeMode")} : g = "SafeMode" }
                 \cup { a \in {Do("OnEntryDisconnected")} : g = "Disconnected" }
Announcements == Announces("BalanceMode") \cup Announces("Normal") \cup Announces("SafeMode") \cup Announces("Disconnected")

\* The last announcement of the vectors is that of the mode of the machine, and once all
\* is performed it is the one in force; a balance is announced with the session's epoch.
AnnouncedInv == \/ Pending(Pipe, doing, Announcements, Announces(fsm.global))
                \/ Done(Pipe, doing, Announcements) /\ mode.state = fsm.global
EpochInv     == mode.state = "BalanceMode" => mode.epoch = session.epoch

LEMMA AnnouncementsAre ==
  /\ OnEntry("OnEntryBalance", "InitBalanceMode") \in Announcements \cap Announces("BalanceMode")
  /\ Do("OnEntryNormal") \in Announcements \cap Announces("Normal")
  /\ Do("OnEntrySafeMode") \in Announcements \cap Announces("SafeMode")
  /\ Do("OnEntryDisconnected") \in Announcements \cap Announces("Disconnected")
  /\ \A a \in {"StopTimer", "CalculateQuorum", "StopSendHeartbeatMessagePhase", "StopSendHeartbeatMessageSafeMode",
               "StopSendHeartbeatMessageNormal"} : Do(a) \notin Announcements
  /\ \A b \in {"InHandshake", "OutHandshake", "Quorum", "Phase"} : OnEntry("OnEntryBalance", b) \notin Announcements
  /\ \A q : OnEntry("OnEntryQuorum", q) \notin Announcements
  /\ \A p : OnEntry("OnEntryPhase", p) \notin Announcements
BY DEF Announcements, Announces, Do, OnEntry

LEMMA AnnouncesDisjoint ==
  ASSUME NEW g \in StateGlobal, NEW h \in StateGlobal, NEW a \in Announces(g), a \in Announces(h)
  PROVE  g = h
BY DEF Announces, Do, OnEntry

\* What the vector of a transition announces.
LEMMA StepAnnounces ==
  ASSUME NEW s \in FsmState, Hierarchical(s), NEW e \in Event, NEW t \in Step(s, e)
  PROVE  \/ LastIn(t.acts, Announcements, Announces(t.to.global))
         \/ NoneIn(t.acts, Announcements) /\ t.to.global = s.global
<1> DEFINE u == t.to
           v == t.acts
           Good == LastIn(v, Announcements, Announces(u.global)) \/ (NoneIn(v, Announcements) /\ u.global = s.global)
<1>1. Stays(s, e, u, v) \/ Moves(s, e, u, v)
  BY TransitionIs
<1>2. /\ \A a \in Action : a \notin Announcements => NoneIn(<< a >>, Announcements)
      /\ \A a, b \in Action : a \notin Announcements /\ b \notin Announcements => NoneIn(<< a, b >>, Announcements)
      /\ \A a, b, c \in Action : a \notin Announcements /\ b \notin Announcements /\ c \notin Announcements
                                   => NoneIn(<< a, b, c >>, Announcements)
  BY LastOfList
<1>3. ASSUME NEW T, NEW a \in Action, NEW b \in Action, NEW c \in Action
      PROVE  /\ a \in Announcements \cap T => LastIn(<< a >>, Announcements, T)
             /\ b \in Announcements \cap T => LastIn(<< a, b >>, Announcements, T)
             /\ c \in Announcements \cap T => LastIn(<< a, b, c >>, Announcements, T)
  BY LastOfList
<1>4. \A a \in {"StopSendHeartbeatMessagePhase", "StopTimer", "CalculateQuorum", "OnEntryDisconnected", "OnEntryNormal",
                "OnEntrySafeMode", "StopSendHeartbeatMessageSafeMode", "StopSendHeartbeatMessageNormal"} : Do(a) \in Action
  BY ActionTypes
<1>5. /\ \A b \in SubStateBalanceMode : OnEntry("OnEntryBalance", b) \in Action
      /\ \A q \in SubStateQuorum : OnEntry("OnEntryQuorum", q) \in Action
      /\ \A p \in SubStatePhase : OnEntry("OnEntryPhase", p) \in Action
  BY ActionTypes
<1> HIDE DEF u, v
<1>6. Stays(s, e, u, v) => Good
  <2> SUFFICES ASSUME Stays(s, e, u, v) PROVE Good
    OBVIOUS
  <2>1. u = s /\ (v = << >> \/ v = << Do("CalculateQuorum") >>)
    BY DEF Stays
  <2>2. NoneIn(v, Announcements)
    BY <2>1, <1>2, <1>4, LastOfEmpty, AnnouncementsAre
  <2> QED BY <2>1, <2>2
<1>7. ToInHandshake(s, e, u, v) => Good
  <2> SUFFICES ASSUME ToInHandshake(s, e, u, v) PROVE Good
    OBVIOUS
  <2>1. v = << OnEntry("OnEntryBalance", "InHandshake") >> /\ u.global = s.global
    BY DEF ToInHandshake, Balance
  <2>2. NoneIn(v, Announcements)
    BY <2>1, <1>2, <1>4, <1>5, AnnouncementsAre DEF SubStateBalanceMode
  <2> QED BY <2>1, <2>2
<1>8. ToCheck(s, e, u, v) => Good
  <2> SUFFICES ASSUME ToCheck(s, e, u, v) PROVE Good
    OBVIOUS
  <2>1. \E q \in Checks :
          /\ u.global = s.global
          /\ \/ v = << OnEntry("OnEntryQuorum", q) >>
             \/ v = << OnEntry("OnEntryBalance", "Quorum"), OnEntry("OnEntryQuorum", q) >>
    BY DEF ToCheck, Quorum
  <2>2. NoneIn(v, Announcements)
    BY <2>1, <1>2, <1>4, <1>5, AnnouncementsAre DEF SubStateBalanceMode, SubStateQuorum, Checks
  <2> QED BY <2>1, <2>2
<1>9. ToRepeat(s, e, u, v) => Good
  <2> SUFFICES ASSUME ToRepeat(s, e, u, v) PROVE Good
    OBVIOUS
  <2>1. \E q \in Repeats : u.global = s.global /\ v = << OnEntry("OnEntryQuorum", q) >>
    BY DEF ToRepeat, Quorum
  <2>2. NoneIn(v, Announcements)
    BY <2>1, <1>2, <1>4, <1>5, AnnouncementsAre DEF SubStateQuorum, Repeats
  <2> QED BY <2>1, <2>2
<1>10. ToAlert(s, e, u, v) => Good
  <2> SUFFICES ASSUME ToAlert(s, e, u, v) PROVE Good
    OBVIOUS
  <2>1. /\ u.global = s.global
        /\ v = << Do("StopTimer"), OnEntry("OnEntryBalance", "Phase"), OnEntry("OnEntryPhase", "Alert") >>
    BY DEF ToAlert, Phase
  <2>2. NoneIn(v, Announcements)
    BY <2>1, <1>2, <1>4, <1>5, AnnouncementsAre DEF SubStateBalanceMode, SubStatePhase
  <2> QED BY <2>1, <2>2
<1>11. ToNextPhase(s, e, u, v) => Good
  <2> SUFFICES ASSUME ToNextPhase(s, e, u, v) PROVE Good
    OBVIOUS
  <2>1. \E p \in {"Data", "Monitor"} : u.global = s.global /\ v = << Do("StopTimer"), OnEntry("OnEntryPhase", p) >>
    BY DEF ToNextPhase, Phase
  <2>2. NoneIn(v, Announcements)
    BY <2>1, <1>2, <1>4, <1>5, AnnouncementsAre DEF SubStatePhase
  <2> QED BY <2>1, <2>2
<1>12. ToOutHandshake(s, e, u, v) => Good
  <2> SUFFICES ASSUME ToOutHandshake(s, e, u, v) PROVE Good
    OBVIOUS
  <2>1. /\ u.global = s.global
        /\ v = << Do("StopSendHeartbeatMessagePhase"), Do("StopTimer"), OnEntry("OnEntryBalance", "OutHandshake") >>
    BY DEF ToOutHandshake, Balance, Phase
  <2>2. NoneIn(v, Announcements)
    BY <2>1, <1>2, <1>4, <1>5, AnnouncementsAre DEF SubStateBalanceMode
  <2> QED BY <2>1, <2>2
<1>13. ToInit(s, e, u, v) => Good
  <2> SUFFICES ASSUME ToInit(s, e, u, v) PROVE Good
    OBVIOUS
  <2>1. v = << OnEntry("OnEntryBalance", "InitBalanceMode") >> /\ u.global = "BalanceMode"
    BY DEF ToInit, Balance
  <2> QED BY <2>1, <1>3, <1>4, <1>5, AnnouncementsAre DEF SubStateBalanceMode
<1>14. ToSafeMode(s, e, u, v) => Good
  <2> SUFFICES ASSUME ToSafeMode(s, e, u, v) PROVE Good
    OBVIOUS
  <2>1. v = << Do("OnEntrySafeMode") >> /\ u.global = "SafeMode"
    BY DEF ToSafeMode, Global
  <2> QED BY <2>1, <1>3, <1>4, <1>5, AnnouncementsAre
<1>15. ToNormal(s, e, u, v) => Good
  <2> SUFFICES ASSUME ToNormal(s, e, u, v) PROVE Good
    OBVIOUS
  <2>1. /\ u.global = "Normal"
        /\ \/ v = << Do("StopTimer"), Do("OnEntryNormal") >>
           \/ v = << Do("StopSendHeartbeatMessageSafeMode"), Do("OnEntryNormal") >>
    BY DEF ToNormal, Global
  <2> QED BY <2>1, <1>3, <1>4, <1>5, AnnouncementsAre
<1>16. ToDisconnected(s, e, u, v) => Good
  <2> SUFFICES ASSUME ToDisconnected(s, e, u, v) PROVE Good
    OBVIOUS
  <2>1. /\ u.global = "Disconnected"
        /\ \/ v = << Do("StopSendHeartbeatMessagePhase"), Do("StopTimer"), Do("OnEntryDisconnected") >>
           \/ v = << Do("StopSendHeartbeatMessageSafeMode"), Do("OnEntryDisconnected") >>
           \/ v = << Do("StopSendHeartbeatMessageNormal"), Do("OnEntryDisconnected") >>
    BY DEF ToDisconnected, Global
  <2> QED BY <2>1, <1>3, <1>4, <1>5, AnnouncementsAre
<1> QED BY <1>1, <1>6, <1>7, <1>8, <1>9, <1>10, <1>11, <1>12, <1>13, <1>14, <1>15, <1>16 DEF Moves, u, v

\* What the handler announces for each action, when it can read the epoch.
LEMMA AnnounceActions ==
  ASSUME MaxReadErrors = 0, TypeOK, HandleAction
  PROVE  \E a : /\ Perform(a)
                /\ \/ a \notin Announcements /\ mode' = mode
                   \/ mode'.state \in StateGlobal /\ a \in Announces(mode'.state)
<1> DEFINE Told(a) == (a \notin Announcements /\ mode' = mode) \/ (mode'.state \in StateGlobal /\ a \in Announces(mode'.state))
           Goal == \E a : Perform(a) /\ Told(a)
<1>1. EnterInitBalanceMode => Goal
  <2> SUFFICES ASSUME EnterInitBalanceMode PROVE Goal
    OBVIOUS
  <2>1. spent.read \in Nat
    BY DEF TypeOK
  <2>2. ~(spent.read < MaxReadErrors)
    BY <2>1
  <2>3. mode' = [state |-> "BalanceMode", epoch |-> dbEpoch + 1] /\ Perform(OnEntry("OnEntryBalance", "InitBalanceMode"))
    BY <2>2 DEF EnterInitBalanceMode
  <2>4. mode'.state = "BalanceMode"
    BY <2>3
  <2> QED BY <2>3, <2>4, AnnouncementsAre DEF StateGlobal
<1>2. EnterHandshake => Goal
  BY AnnouncementsAre DEF EnterHandshake
<1>3. EnterCheckQuorum => Goal
  BY AnnouncementsAre DEF EnterCheckQuorum
<1>4. EnterRepeatHandshake => Goal
  BY AnnouncementsAre DEF EnterRepeatHandshake, RepeatHandshake
<1>5. EnterPhase => Goal
  BY AnnouncementsAre DEF EnterPhase
<1>6. EnterNormal => Goal
  BY AnnouncementsAre DEF EnterNormal, StateGlobal
<1>7. EnterSafeMode => Goal
  BY AnnouncementsAre DEF EnterSafeMode, StateGlobal
<1>8. EnterDisconnected => Goal
  BY AnnouncementsAre DEF EnterDisconnected, StateGlobal
<1>9. CalculateQuorum => Goal
  BY AnnouncementsAre DEF CalculateQuorum
<1>10. StopTimer => Goal
  BY AnnouncementsAre DEF StopTimer
<1>11. StopHeartbeats => Goal
  BY AnnouncementsAre DEF StopHeartbeats
<1>12. SkipAction => Goal
  BY AnnouncementsAre DEF SkipAction
<1> QED BY <1>1, <1>2, <1>3, <1>4, <1>5, <1>6, <1>7, <1>8, <1>9, <1>10, <1>11, <1>12 DEF HandleAction

\* Nobody else announces anything.
LEMMA AnnounceOthers ==
  ASSUME [Next]_vars, ~HandleAction, ~Crash
  PROVE  mode' = mode
<1>1. CASE UNCHANGED vars
  BY <1>1 DEF vars
<1>2. CASE HandleHandshake \/ HandleQueue \/ HandleQueueSafe \/ HandleConnection
  BY <1>2 DEF HandleHandshake, HandleQueue, HandleQueueSafe, HandleConnection, TakeCommand
<1>3. CASE HandlerSend \/ TakeActions
  BY <1>3 DEF HandlerSend, TakeActions
<1>4. CASE Timer \/ TimerExpire
  BY <1>4 DEF Timer, TimerReceive, TimerFire, TimerExpire, handlerVars
<1>5. CASE HubMessage \/ LinkEvent \/ TopologyChange
  BY <1>5 DEF HubMessage, LinkEvent, TopologyChange, Deliver, handlerVars
<1>6. CASE RunFsm
  BY <1>6 DEF RunFsm, FsmStart, FsmTurn, FsmUnblocked, handlerVars
<1> QED BY <1>1, <1>2, <1>3, <1>4, <1>5, <1>6 DEF Next, Handler, Environment

LEMMA AnnounceStep ==
  ASSUME MaxReadErrors = 0, PipeInv, AnnouncedInv, [Next]_vars
  PROVE  AnnouncedInv'
<1>0. Pipe \in Seq(Seq(Action)) /\ doing \in Seq(Action) /\ fsm \in FsmState /\ Hierarchical(fsm) /\ events \in Seq(Event) /\ TypeOK
  BY PipeTyped DEF PipeInv, TypeOK
<1>1. ASSUME NEW e \in Event, Transits(e), mode' = mode
      PROVE  AnnouncedInv'
  <2>1. PICK t \in Step(fsm, e) : fsm' = t.to /\ Pipe' = Append(Pipe, t.acts) /\ doing' = doing
    BY <1>1 DEF Transits
  <2>2. PICK v \in Seq(Action) : v = t.acts
    BY <1>0, StepWellformed DEF Wellformed
  <2>3. LastIn(v, Announcements, Announces(fsm'.global)) \/ (NoneIn(v, Announcements) /\ fsm'.global = fsm.global)
    BY <1>0, <2>1, <2>2, StepAnnounces
  <2>4. PICK p, d, T : p = Pipe /\ d = doing /\ T = Announces(fsm'.global)
    OBVIOUS
  <2>5. Pipe' = Append(p, v) /\ doing' = d
    BY <2>1, <2>2, <2>4, Zenon
  <2>6. /\ LastIn(v, Announcements, T) => Pending(Append(p, v), d, Announcements, T)
        /\ NoneIn(v, Announcements) /\ Pending(p, d, Announcements, T) => Pending(Append(p, v), d, Announcements, T)
        /\ NoneIn(v, Announcements) /\ Done(p, d, Announcements) => Done(Append(p, v), d, Announcements)
    BY <1>0, <2>4, SendKeeps
  <2> QED BY <1>1, <2>3, <2>4, <2>5, <2>6, Zenon DEF AnnouncedInv
<1>2. CASE RunFsm
  <2>2. mode' = mode
    BY <1>2 DEF RunFsm, FsmStart, FsmTurn, FsmUnblocked, handlerVars
  <2>3. events # << >> => Head(events) \in Event
    BY <1>0, ChannelTypes
  <2>4. "Start" \in Event
    BY DEF Event
  <2>5. (\E e \in Event : Transits(e)) \/ PipeSame
    BY <1>2, <2>3, <2>4, RunFsmSends
  <2>6. CASE PipeSame
    BY <2>2, <2>6 DEF AnnouncedInv, PipeSame
  <2> QED BY <1>1, <2>2, <2>5, <2>6
<1>3. CASE TakeActions
  <2>1. fsm' = fsm /\ Pipe # << >> /\ doing = << >> /\ doing' = Head(Pipe) /\ Pipe' = Tail(Pipe) /\ mode' = mode
    BY <1>3, TakeActionsTakes DEF TakesVector
  <2>2. PICK p, T : p = Pipe /\ T = Announces(fsm.global)
    OBVIOUS
  <2>3. /\ Pending(p, << >>, Announcements, T) => Pending(Tail(p), Head(p), Announcements, T)
        /\ Done(p, << >>, Announcements) => Done(Tail(p), Head(p), Announcements)
    BY <1>0, <2>1, <2>2, TakeKeeps
  <2> QED BY <2>1, <2>2, <2>3, Zenon DEF AnnouncedInv
<1>4. CASE HandleAction
  <2>1. PICK a : Perform(a) /\ ((a \notin Announcements /\ mode' = mode) \/ (mode'.state \in StateGlobal /\ a \in Announces(mode'.state)))
    BY <1>0, <1>4, AnnounceActions
  <2>2. doing # << >> /\ Head(doing) = a /\ doing' = Tail(doing) /\ fsm' = fsm /\ Pipe' = Pipe
    BY <2>1, PerformTakes
  <2>3. PICK p, d, b : p = Pipe /\ d = doing /\ b = fsm.global
    OBVIOUS
  <2>4. /\ Pending(p, d, Announcements, Announces(b))
             => Pending(p, Tail(d), Announcements, Announces(b)) \/ (Done(p, Tail(d), Announcements) /\ Head(d) \in Announcements \cap Announces(b))
        /\ Done(p, d, Announcements) => Done(p, Tail(d), Announcements) /\ Head(d) \notin Announcements
    BY <1>0, <2>2, <2>3, PerformKeeps
  <2>5. a \in Announces(mode'.state) /\ mode'.state \in StateGlobal => a \in Announcements
    BY DEF Announces, Announcements, StateGlobal
  <2>6. b \in StateGlobal
    BY <1>0, <2>3 DEF FsmState
  <2>7. a \in Announces(b) /\ a \in Announcements => mode'.state = b
    BY <2>1, <2>6, AnnouncesDisjoint
  <2> QED BY <2>1, <2>2, <2>3, <2>4, <2>5, <2>7, Zenon DEF AnnouncedInv
<1>5. CASE Crash
  <2>1. Pipe' = << >> /\ doing' = << >> /\ mode' = NewMode /\ fsm' = NewFsmState
    BY <1>5, JoinEmpty DEF Crash, Pipe
  <2>2. Done(<< >>, << >>, Announcements)
    BY NothingPending
  <2>3. NewMode.state = NewFsmState.global
    BY DEF NewMode, NewFsmState
  <2> QED BY <2>1, <2>2, <2>3, Zenon DEF AnnouncedInv
<1>6. CASE ~RunFsm /\ ~TakeActions /\ ~HandleAction /\ ~Crash
  BY <1>6, PipeOthers, AnnounceOthers DEF AnnouncedInv, Pipe
<1> QED BY <1>2, <1>3, <1>4, <1>5, <1>6

\* A balance is announced with the epoch that becomes the session's.
LEMMA EpochAnnounced ==
  ASSUME MaxReadErrors = 0, TypeOK, EpochInv, [Next]_vars
  PROVE  EpochInv'
<1>1. CASE EnterInitBalanceMode
  <2>1. spent.read \in Nat /\ session \in [state : StateOfSession, epoch : Nat, attempts : Nat,
                                           votes : [Hubs -> Nat], empty : SUBSET Hubs]
    BY DEF TypeOK
  <2>2. ~(spent.read < MaxReadErrors)
    BY <2>1
  <2>3. mode' = [state |-> "BalanceMode", epoch |-> dbEpoch + 1]
        /\ session' = [session EXCEPT !.epoch = dbEpoch + 1]
    BY <1>1, <2>2 DEF EnterInitBalanceMode
  <2> QED BY <2>1, <2>3 DEF EpochInv
<1>2. CASE Crash
  BY <1>2 DEF Crash, EpochInv, NewMode
<1>3. CASE ~EnterInitBalanceMode /\ ~Crash
  BY <1>3, EpochSteps DEF EpochInv
<1> QED BY <1>1, <1>2, <1>3

\* As long as the epoch can be read, the mode that is repeated to the hubs and the server is
\* the mode of the machine, and a balance is announced with the epoch of the session, once
\* nothing is on its way (handle_action, edge_state).  A read that fails may leave the old
\* mode: MaxReadErrors = 0 says that none does.
THEOREM ModeAnnouncedCorrect ==
  ASSUME MaxReadErrors = 0
  PROVE  Spec => []ModeAnnounced
<1>1. Init => AnnouncedInv /\ EpochInv
  <2> SUFFICES ASSUME Init PROVE AnnouncedInv /\ EpochInv
    OBVIOUS
  <2>1. Pipe = << >> /\ doing = << >> /\ mode = NewMode /\ fsm = NewFsmState
    BY JoinEmpty DEF Init, Pipe
  <2>2. Done(<< >>, << >>, Announcements)
    BY NothingPending
  <2>3. NewMode.state = NewFsmState.global /\ NewMode.state # "BalanceMode"
    BY DEF NewMode, NewFsmState
  <2> QED BY <2>1, <2>2, <2>3, Zenon DEF AnnouncedInv, EpochInv
<1>2. PipeInv /\ AnnouncedInv /\ EpochInv /\ [Next]_vars => AnnouncedInv' /\ EpochInv'
  BY AnnounceStep, EpochAnnounced DEF PipeInv
<1>3. AnnouncedInv /\ EpochInv => ModeAnnounced
  <2> SUFFICES ASSUME AnnouncedInv, EpochInv, Quiet
               PROVE  mode.state = fsm.global /\ (fsm.global = "BalanceMode" => mode.epoch = session.epoch)
    BY DEF ModeAnnounced
  <2>1. Pipe = << >> /\ doing = << >>
    BY JoinEmpty DEF Quiet, Pipe
  <2>2. ~Pending(<< >>, << >>, Announcements, Announces(fsm.global))
    BY NothingPending
  <2> QED BY <2>1, <2>2, Zenon DEF AnnouncedInv, EpochInv
<1> QED BY <1>1, <1>2, <1>3, PipeAlways, PTL DEF Spec

-----------------------------------------------------------------------------
(* The epoch that is broadcast *)

\* The entries that take a new epoch, open a balance with it, and broadcast it again.
TakesEpoch == OnEntry("OnEntryBalance", "InitBalanceMode")
OpensWith  == OnEntry("OnEntryBalance", "InHandshake")
EpochUses  == {TakesEpoch, OpensWith, OnEntry("OnEntryBalance", "OutHandshake")}
              \cup { OnEntry("OnEntryQuorum", q) : q \in Repeats }

\* Once the vectors p and what is left of d are performed, the session has an epoch that no
\* handshake was broadcast with.
NewEpoch    == session.epoch \notin shouted
Ready(p, d) == Pending(p, d, EpochUses, {TakesEpoch}) \/ (Done(p, d, EpochUses) /\ NewEpoch)

\* So it is for what comes before each entry that opens a balance, and before the one that the
\* machine is about to send: it comes from the state whose entry takes the epoch.
FreshInv ==
  /\ fsm.balance = "InitBalanceMode" => Ready(Pipe, doing)
  /\ \A i \in DOMAIN Pipe : ~NoneIn(Pipe[i], {OpensWith}) =>
       Pipe[i] = << OpensWith >> /\ Ready(SubSeq(Pipe, 1, i - 1), doing)
  /\ ~NoneIn(doing, {OpensWith}) => doing = << OpensWith >> /\ NewEpoch

\* The vectors of the transitions that take the epoch or open the balance.
LEMMA StepOpens ==
  ASSUME NEW s \in FsmState, Hierarchical(s), NEW e \in Event, NEW t \in Step(s, e)
  PROVE  /\ t.to.balance = "InitBalanceMode" => t.acts = << TakesEpoch >>
         /\ ~NoneIn(t.acts, {OpensWith}) => t.acts = << OpensWith >> /\ s.balance = "InitBalanceMode"
<1> DEFINE u == t.to
           v == t.acts
           W == {OpensWith}
           Good == /\ u.balance = "InitBalanceMode" => v = << TakesEpoch >>
                   /\ ~NoneIn(v, W) => v = << OpensWith >> /\ s.balance = "InitBalanceMode"
<1>1. Stays(s, e, u, v) \/ Moves(s, e, u, v)
  BY TransitionIs
<1>2. /\ \A a \in Action : a \notin W => NoneIn(<< a >>, W)
      /\ \A a, b \in Action : a \notin W /\ b \notin W => NoneIn(<< a, b >>, W)
      /\ \A a, b, c \in Action : a \notin W /\ b \notin W /\ c \notin W => NoneIn(<< a, b, c >>, W)
      /\ NoneIn(<< >>, W)
  BY LastOfList, LastOfEmpty
<1>3. /\ \A a \in {"StopSendHeartbeatMessagePhase", "StopTimer", "CalculateQuorum", "OnEntryDisconnected", "OnEntryNormal",
                   "OnEntrySafeMode", "StopSendHeartbeatMessageSafeMode", "StopSendHeartbeatMessageNormal"} : Do(a) \in Action
      /\ \A b \in SubStateBalanceMode : OnEntry("OnEntryBalance", b) \in Action
      /\ \A q \in SubStateQuorum : OnEntry("OnEntryQuorum", q) \in Action
      /\ \A p \in SubStatePhase : OnEntry("OnEntryPhase", p) \in Action
  BY ActionTypes
<1>4. /\ \A a \in {"StopSendHeartbeatMessagePhase", "StopTimer", "CalculateQuorum", "OnEntryDisconnected", "OnEntryNormal",
                   "OnEntrySafeMode", "StopSendHeartbeatMessageSafeMode", "StopSendHeartbeatMessageNormal"} : Do(a) \notin W
      /\ \A b \in {"InitBalanceMode", "OutHandshake", "Quorum", "Phase"} : OnEntry("OnEntryBalance", b) \notin W
      /\ \A q : OnEntry("OnEntryQuorum", q) \notin W
      /\ \A p : OnEntry("OnEntryPhase", p) \notin W
  BY DEF OpensWith, Do, OnEntry
<1>5. /\ \A g : Global(g).balance # "InitBalanceMode"
      /\ \A q : Quorum(q).balance # "InitBalanceMode"
      /\ \A p : Phase(p).balance # "InitBalanceMode"
      /\ \A b : Balance(b).balance = b
  BY DEF Global, Quorum, Phase, Balance, None
<1> HIDE DEF u, v, W
<1>6. Stays(s, e, u, v) => Good
  <2> SUFFICES ASSUME Stays(s, e, u, v) PROVE Good
    OBVIOUS
  <2>1. v = << >> \/ v = << Do("CalculateQuorum") >>
    BY DEF Stays
  <2>2. NoneIn(v, W)
    BY <2>1, <1>2, <1>3, <1>4
  <2>3. u.balance # "InitBalanceMode"
    BY <1>5 DEF Stays, Handshakes
  <2> QED BY <2>2, <2>3
<1>7. ToInit(s, e, u, v) => Good
  <2> SUFFICES ASSUME ToInit(s, e, u, v) PROVE Good
    OBVIOUS
  <2>1. v = << TakesEpoch >>
    BY DEF ToInit, TakesEpoch
  <2>2. NoneIn(<< TakesEpoch >>, W)
    BY <1>2, <1>3, <1>4 DEF TakesEpoch, SubStateBalanceMode
  <2> QED BY <2>1, <2>2, Zenon
<1>8. ToInHandshake(s, e, u, v) => Good
  BY <1>5, Zenon DEF ToInHandshake, OpensWith
<1>9. ToSafeMode(s, e, u, v) => Good
  <2> SUFFICES ASSUME ToSafeMode(s, e, u, v) PROVE Good
    OBVIOUS
  <2>1. v = << Do("OnEntrySafeMode") >> /\ u.balance # "InitBalanceMode"
    BY <1>5 DEF ToSafeMode
  <2> QED BY <2>1, <1>2, <1>3, <1>4
<1>10. ToCheck(s, e, u, v) => Good
  <2> SUFFICES ASSUME ToCheck(s, e, u, v) PROVE Good
    OBVIOUS
  <2>1. \E q \in Checks : /\ u.balance # "InitBalanceMode"
                          /\ \/ v = << OnEntry("OnEntryQuorum", q) >>
                             \/ v = << OnEntry("OnEntryBalance", "Quorum"), OnEntry("OnEntryQuorum", q) >>
    BY <1>5 DEF ToCheck
  <2> QED BY <2>1, <1>2, <1>3, <1>4 DEF SubStateBalanceMode, SubStateQuorum, Checks
<1>11. ToRepeat(s, e, u, v) => Good
  <2> SUFFICES ASSUME ToRepeat(s, e, u, v) PROVE Good
    OBVIOUS
  <2>1. \E q \in Repeats : u.balance # "InitBalanceMode" /\ v = << OnEntry("OnEntryQuorum", q) >>
    BY <1>5 DEF ToRepeat
  <2> QED BY <2>1, <1>2, <1>3, <1>4 DEF SubStateQuorum, Repeats
<1>12. ToAlert(s, e, u, v) => Good
  <2> SUFFICES ASSUME ToAlert(s, e, u, v) PROVE Good
    OBVIOUS
  <2>1. /\ u.balance # "InitBalanceMode"
        /\ v = << Do("StopTimer"), OnEntry("OnEntryBalance", "Phase"), OnEntry("OnEntryPhase", "Alert") >>
    BY <1>5 DEF ToAlert
  <2> QED BY <2>1, <1>2, <1>3, <1>4 DEF SubStateBalanceMode, SubStatePhase
<1>13. ToNextPhase(s, e, u, v) => Good
  <2> SUFFICES ASSUME ToNextPhase(s, e, u, v) PROVE Good
    OBVIOUS
  <2>1. \E p \in {"Data", "Monitor"} : u.balance # "InitBalanceMode" /\ v = << Do("StopTimer"), OnEntry("OnEntryPhase", p) >>
    BY <1>5 DEF ToNextPhase
  <2> QED BY <2>1, <1>2, <1>3, <1>4 DEF SubStatePhase
<1>14. ToOutHandshake(s, e, u, v) => Good
  <2> SUFFICES ASSUME ToOutHandshake(s, e, u, v) PROVE Good
    OBVIOUS
  <2>1. /\ u.balance # "InitBalanceMode"
        /\ v = << Do("StopSendHeartbeatMessagePhase"), Do("StopTimer"), OnEntry("OnEntryBalance", "OutHandshake") >>
    BY <1>5 DEF ToOutHandshake
  <2> QED BY <2>1, <1>2, <1>3, <1>4 DEF SubStateBalanceMode
<1>15. ToNormal(s, e, u, v) => Good
  <2> SUFFICES ASSUME ToNormal(s, e, u, v) PROVE Good
    OBVIOUS
  <2>1. /\ u.balance # "InitBalanceMode"
        /\ \/ v = << Do("StopTimer"), Do("OnEntryNormal") >>
           \/ v = << Do("StopSendHeartbeatMessageSafeMode"), Do("OnEntryNormal") >>
    BY <1>5 DEF ToNormal
  <2> QED BY <2>1, <1>2, <1>3, <1>4
<1>16. ToDisconnected(s, e, u, v) => Good
  <2> SUFFICES ASSUME ToDisconnected(s, e, u, v) PROVE Good
    OBVIOUS
  <2>1. /\ u.balance # "InitBalanceMode"
        /\ \/ v = << Do("StopSendHeartbeatMessagePhase"), Do("StopTimer"), Do("OnEntryDisconnected") >>
           \/ v = << Do("StopSendHeartbeatMessageSafeMode"), Do("OnEntryDisconnected") >>
           \/ v = << Do("StopSendHeartbeatMessageNormal"), Do("OnEntryDisconnected") >>
    BY <1>5 DEF ToDisconnected
  <2> QED BY <2>1, <1>2, <1>3, <1>4
<1>17. Good
  BY <1>1, <1>6, <1>7, <1>8, <1>9, <1>10, <1>11, <1>12, <1>13, <1>14, <1>15, <1>16 DEF Moves
<1> QED BY <1>17 DEF u, v, W

\* Only the entries in EpochUses have to do with whether the session's epoch is a new one.
LEMMA EpochKept ==
  ASSUME TypeOK, [Next]_vars, ~EnterInitBalanceMode, ~EnterHandshake, ~EnterRepeatHandshake, ~Crash
  PROVE  session'.epoch = session.epoch /\ shouted' = shouted /\ spent'.read = spent.read
<1>1. spent \in [hub : Nat, link : Nat, read : Nat, crash : Nat]
  BY DEF TypeOK
<1>2. session'.epoch = session.epoch
  BY EpochSteps
<1>3. CASE RunFsm \/ TakeActions \/ Timer \/ TimerExpire \/ HandlerSend
  BY <1>2, <1>3 DEF RunFsm, FsmStart, FsmTurn, FsmUnblocked, TakeActions, Timer, TimerReceive, TimerFire, TimerExpire,
                    HandlerSend, handlerVars, envVars
<1>4. CASE HandleHandshake \/ HandleQueue \/ HandleQueueSafe \/ HandleConnection
  BY <1>2, <1>4 DEF HandleHandshake, HandleQueue, HandleQueueSafe, HandleConnection, TakeCommand, envVars
<1>5. CASE HandleAction
  <2>1. EnterCheckQuorum => shouted' = shouted /\ spent' = spent
    BY DEF EnterCheckQuorum
  <2>2. EnterPhase => shouted' = shouted /\ spent' = spent
    BY DEF EnterPhase
  <2>3. EnterNormal \/ EnterSafeMode \/ EnterDisconnected => shouted' = shouted /\ spent' = spent
    BY DEF EnterNormal, EnterSafeMode, EnterDisconnected
  <2>4. CalculateQuorum \/ StopTimer \/ StopHeartbeats \/ SkipAction => shouted' = shouted /\ spent' = spent
    BY DEF CalculateQuorum, StopTimer, StopHeartbeats, SkipAction
  <2> QED BY <1>2, <1>5, <2>1, <2>2, <2>3, <2>4 DEF HandleAction
<1>6. CASE HubMessage \/ LinkEvent \/ TopologyChange
  <2>1. shouted' = shouted
    BY <1>6 DEF HubMessage, LinkEvent, TopologyChange, Deliver, handlerVars
  <2>2. spent'.read = spent.read
    BY <1>1, <1>6 DEF HubMessage, LinkEvent, TopologyChange
  <2> QED BY <1>2, <2>1, <2>2
<1>7. CASE UNCHANGED vars
  BY <1>2, <1>7 DEF vars
<1> QED BY <1>3, <1>4, <1>5, <1>6, <1>7 DEF Next, Handler, Environment

\* What the performance of an action does to them.
LEMMA EpochActions ==
  ASSUME SaveMayFail = FALSE, TypeOK, EpochRecorded, HandleAction, spent'.read = 0
  PROVE  /\ Head(doing) = TakesEpoch => NewEpoch'
         /\ Head(doing) \notin EpochUses => (NewEpoch => NewEpoch')
         /\ spent.read = 0
<1>1. HandleAction => [Next]_vars
  BY DEF Next, Handler
<1>2. spent \in [hub : Nat, link : Nat, read : Nat, crash : Nat] /\ dbEpoch \in Nat /\ shouted \subseteq Nat
  BY DEF TypeOK
<1>3. \A a : Perform(a) => Head(doing) = a
  BY DEF Perform
<1>4. spent' = spent \/ spent' = [spent EXCEPT !.read = @ + 1]
  <2>1. EnterInitBalanceMode => spent' = spent \/ spent' = [spent EXCEPT !.read = @ + 1]
    BY DEF EnterInitBalanceMode
  <2>2. EnterHandshake \/ EnterCheckQuorum => spent' = spent
    BY DEF EnterHandshake, EnterCheckQuorum
  <2>3. EnterRepeatHandshake => spent' = spent
    BY DEF EnterRepeatHandshake, RepeatHandshake
  <2>4. EnterPhase => spent' = spent
    BY DEF EnterPhase
  <2>5. EnterNormal \/ EnterSafeMode \/ EnterDisconnected => spent' = spent
    BY DEF EnterNormal, EnterSafeMode, EnterDisconnected
  <2>6. CalculateQuorum \/ StopTimer \/ StopHeartbeats \/ SkipAction => spent' = spent
    BY DEF CalculateQuorum, StopTimer, StopHeartbeats, SkipAction
  <2> QED BY <2>1, <2>2, <2>3, <2>4, <2>5, <2>6 DEF HandleAction
<1>5. spent.read = 0 /\ spent' = spent
  BY <1>2, <1>4
<1>6. ~Crash
  BY <1>2, <1>5 DEF Crash
<1>7. CASE EnterInitBalanceMode
  <2>1. Head(doing) = TakesEpoch
    BY <1>3, <1>7 DEF EnterInitBalanceMode, TakesEpoch
  <2>2. session' = [session EXCEPT !.epoch = dbEpoch + 1] /\ shouted' = shouted
    <3>1. spent' # [spent EXCEPT !.read = @ + 1]
      BY <1>2, <1>5
    <3> QED BY <1>7, <3>1 DEF EnterInitBalanceMode
  <2>3. session'.epoch = dbEpoch + 1
    BY <2>2 DEF TypeOK
  <2>4. dbEpoch + 1 \notin shouted
    BY <1>2 DEF EpochRecorded
  <2>5. NewEpoch'
    BY <2>2, <2>3, <2>4 DEF NewEpoch
  <2> QED BY <1>5, <2>1, <2>5 DEF EpochUses
<1>8. CASE EnterHandshake
  <2>1. Head(doing) \in {OnEntry("OnEntryBalance", "InHandshake"), OnEntry("OnEntryBalance", "OutHandshake")}
    BY <1>3, <1>8 DEF EnterHandshake
  <2> QED BY <1>5, <2>1 DEF EpochUses, OpensWith, TakesEpoch, OnEntry
<1>9. CASE EnterRepeatHandshake
  <2>1. \E q \in Repeats : Head(doing) = OnEntry("OnEntryQuorum", q)
    BY <1>3, <1>9 DEF EnterRepeatHandshake, RepeatHandshake, Repeats
  <2> QED BY <1>5, <2>1 DEF EpochUses, OpensWith, TakesEpoch, OnEntry
<1>10. CASE ~EnterInitBalanceMode /\ ~EnterHandshake /\ ~EnterRepeatHandshake
  <2>1. NewEpoch' = NewEpoch
    BY <1>1, <1>6, <1>10, EpochKept DEF NewEpoch
  <2>2. Head(doing) # TakesEpoch
    <3>1. \A b : b # "InitBalanceMode" => OnEntry("OnEntryBalance", b) # TakesEpoch
      BY DEF TakesEpoch, OnEntry
    <3>2. (\A q : OnEntry("OnEntryQuorum", q) # TakesEpoch) /\ (\A p : OnEntry("OnEntryPhase", p) # TakesEpoch)
      BY DEF TakesEpoch, OnEntry
    <3>3. \A a \in {"OnEntryNormal", "OnEntrySafeMode", "OnEntryDisconnected", "CalculateQuorum", "StopTimer",
                    "StopSendHeartbeatMessagePhase", "StopSendHeartbeatMessageSafeMode",
                    "StopSendHeartbeatMessageNormal"} : Do(a) # TakesEpoch
      BY DEF TakesEpoch, OnEntry, Do
    <3>4. EnterCheckQuorum => Head(doing) # TakesEpoch
      BY <1>3, <3>2 DEF EnterCheckQuorum
    <3>5. EnterPhase => Head(doing) # TakesEpoch
      BY <1>3, <3>2 DEF EnterPhase
    <3>6. EnterNormal \/ EnterSafeMode \/ EnterDisconnected => Head(doing) # TakesEpoch
      BY <1>3, <3>3 DEF EnterNormal, EnterSafeMode, EnterDisconnected
    <3>7. CalculateQuorum \/ StopTimer \/ StopHeartbeats => Head(doing) # TakesEpoch
      BY <1>3, <3>3 DEF CalculateQuorum, StopTimer, StopHeartbeats
    <3>8. SkipAction => Head(doing) # TakesEpoch
      BY <1>3, <3>1 DEF SkipAction
    <3> QED BY <1>10, <3>4, <3>5, <3>6, <3>7, <3>8 DEF HandleAction
  <2> QED BY <1>5, <2>1, <2>2
<1> QED BY <1>7, <1>8, <1>9, <1>10

LEMMA FreshStep ==
  ASSUME SaveMayFail = FALSE, PipeInv, EpochRecorded, spent.read = 0 => FreshInv, [Next]_vars
  PROVE  (spent.read = 0 => FreshInv)'
<1> SUFFICES ASSUME spent'.read = 0 PROVE FreshInv'
  OBVIOUS
<1>0. Pipe \in Seq(Seq(Action)) /\ doing \in Seq(Action) /\ fsm \in FsmState /\ Hierarchical(fsm) /\ events \in Seq(Event) /\ TypeOK
  BY PipeTyped DEF PipeInv, TypeOK
<1>n. NoneIn(<< >>, {OpensWith})
  BY LastOfEmpty
<1>k. TakesEpoch \in EpochUses /\ TakesEpoch \in Action /\ OpensWith \in EpochUses
  BY ActionTypes DEF EpochUses, TakesEpoch, OpensWith, SubStateBalanceMode
<1>1. ASSUME NEW e \in Event, Transits(e), UNCHANGED << session, shouted, spent >>
      PROVE  FreshInv'
  <2>0. FreshInv /\ NewEpoch' = NewEpoch
    BY <1>1 DEF NewEpoch
  <2>1. PICK t \in Step(fsm, e) : fsm' = t.to /\ Pipe' = Append(Pipe, t.acts) /\ doing' = doing
    BY <1>1 DEF Transits
  <2>2. PICK v \in Seq(Action) : v = t.acts
    BY <1>0, StepWellformed DEF Wellformed
  <2>3. /\ fsm'.balance = "InitBalanceMode" => v = << TakesEpoch >>
        /\ ~NoneIn(v, {OpensWith}) => v = << OpensWith >> /\ fsm.balance = "InitBalanceMode"
    BY <1>0, <2>1, <2>2, StepOpens
  <2>4. PICK p, d, r : p = Pipe /\ d = doing /\ r = Append(Pipe, v)
    OBVIOUS
  <2>5. Pipe' = r /\ doing' = d
    BY <2>1, <2>2, <2>4, Zenon
  <2>6. /\ DOMAIN r = DOMAIN p \cup {Len(p) + 1} /\ r[Len(p) + 1] = v /\ \A i \in DOMAIN p : r[i] = p[i]
        /\ \A i \in DOMAIN p : SubSeq(r, 1, i - 1) = SubSeq(p, 1, i - 1)
        /\ SubSeq(r, 1, Len(p)) = p
    <3> DEFINE V == Seq(Action)
    <3>1. p \in Seq(V) /\ v \in V
      BY <1>0, <2>4
    <3> HIDE DEF V
    <3>2. r = Append(p, v)
      BY <2>4
    <3> QED BY <3>1, <3>2, AppendElements, PrefixOfAppend
  <2>7. \A q, f : Ready(q, f)' = Ready(q, f)
    BY <2>0 DEF Ready
  <2>8. fsm'.balance = "InitBalanceMode" => Ready(r, d)
    <3> SUFFICES ASSUME v = << TakesEpoch >> PROVE Ready(r, d)
      BY <2>3
    <3>1. LastIn(v, EpochUses, {TakesEpoch})
      BY <1>k, LastOfList
    <3>2. Pending(r, d, EpochUses, {TakesEpoch})
      BY <1>0, <2>4, <3>1, SendKeeps
    <3> QED BY <3>2 DEF Ready
  <2>9. ASSUME NEW i \in DOMAIN r, ~NoneIn(r[i], {OpensWith})
        PROVE  r[i] = << OpensWith >> /\ Ready(SubSeq(r, 1, i - 1), d)
    <3>1. CASE i \in DOMAIN p
      BY <2>0, <2>4, <2>6, <2>9, <3>1 DEF FreshInv
    <3>2. CASE i = Len(p) + 1
      <4>1. i - 1 = Len(p)
        BY <1>0, <2>4, <3>2
      <4>2. v = << OpensWith >> /\ fsm.balance = "InitBalanceMode"
        BY <2>3, <2>6, <2>9, <3>2
      <4>3. Ready(p, d)
        BY <2>0, <2>4, <4>2 DEF FreshInv
      <4> QED BY <2>6, <3>2, <4>1, <4>2, <4>3
    <3> QED BY <2>6, <3>1, <3>2
  <2>10. ~NoneIn(d, {OpensWith}) => d = << OpensWith >> /\ NewEpoch
    BY <2>0, <2>4 DEF FreshInv
  <2> QED BY <2>0, <2>5, <2>7, <2>8, <2>9, <2>10 DEF FreshInv
<1>2. ASSUME fsm' = fsm, Pipe' = Pipe, doing' = doing, NewEpoch' = NewEpoch, FreshInv
      PROVE  FreshInv'
  BY <1>2 DEF FreshInv, Ready
<1>3. CASE RunFsm
  <2>1. UNCHANGED << session, shouted, spent >>
    BY <1>3 DEF RunFsm, FsmStart, FsmTurn, FsmUnblocked, handlerVars, envVars
  <2>2. events # << >> => Head(events) \in Event
    BY <1>0, ChannelTypes
  <2>3. (\E e \in Event : Transits(e)) \/ PipeSame
    BY <1>3, <2>2, RunFsmSends DEF Event
  <2>4. NewEpoch' = NewEpoch
    BY <2>1 DEF NewEpoch
  <2> QED BY <1>1, <1>2, <2>1, <2>3, <2>4 DEF PipeSame
<1>4. CASE TakeActions
  <2>1. /\ Pipe # << >> /\ doing = << >> /\ doing' = Head(Pipe) /\ Pipe' = Tail(Pipe) /\ fsm' = fsm
        /\ UNCHANGED << session, shouted, spent >>
    BY <1>4, TakeActionsTakes DEF TakesVector, envVars
  <2>2. FreshInv /\ NewEpoch' = NewEpoch
    BY <2>1 DEF NewEpoch
  <2>3. PICK p : p = Pipe
    OBVIOUS
  <2>4. ASSUME NEW q \in Seq(Seq(Action)), q # << >>, Ready(q, << >>)
        PROVE  Ready(Tail(q), Head(q))
    BY <2>4, TakeKeeps DEF Ready
  <2>5. /\ Head(p) = p[1] /\ 1 \in DOMAIN p /\ SubSeq(p, 1, 1 - 1) = << >>
        /\ \A i \in DOMAIN Tail(p) : /\ i + 1 \in DOMAIN p /\ Tail(p)[i] = p[i + 1] /\ (i + 1) - 1 = i
                                     /\ SubSeq(p, 1, i) \in Seq(Seq(Action)) /\ SubSeq(p, 1, i) # << >>
                                     /\ Head(SubSeq(p, 1, i)) = Head(p)
                                     /\ Tail(SubSeq(p, 1, i)) = SubSeq(Tail(p), 1, i - 1)
    <3> DEFINE V == Seq(Action)
    <3>1. p \in Seq(V) /\ p # << >>
      BY <1>0, <2>1, <2>3
    <3> HIDE DEF V
    <3>2. SubSeq(p, 1, 0) = << >> /\ 1 - 1 = 0
      BY <3>1
    <3>3. /\ Head(p) = p[1] /\ 1 \in DOMAIN p
          /\ \A i \in DOMAIN Tail(p) : i \in Nat /\ i + 1 \in DOMAIN p /\ Tail(p)[i] = p[i + 1]
      BY <3>1, TailElements
    <3>4. \A i \in DOMAIN Tail(p) : /\ SubSeq(p, 1, i) \in Seq(V) /\ SubSeq(p, 1, i) # << >>
                                    /\ Head(SubSeq(p, 1, i)) = Head(p)
                                    /\ Tail(SubSeq(p, 1, i)) = SubSeq(Tail(p), 1, i - 1)
      BY <3>1, PrefixOfTail
    <3>5. \A i \in Nat : (i + 1) - 1 = i
      OBVIOUS
    <3> QED BY <3>2, <3>3, <3>4, <3>5 DEF V
  <2>6. \A q, f : Ready(q, f)' = Ready(q, f)
    BY <2>2 DEF Ready
  <2>7. fsm.balance = "InitBalanceMode" => Ready(Tail(p), Head(p))
    BY <1>0, <2>1, <2>2, <2>3, <2>4 DEF FreshInv
  <2>8. ASSUME NEW i \in DOMAIN Tail(p), ~NoneIn(Tail(p)[i], {OpensWith})
        PROVE  Tail(p)[i] = << OpensWith >> /\ Ready(SubSeq(Tail(p), 1, i - 1), Head(p))
    <3>1. p[i + 1] = << OpensWith >> /\ Ready(SubSeq(p, 1, (i + 1) - 1), << >>)
      BY <2>1, <2>2, <2>3, <2>5, <2>8 DEF FreshInv
    <3>2. Ready(SubSeq(p, 1, i), << >>)
      BY <2>5, <3>1
    <3>3. Ready(Tail(SubSeq(p, 1, i)), Head(SubSeq(p, 1, i)))
      BY <2>4, <2>5, <3>2
    <3> QED BY <2>5, <3>1, <3>3
  <2>9. ASSUME ~NoneIn(Head(p), {OpensWith})
        PROVE  Head(p) = << OpensWith >> /\ NewEpoch
    <3>1. p[1] = << OpensWith >> /\ Ready(SubSeq(p, 1, 1 - 1), << >>)
      BY <2>1, <2>2, <2>3, <2>5, <2>9 DEF FreshInv
    <3>2. Ready(<< >>, << >>)
      BY <2>5, <3>1
    <3>3. NewEpoch
      BY <3>2, NothingPending DEF Ready
    <3> QED BY <2>5, <3>1, <3>3
  <2>10. Pipe' = Tail(p) /\ doing' = Head(p)
    BY <2>1, <2>3
  <2> QED BY <2>1, <2>2, <2>6, <2>7, <2>8, <2>9, <2>10 DEF FreshInv
<1>5. CASE HandleAction
  <2>1. PICK a : Perform(a)
    BY <1>5, HandleActionPerforms
  <2>2. doing # << >> /\ doing' = Tail(doing) /\ fsm' = fsm /\ Pipe' = Pipe
    BY <2>1, PerformTakes
  <2>3. /\ Head(doing) = TakesEpoch => NewEpoch'
        /\ Head(doing) \notin EpochUses => (NewEpoch => NewEpoch')
        /\ FreshInv
    BY <1>0, <1>5, EpochActions
  <2>4. PICK d \in Seq(Action) : d = doing
    BY <1>0
  <2>5. ASSUME NEW q, Ready(q, d)
        PROVE  Ready(q, Tail(d))'
    <3>1. \/ Pending(q, Tail(d), EpochUses, {TakesEpoch})
          \/ Done(q, Tail(d), EpochUses) /\ Head(d) = TakesEpoch
          \/ Done(q, Tail(d), EpochUses) /\ Head(d) \notin EpochUses /\ NewEpoch
      BY <2>2, <2>4, <2>5, PerformKeeps DEF Ready
    <3>2. Pending(q, Tail(d), EpochUses, {TakesEpoch}) \/ (Done(q, Tail(d), EpochUses) /\ NewEpoch')
      BY <2>3, <2>4, <3>1
    <3>3. Tail(d)' = Tail(d)
      OBVIOUS
    <3> QED BY <3>2 DEF Ready
  <2>6. NoneIn(Tail(d), {OpensWith})
    <3>1. CASE NoneIn(d, {OpensWith})
      BY <2>2, <2>4, <3>1, LastOfTail
    <3>2. CASE d = << OpensWith >>
      <4>1. Tail(d) = << >>
        BY <3>2
      <4> QED BY <4>1, <1>n
    <3> QED BY <2>3, <2>4, <3>1, <3>2 DEF FreshInv
  <2>7. doing' = Tail(d)
    BY <2>2, <2>4
  <2>8. fsm'.balance = "InitBalanceMode" => Ready(Pipe, doing)'
    BY <2>2, <2>3, <2>4, <2>5, <2>7 DEF FreshInv, Ready
  <2> QED BY <2>2, <2>3, <2>4, <2>5, <2>6, <2>7, <2>8 DEF FreshInv, Ready
<1>6. CASE Crash
  <2>1. Pipe' = << >> /\ doing' = << >> /\ fsm'.balance # "InitBalanceMode"
    BY <1>6, JoinEmpty DEF Crash, Pipe, NewFsmState, None
  <2>2. DOMAIN << >> = {}
    OBVIOUS
  <2> QED BY <1>n, <2>1, <2>2 DEF FreshInv
<1>7. CASE ~RunFsm /\ ~TakeActions /\ ~HandleAction /\ ~Crash
  <2>1. ~EnterInitBalanceMode /\ ~EnterHandshake /\ ~EnterRepeatHandshake
    BY <1>7 DEF HandleAction
  <2>2. session'.epoch = session.epoch /\ shouted' = shouted /\ spent'.read = spent.read
    BY <1>0, <1>7, <2>1, EpochKept
  <2>3. fsm' = fsm /\ Pipe' = Pipe /\ doing' = doing
    BY <1>7, PipeOthers DEF Pipe
  <2> QED BY <1>2, <2>2, <2>3 DEF NewEpoch
<1> QED BY <1>3, <1>4, <1>5, <1>6, <1>7

\* When every INSERT of the epoch works, and until a read of it fails, the handshake that opens
\* a balance goes out with an epoch that no handshake was broadcast with before: also when the
\* BalanceEpochOk that opens it is left from a balance that a disconnection cut, whose epoch
\* may have been broadcast, and after a restart (handle_action, OnEntryBalance).
THEOREM FreshEpochs ==
  ASSUME SaveMayFail = FALSE
  PROVE  Spec => []FreshEpoch
<1> DEFINE Inv == spent.read = 0 => FreshInv
<1>1. Init => Inv
  <2> SUFFICES ASSUME Init PROVE FreshInv
    OBVIOUS
  <2>1. Pipe = << >> /\ doing = << >> /\ fsm.balance # "InitBalanceMode"
    BY JoinEmpty DEF Init, Pipe, NewFsmState, None
  <2>2. DOMAIN << >> = {} /\ NoneIn(<< >>, {OpensWith})
    BY LastOfEmpty
  <2> QED BY <2>1, <2>2 DEF FreshInv
<1>2. PipeInv /\ EpochRecorded /\ Inv /\ [Next]_vars => Inv'
  BY FreshStep
<1>3. PipeInv /\ Inv => FreshEpoch
  <2> SUFFICES ASSUME PipeInv, FreshInv, doing # << >>, Head(doing) = OpensWith PROVE NewEpoch
    BY DEF FreshEpoch, NewEpoch, OpensWith
  <2>1. doing \in Seq(Action) /\ Head(doing) = doing[1] /\ 1 \in DOMAIN doing
    BY TailElements DEF PipeInv, TypeOK
  <2>2. ~NoneIn(doing, {OpensWith})
    BY <2>1 DEF NoneIn
  <2> QED BY <2>2 DEF FreshInv
<1> QED BY <1>1, <1>2, <1>3, PipeAlways, EpochsRecorded, PTL DEF Spec

-----------------------------------------------------------------------------
(* The session and the watchdog *)

\* Every action but the count of the votes; those that enter the sub-state of s.
Moving      == Action \ {Do("CalculateQuorum")}
Entering(s) ==
  { a \in Action :
      \/ s.balance \in {"InitBalanceMode", "InHandshake", "OutHandshake"} /\ a = OnEntry("OnEntryBalance", s.balance)
      \/ s.quorum # None /\ a = OnEntry("OnEntryQuorum", s.quorum)
      \/ s.phase # None /\ a = OnEntry("OnEntryPhase", s.phase)
      \/ s.global = "Normal" /\ a = Do("OnEntryNormal")
      \/ s.global = "SafeMode" /\ a = Do("OnEntrySafeMode")
      \/ s.global = "Disconnected" /\ a = Do("OnEntryDisconnected") }

\* The state of the session that belongs to s.
InSession(s, state) ==
  /\ s.global = "SafeMode" => state = "SafeMode"
  /\ s.balance \in Handshakes => state = s.balance
  /\ s.quorum \in Checks => state = "Quorum"
  /\ s.quorum \in Repeats => state = "RepeatHandshake"
  /\ s.phase = "Alert" => state = "PhaseAlert"
  /\ s.phase = "Data" => state = "PhaseData"
  /\ s.phase = "Monitor" => state = "PhaseMonitor"

\* Whether s is left by an answer of the handler, or by time; the events that leave it.
Asked(s)   == s.balance = "InitBalanceMode" \/ s.quorum \in Checks
Waits(s)   == s.global = "SafeMode" \/ s.balance \in Handshakes \cup {"Phase"} \/ s.quorum \in Repeats
Answers(s) == { e \in {"BalanceEpochOk", "BalanceEpochNotOk"} : s.balance = "InitBalanceMode" }
              \cup { e \in {"ApproveQuorum", "NotApproveQuorum", "NotApproveNotAttempts"} : s.quorum \in Checks }
Leaving(s) == {"Timeout"} \cup { e \in {"QuorumPhase"} : s.balance = "Phase" }
              \cup { e \in {"QuorumSafeMode"} : s.global = "SafeMode" }

\* An event of E is in the channel of run_fsm, or the handler is about to put it there.
OnItsWay(E) == ~NoneIn(events, E) \/ (outbox # << >> /\ Head(outbox) \in { ToFsm(e) : e \in E })

\* The watchdog runs, or its last command will start it.
Silent  == \A i \in DOMAIN outbox : outbox[i].to = "fsm"
Running == \/ outbox = << ToTimer("InitTimer") >>
           \/ /\ Silent
              /\ IF timerCmds # << >> THEN Newest(timerCmds) = "InitTimer"
                                      ELSE Sleeping(timer) \/ timer = "firing"

Settled == /\ InSession(fsm, session.state)
           /\ Asked(fsm) => OnItsWay(Answers(fsm))
           /\ Waits(fsm) => OnItsWay(Leaving(fsm)) \/ Running

\* The last action of the vectors that is not a count enters the state of the machine, and
\* once it is performed the session and the watchdog are what that state needs.
EnteredInv == \/ fsm.global = "Start"
              \/ Pending(Pipe, doing, Moving, Entering(fsm))
              \/ Done(Pipe, doing, Moving) /\ Settled

\* Something of E stays in a list that grows, and in one that loses something else.
LEMMA SomeIn ==
  ASSUME NEW S, NEW q \in Seq(S), NEW x \in S, NEW E
  PROVE  /\ ~NoneIn(q, E) \/ x \in E => ~NoneIn(Append(q, x), E)
         /\ q # << >> /\ Head(q) \notin E /\ ~NoneIn(q, E) => ~NoneIn(Tail(q), E)
<1>1. ~NoneIn(q, E) \/ x \in E => ~NoneIn(Append(q, x), E)
  BY AppendElements DEF NoneIn
<1>2. q # << >> /\ Head(q) \notin E /\ ~NoneIn(q, E) => ~NoneIn(Tail(q), E)
  <2> SUFFICES ASSUME q # << >>, Head(q) \notin E, ~NoneIn(q, E) PROVE ~NoneIn(Tail(q), E)
    OBVIOUS
  <2>1. PICK i \in DOMAIN q : q[i] \in E
    BY DEF NoneIn
  <2>2. Head(q) = q[1] /\ (i = 1 \/ (i - 1 \in DOMAIN Tail(q) /\ q[i] = Tail(q)[i - 1]))
    BY TailElements
  <2>3. i - 1 \in DOMAIN Tail(q) /\ Tail(q)[i - 1] \in E
    BY <2>1, <2>2
  <2> QED BY <2>3 DEF NoneIn
<1> QED BY <1>1, <1>2

\* The vector of a transition ends in the entry of the new state, or is a count.
LEMMA StepEnters ==
  ASSUME NEW s \in FsmState, Hierarchical(s), NEW e \in Event, NEW t \in Step(s, e)
  PROVE  \/ LastIn(t.acts, Moving, Entering(t.to))
         \/ NoneIn(t.acts, Moving) /\ t.to = s /\ ~Asked(s) /\ e \notin Leaving(s)
<1> DEFINE u == t.to
           v == t.acts
           Good == LastIn(v, Moving, Entering(u)) \/ (NoneIn(v, Moving) /\ u = s /\ ~Asked(s) /\ e \notin Leaving(s))
<1>1. Stays(s, e, u, v) \/ Moves(s, e, u, v)
  BY TransitionIs
<1>2. \A a \in Action : a \notin Moving => NoneIn(<< a >>, Moving)
  BY LastOfList
<1>3. ASSUME NEW T, NEW a \in Action, NEW b \in Action, NEW c \in Action
      PROVE  /\ a \in Moving \cap T => LastIn(<< a >>, Moving, T)
             /\ b \in Moving \cap T => LastIn(<< a, b >>, Moving, T)
             /\ c \in Moving \cap T => LastIn(<< a, b, c >>, Moving, T)
  BY LastOfList
<1>4. \A a \in {"StopSendHeartbeatMessagePhase", "StopTimer", "CalculateQuorum", "OnEntryDisconnected", "OnEntryNormal",
                "OnEntrySafeMode", "StopSendHeartbeatMessageSafeMode", "StopSendHeartbeatMessageNormal"} : Do(a) \in Action
  BY ActionTypes
<1>5. /\ \A b \in SubStateBalanceMode : OnEntry("OnEntryBalance", b) \in Action
      /\ \A q \in SubStateQuorum : OnEntry("OnEntryQuorum", q) \in Action
      /\ \A p \in SubStatePhase : OnEntry("OnEntryPhase", p) \in Action
  BY ActionTypes
<1>6. /\ \A b \in {"InitBalanceMode", "InHandshake", "OutHandshake"} :
           OnEntry("OnEntryBalance", b) \in Moving \cap Entering(Balance(b))
      /\ \A q \in SubStateQuorum : OnEntry("OnEntryQuorum", q) \in Moving \cap Entering(Quorum(q))
      /\ \A p \in SubStatePhase : OnEntry("OnEntryPhase", p) \in Moving \cap Entering(Phase(p))
      /\ Do("OnEntryNormal") \in Moving \cap Entering(Global("Normal"))
      /\ Do("OnEntrySafeMode") \in Moving \cap Entering(Global("SafeMode"))
      /\ Do("OnEntryDisconnected") \in Moving \cap Entering(Global("Disconnected"))
  <2>1. /\ \A b \in {"InitBalanceMode", "InHandshake", "OutHandshake"} : OnEntry("OnEntryBalance", b) \in Moving
        /\ \A q \in SubStateQuorum : OnEntry("OnEntryQuorum", q) \in Moving
        /\ \A p \in SubStatePhase : OnEntry("OnEntryPhase", p) \in Moving
        /\ Do("OnEntryNormal") \in Moving /\ Do("OnEntrySafeMode") \in Moving /\ Do("OnEntryDisconnected") \in Moving
    BY <1>4, <1>5 DEF Moving, Do, OnEntry, SubStateBalanceMode
  <2>2. \A a \in Moving : a \in Action
    BY DEF Moving
  <2>3. \A b \in {"InitBalanceMode", "InHandshake", "OutHandshake"} : OnEntry("OnEntryBalance", b) \in Entering(Balance(b))
    BY <2>1, <2>2 DEF Entering, Balance
  <2>4. \A q \in SubStateQuorum : OnEntry("OnEntryQuorum", q) \in Entering(Quorum(q))
    BY <2>1, <2>2 DEF Entering, Quorum, SubStateQuorum, None
  <2>5. \A p \in SubStatePhase : OnEntry("OnEntryPhase", p) \in Entering(Phase(p))
    BY <2>1, <2>2 DEF Entering, Phase, SubStatePhase, None
  <2>6. /\ Do("OnEntryNormal") \in Entering(Global("Normal"))
        /\ Do("OnEntrySafeMode") \in Entering(Global("SafeMode"))
        /\ Do("OnEntryDisconnected") \in Entering(Global("Disconnected"))
    BY <2>1, <2>2 DEF Entering, Global
  <2> QED BY <2>1, <2>3, <2>4, <2>5, <2>6
<1> HIDE DEF u, v
<1>7. Stays(s, e, u, v) => Good
  <2> SUFFICES ASSUME Stays(s, e, u, v) PROVE Good
    OBVIOUS
  <2>1. /\ u = s /\ (v = << >> \/ v = << Do("CalculateQuorum") >>) /\ e \in {"NewMessageHandshake", "NotApproveQuorum"}
        /\ s \in { Balance(b) : b \in Handshakes } \cup { Quorum(q) : q \in Repeats }
    BY DEF Stays
  <2>2. NoneIn(v, Moving)
    BY <2>1, <1>2, <1>4, LastOfEmpty DEF Moving
  <2>3. ~Asked(s)
    BY <2>1 DEF Asked, Balance, Quorum, Handshakes, Repeats, Checks, None
  <2>4. e \notin Leaving(s)
    BY <2>1 DEF Leaving
  <2> QED BY <2>1, <2>2, <2>3, <2>4
<1>8. ToInit(s, e, u, v) => Good
  <2> SUFFICES ASSUME ToInit(s, e, u, v) PROVE Good
    OBVIOUS
  <2>1. v = << OnEntry("OnEntryBalance", "InitBalanceMode") >> /\ u = Balance("InitBalanceMode")
    BY DEF ToInit
  <2> QED BY <2>1, <1>3, <1>4, <1>5, <1>6 DEF SubStateBalanceMode
<1>9. ToInHandshake(s, e, u, v) => Good
  <2> SUFFICES ASSUME ToInHandshake(s, e, u, v) PROVE Good
    OBVIOUS
  <2>1. v = << OnEntry("OnEntryBalance", "InHandshake") >> /\ u = Balance("InHandshake")
    BY DEF ToInHandshake
  <2> QED BY <2>1, <1>3, <1>4, <1>5, <1>6 DEF SubStateBalanceMode
<1>10. ToSafeMode(s, e, u, v) => Good
  <2> SUFFICES ASSUME ToSafeMode(s, e, u, v) PROVE Good
    OBVIOUS
  <2>1. v = << Do("OnEntrySafeMode") >> /\ u = Global("SafeMode")
    BY DEF ToSafeMode
  <2> QED BY <2>1, <1>3, <1>4, <1>5, <1>6
<1>11. ToCheck(s, e, u, v) => Good
  <2> SUFFICES ASSUME ToCheck(s, e, u, v) PROVE Good
    OBVIOUS
  <2>1. \E q \in Checks :
          /\ u = Quorum(q)
          /\ \/ v = << OnEntry("OnEntryQuorum", q) >>
             \/ v = << OnEntry("OnEntryBalance", "Quorum"), OnEntry("OnEntryQuorum", q) >>
    BY DEF ToCheck
  <2> QED BY <2>1, <1>3, <1>4, <1>5, <1>6, ZenonT(60) DEF SubStateBalanceMode, SubStateQuorum, Checks
<1>12. ToRepeat(s, e, u, v) => Good
  <2> SUFFICES ASSUME ToRepeat(s, e, u, v) PROVE Good
    OBVIOUS
  <2>1. \E q \in Repeats : u = Quorum(q) /\ v = << OnEntry("OnEntryQuorum", q) >>
    BY DEF ToRepeat
  <2> QED BY <2>1, <1>3, <1>4, <1>5, <1>6 DEF SubStateQuorum, Repeats
<1>13. ToAlert(s, e, u, v) => Good
  <2> SUFFICES ASSUME ToAlert(s, e, u, v) PROVE Good
    OBVIOUS
  <2>1. /\ u = Phase("Alert")
        /\ v = << Do("StopTimer"), OnEntry("OnEntryBalance", "Phase"), OnEntry("OnEntryPhase", "Alert") >>
    BY DEF ToAlert
  <2> QED BY <2>1, <1>3, <1>4, <1>5, <1>6 DEF SubStateBalanceMode, SubStatePhase
<1>14. ToNextPhase(s, e, u, v) => Good
  <2> SUFFICES ASSUME ToNextPhase(s, e, u, v) PROVE Good
    OBVIOUS
  <2>1. \E p \in {"Data", "Monitor"} : u = Phase(p) /\ v = << Do("StopTimer"), OnEntry("OnEntryPhase", p) >>
    BY DEF ToNextPhase
  <2> QED BY <2>1, <1>3, <1>4, <1>5, <1>6 DEF SubStatePhase
<1>15. ToOutHandshake(s, e, u, v) => Good
  <2> SUFFICES ASSUME ToOutHandshake(s, e, u, v) PROVE Good
    OBVIOUS
  <2>1. /\ u = Balance("OutHandshake")
        /\ v = << Do("StopSendHeartbeatMessagePhase"), Do("StopTimer"), OnEntry("OnEntryBalance", "OutHandshake") >>
    BY DEF ToOutHandshake
  <2> QED BY <2>1, <1>3, <1>4, <1>5, <1>6 DEF SubStateBalanceMode
<1>16. ToNormal(s, e, u, v) => Good
  <2> SUFFICES ASSUME ToNormal(s, e, u, v) PROVE Good
    OBVIOUS
  <2>1. /\ u = Global("Normal")
        /\ \/ v = << Do("StopTimer"), Do("OnEntryNormal") >>
           \/ v = << Do("StopSendHeartbeatMessageSafeMode"), Do("OnEntryNormal") >>
    BY DEF ToNormal
  <2> QED BY <2>1, <1>3, <1>4, <1>5, <1>6
<1>17. ToDisconnected(s, e, u, v) => Good
  <2> SUFFICES ASSUME ToDisconnected(s, e, u, v) PROVE Good
    OBVIOUS
  <2>1. /\ u = Global("Disconnected")
        /\ \/ v = << Do("StopSendHeartbeatMessagePhase"), Do("StopTimer"), Do("OnEntryDisconnected") >>
           \/ v = << Do("StopSendHeartbeatMessageSafeMode"), Do("OnEntryDisconnected") >>
           \/ v = << Do("StopSendHeartbeatMessageNormal"), Do("OnEntryDisconnected") >>
    BY DEF ToDisconnected
  <2> QED BY <2>1, <1>3, <1>4, <1>5, <1>6
<1> QED BY <1>1, <1>7, <1>8, <1>9, <1>10, <1>11, <1>12, <1>13, <1>14, <1>15, <1>16, <1>17 DEF Moves, u, v

\* No state ignores the events that leave it.
LEMMA StepHears ==
  ASSUME NEW s \in FsmState, Hierarchical(s), NEW e,
         e \in Answers(s) \/ (Waits(s) /\ e \in Leaving(s))
  PROVE  Step(s, e) # {}
<1>1. StepInner(s, e) # {}
  <2>1. CASE s.global = "SafeMode"
    <3>1. e \in {"Timeout", "QuorumSafeMode"}
      BY <2>1 DEF Answers, Leaving, Hierarchical, Checks, None
    <3> QED BY <2>1, <3>1 DEF StepInner, StepSafeMode, Valid
  <2>2. CASE s.balance = "InitBalanceMode"
    <3>1. e \in {"BalanceEpochOk", "BalanceEpochNotOk"} /\ s.global = "BalanceMode"
      BY <2>2 DEF Answers, Waits, Hierarchical, Checks, Repeats, Handshakes, None
    <3> QED BY <2>2, <3>1 DEF StepInner, StepBalanceMode, StepInitBalanceMode, Valid
  <2>3. CASE s.balance \in Handshakes
    <3>1. e = "Timeout" /\ s.global = "BalanceMode"
      BY <2>3 DEF Answers, Leaving, Hierarchical, Checks, Handshakes, None
    <3> QED BY <2>3, <3>1 DEF StepInner, StepBalanceMode, StepInHandshake, StepOutHandshake, Valid, Handshakes
  <2>4. CASE s.balance = "Phase"
    <3>1. e \in {"Timeout", "QuorumPhase"} /\ s.global = "BalanceMode" /\ s.phase \in SubStatePhase
      BY <2>4 DEF Answers, Leaving, Hierarchical, Checks, None, FsmState
    <3>2. StepPhase(s, e) # {}
      BY <3>1 DEF StepPhase, Valid, SubStatePhase
    <3>3. StepInner(s, e) = StepPhase(s, e)
      BY <2>4, <3>1 DEF StepInner, StepBalanceMode
    <3> QED BY <3>2, <3>3
  <2>5. CASE s.quorum \in Checks
    <3>1. e \in {"ApproveQuorum", "NotApproveQuorum", "NotApproveNotAttempts"} /\ s.global = "BalanceMode" /\ s.balance = "Quorum"
      BY <2>5 DEF Answers, Waits, Hierarchical, Checks, Repeats, Handshakes, None
    <3>2. StepQuorum(s, e) # {}
      BY <2>5, <3>1 DEF StepQuorum, StepCheckQuorum, ApproveIn, ApproveOut, Valid, Checks
    <3>3. StepInner(s, e) = StepQuorum(s, e)
      BY <3>1 DEF StepInner, StepBalanceMode
    <3> QED BY <3>2, <3>3
  <2>6. CASE s.quorum \in Repeats
    <3>1. e = "Timeout" /\ s.global = "BalanceMode" /\ s.balance = "Quorum"
      BY <2>6 DEF Answers, Leaving, Hierarchical, Checks, Repeats, None
    <3>2. StepQuorum(s, e) # {}
      BY <2>6, <3>1 DEF StepQuorum, StepRepeatHandshake, Valid, Repeats
    <3>3. StepInner(s, e) = StepQuorum(s, e)
      BY <3>1 DEF StepInner, StepBalanceMode
    <3> QED BY <3>2, <3>3
  <2> QED BY <2>1, <2>2, <2>3, <2>4, <2>5, <2>6 DEF Answers, Waits
<1> QED BY <1>1 DEF Step

\* What the machine waits for is kept by whoever touches none of it.
LEMMA SettledSame ==
  ASSUME Settled, fsm' = fsm, session'.state = session.state,
         UNCHANGED << events, outbox, timer, timerCmds >>
  PROVE  Settled'
BY DEF Settled, OnItsWay, Running, Silent

\* run_fsm ignores an event, or counts the votes on it: it was not one that it waits for.
LEMMA SettledRunFsm ==
  ASSUME PipeInv, Settled, FsmTurn, fsm' = fsm,
         Asked(fsm) => Head(events) \notin Answers(fsm),
         Waits(fsm) => Head(events) \notin Leaving(fsm)
  PROVE  Settled'
<1>1. events # << >> /\ events' = Tail(events) /\ UNCHANGED << session, outbox, timer, timerCmds >>
  BY DEF FsmTurn, handlerVars, timerVars
<1>2. events \in Seq(Event) /\ Head(events) \in Event
  BY <1>1, ChannelTypes DEF PipeInv, TypeOK
<1>3. ASSUME NEW E, Head(events) \notin E, OnItsWay(E)
      PROVE  OnItsWay(E)'
  <2>1. ~NoneIn(events, E) => ~NoneIn(events', E)
    BY <1>1, <1>2, <1>3, SomeIn
  <2> QED BY <1>1, <1>3, <2>1 DEF OnItsWay
<1>4. Asked(fsm) => OnItsWay(Answers(fsm))'
  BY <1>3 DEF Settled
<1>5. Waits(fsm) => OnItsWay(Leaving(fsm))' \/ Running'
  BY <1>1, <1>3 DEF Settled, Running, Silent
<1> QED BY <1>1, <1>4, <1>5 DEF Settled

\* The watchdog: a Timeout leaves every state that waits.
LEMMA SettledTimer ==
  ASSUME TypeOK, Settled, Timer \/ TimerExpire
  PROVE  Settled'
<1>1. UNCHANGED << fsm, session, outbox >> /\ (events' = events \/ events' = Append(events, "Timeout"))
  BY DEF Timer, TimerReceive, TimerFire, TimerExpire, fsmVars, handlerVars
<1>2. events \in Seq(Event) /\ timerCmds \in Seq(TimerCommand) /\ timer \in TimerState /\ "Timeout" \in Event
  BY DEF TypeOK, Event
<1>3. ASSUME NEW E, OnItsWay(E)
      PROVE  OnItsWay(E)'
  <2>1. ~NoneIn(events, E) => ~NoneIn(Append(events, "Timeout"), E)
    BY <1>2, SomeIn
  <2>2. ~NoneIn(events, E) => ~NoneIn(events', E)
    BY <1>1, <2>1, Zenon
  <2> QED BY <1>1, <1>3, <2>2 DEF OnItsWay
<1>4. Asked(fsm) => OnItsWay(Answers(fsm))'
  BY <1>1, <1>3 DEF Settled
<1>5. Waits(fsm) => OnItsWay(Leaving(fsm))' \/ Running'
  <2>1. CASE TimerFire
    <3>1. events' = Append(events, "Timeout") /\ "Timeout" \in Leaving(fsm)
      BY <2>1 DEF TimerFire, Leaving
    <3>2. ~NoneIn(Append(events, "Timeout"), Leaving(fsm))
      BY <1>2, <3>1, SomeIn
    <3>3. ~NoneIn(events', Leaving(fsm))
      BY <3>1, <3>2, Zenon
    <3> QED BY <1>1, <3>3 DEF OnItsWay
  <2>2. CASE TimerExpire
    <3>1. Sleeping(timer) /\ timer' = "firing" /\ timerCmds' = timerCmds
      BY <2>2 DEF TimerExpire
    <3>2. Running => Running'
      BY <1>1, <3>1 DEF Running, Silent
    <3> QED BY <1>1, <1>3, <3>2 DEF Settled
  <2>3. CASE TimerReceive
    <3>1. Listening(timer) /\ timerCmds # << >> /\ timer' = Received(timer, Head(timerCmds)) /\ timerCmds' = Tail(timerCmds)
      BY <2>3 DEF TimerReceive
    <3>2. \/ Tail(timerCmds) # << >> /\ Newest(Tail(timerCmds)) = Newest(timerCmds)
          \/ Tail(timerCmds) = << >> /\ Head(timerCmds) = Newest(timerCmds)
      BY <1>2, <3>1, NewestOfTail
    <3>3. Head(timerCmds) = "InitTimer" => Sleeping(timer')
      BY <3>1 DEF Listening, Received, Sleeping
    <3>4. Running => Running'
      <4>1. CASE outbox = << ToTimer("InitTimer") >>
        BY <1>1, <4>1 DEF Running
      <4>2. CASE Silent /\ Newest(timerCmds) = "InitTimer"
        BY <1>1, <3>1, <3>2, <3>3, <4>2 DEF Running, Silent
      <4> QED BY <3>1, <4>1, <4>2 DEF Running
    <3> QED BY <1>1, <1>3, <3>4 DEF Settled
  <2> QED BY <2>1, <2>2, <2>3 DEF Timer
<1> QED BY <1>1, <1>4, <1>5 DEF Settled

\* The handler sends its message: an event of those, or the command of the watchdog.
LEMMA SettledSend ==
  ASSUME TypeOK, Settled, HandlerSend
  PROVE  Settled'
<1>1. outbox # << >> /\ outbox' = Tail(outbox) /\ UNCHANGED << fsm, session, timer >>
  BY DEF HandlerSend, fsmVars
<1>2. outbox \in Seq(Message) /\ events \in Seq(Event) /\ timerCmds \in Seq(TimerCommand)
  BY DEF TypeOK
<1>3. PICK m \in Message : m = Head(outbox)
  BY <1>1, <1>2, ChannelTypes
<1>4. \/ m.to = "fsm" /\ m.msg \in Event /\ events' = Append(events, m.msg) /\ timerCmds' = timerCmds
      \/ m.to = "timer" /\ m.msg \in TimerCommand /\ timerCmds' = Append(timerCmds, m.msg) /\ events' = events
  BY <1>3, MessageTypes DEF HandlerSend
<1>5. ASSUME NEW E, OnItsWay(E)
      PROVE  OnItsWay(E)'
  <2>1. CASE m.to = "fsm" /\ m.msg \in Event /\ events' = Append(events, m.msg)
    <3>1. PICK x \in Event : x = m.msg /\ events' = Append(events, x)
      BY <2>1
    <3>2. m \in { ToFsm(e) : e \in E } => x \in E
      BY <3>1 DEF ToFsm
    <3>3. ~NoneIn(events, E) \/ x \in E => ~NoneIn(Append(events, x), E)
      BY <1>2, SomeIn
    <3>4. ~NoneIn(Append(events, x), E)
      BY <1>3, <1>5, <3>2, <3>3 DEF OnItsWay
    <3> QED BY <3>1, <3>4, Zenon DEF OnItsWay
  <2>2. CASE m.to = "timer" /\ events' = events
    <3>1. m \notin { ToFsm(e) : e \in E }
      BY <2>2 DEF ToFsm
    <3> QED BY <1>3, <1>5, <2>2, <3>1 DEF OnItsWay
  <2> QED BY <1>4, <2>1, <2>2
<1>6. Running => Running'
  <2>1. CASE outbox = << ToTimer("InitTimer") >>
    <3>1. m = ToTimer("InitTimer") /\ outbox' = << >>
      BY <1>1, <1>3, <2>1
    <3>2. timerCmds' = Append(timerCmds, "InitTimer") /\ "InitTimer" \in TimerCommand
      BY <1>4, <3>1 DEF ToTimer, TimerCommand
    <3>3. Newest(Append(timerCmds, "InitTimer")) = "InitTimer" /\ Append(timerCmds, "InitTimer") # << >>
      BY <1>2, <3>2, NewestOfAppend
    <3>4. Newest(timerCmds') = "InitTimer" /\ timerCmds' # << >>
      BY <3>2, <3>3, Zenon
    <3> QED BY <3>1, <3>4 DEF Running, Silent
  <2>2. CASE /\ Silent
             /\ IF timerCmds # << >> THEN Newest(timerCmds) = "InitTimer"
                                     ELSE Sleeping(timer) \/ timer = "firing"
    <3>1. m.to = "fsm"
      BY <1>1, <1>2, <1>3, <2>2, TailElements DEF Silent
    <3>2. \A i \in DOMAIN Tail(outbox) : i + 1 \in DOMAIN outbox /\ Tail(outbox)[i] = outbox[i + 1]
      BY <1>1, <1>2, TailElements
    <3>3. \A i \in DOMAIN Tail(outbox) : Tail(outbox)[i].to = "fsm"
      BY <2>2, <3>2 DEF Silent
    <3>4. Silent'
      BY <1>1, <3>3 DEF Silent
    <3>5. timerCmds' = timerCmds
      BY <1>4, <3>1
    <3> QED BY <1>1, <2>2, <3>4, <3>5 DEF Running
  <2> QED BY <2>1, <2>2 DEF Running
<1>7. Asked(fsm) => OnItsWay(Answers(fsm))'
  BY <1>1, <1>5 DEF Settled
<1>8. Waits(fsm) => OnItsWay(Leaving(fsm))' \/ Running'
  BY <1>1, <1>5, <1>6 DEF Settled
<1> QED BY <1>1, <1>7, <1>8 DEF Settled

\* The handler, with nothing to send, is given events to send, and the session keeps its state.
LEMMA SettledAnswers ==
  ASSUME Settled, outbox = << >>, session'.state = session.state,
         UNCHANGED << fsm, events, timer, timerCmds >>,
         NEW x, outbox' = << >> \/ outbox' = << ToFsm(x) >>
  PROVE  Settled'
<1>1. ASSUME NEW E, OnItsWay(E)
      PROVE  OnItsWay(E)'
  BY <1>1 DEF OnItsWay
<1>2. Running => Running'
  <2>1. Silent'
    BY DEF Silent, ToFsm
  <2> QED BY <2>1 DEF Running
<1>3. Asked(fsm) => OnItsWay(Answers(fsm))'
  BY <1>1 DEF Settled
<1>4. Waits(fsm) => OnItsWay(Leaving(fsm))' \/ Running'
  BY <1>1, <1>2 DEF Settled
<1> QED BY <1>3, <1>4 DEF Settled

\* A report of a hub past the percentage: the event that it sends before the StopTimer is
\* one that leaves the state, for the session is in it.
LEMMA SettledCount ==
  ASSUME Settled, outbox = << >>, session'.state = session.state,
         UNCHANGED << fsm, events, timer, timerCmds >>,
         NEW x, outbox' = << ToFsm(x), ToTimer("StopTimer") >>, Waits(fsm) => x \in Leaving(fsm)
  PROVE  Settled'
<1>1. ASSUME NEW E, OnItsWay(E)
      PROVE  OnItsWay(E)'
  BY <1>1 DEF OnItsWay
<1>2. Asked(fsm) => OnItsWay(Answers(fsm))'
  BY <1>1 DEF Settled
<1>3. ASSUME Waits(fsm)
      PROVE  OnItsWay(Leaving(fsm))'
  <2>1. outbox' # << >> /\ Head(outbox') = ToFsm(x)
    OBVIOUS
  <2>2. ToFsm(x) \in { ToFsm(e) : e \in Leaving(fsm) }
    BY <1>3
  <2>3. Head(outbox') \in { ToFsm(e) : e \in Leaving(fsm') }
    BY <2>1, <2>2
  <2> QED BY <2>1, <2>3 DEF OnItsWay
<1> QED BY <1>2, <1>3 DEF Settled

LEMMA SettledCommands ==
  ASSUME PipeInv, Settled, HandleHandshake \/ HandleQueue \/ HandleQueueSafe \/ HandleConnection
  PROVE  Settled'
<1>1. outbox = << >> /\ UNCHANGED << fsm, events, timer, timerCmds >>
  BY DEF HandleHandshake, HandleQueue, HandleQueueSafe, HandleConnection, TakeCommand, Idle, fsmVars, timerVars
<1>2. session \in [state : StateOfSession, epoch : Nat, attempts : Nat,
                   votes : [Hubs -> Nat], empty : SUBSET Hubs]
  BY DEF PipeInv, TypeOK
<1>3. fsm \in FsmState /\ Hierarchical(fsm)
  BY PipeTyped
<1>4. CASE HandleHandshake
  <2>1. session'.state = session.state /\ (outbox' = << >> \/ outbox' = << ToFsm("NewMessageHandshake") >>)
    <3>1. \/ session' = session /\ outbox' = outbox
          \/ session' = session /\ outbox' = << ToFsm("NewMessageHandshake") >>
          \/ /\ session' = [session EXCEPT !.votes[Head(commands).hub] = Head(commands).epoch]
             /\ outbox' = << ToFsm("NewMessageHandshake") >>
      BY <1>4 DEF HandleHandshake
    <3> QED BY <1>1, <1>2, <3>1
  <2> QED BY <1>1, <2>1, SettledAnswers
<1>5. CASE HandleConnection
  <2>1. session'.state = session.state /\ outbox' = << ToFsm(Head(commands).kind) >>
    BY <1>5 DEF HandleConnection
  <2> QED BY <1>1, <2>1, SettledAnswers
<1>6. CASE HandleQueue
  <2>1. \/ session' = session /\ outbox' = outbox
        \/ /\ session.state \in {"PhaseAlert", "PhaseData", "PhaseMonitor"}
           /\ session'.state = session.state
           /\ outbox' = << ToFsm("QuorumPhase"), ToTimer("StopTimer") >> \/ outbox' = << >>
    BY <1>2, <1>6 DEF HandleQueue, CountEmpty
  <2>2. CASE session' = session /\ outbox' = outbox
    BY <1>1, <2>2, SettledSame
  <2>3. CASE session'.state = session.state /\ outbox' = << >>
    BY <1>1, <2>3, SettledAnswers
  <2>4. CASE /\ session.state \in {"PhaseAlert", "PhaseData", "PhaseMonitor"} /\ session'.state = session.state
             /\ outbox' = << ToFsm("QuorumPhase"), ToTimer("StopTimer") >>
    <3>1. InSession(fsm, session.state)
      BY DEF Settled
    <3>2. Waits(fsm) => fsm.balance = "Phase"
      BY <2>4, <3>1 DEF InSession, Waits, Handshakes
    <3>3. Waits(fsm) => "QuorumPhase" \in Leaving(fsm)
      BY <3>2 DEF Leaving
    <3> QED BY <1>1, <2>4, <3>3, SettledCount
  <2> QED BY <2>1, <2>2, <2>3, <2>4
<1>7. CASE HandleQueueSafe
  <2>1. \/ session' = session /\ outbox' = outbox
        \/ /\ session.state = "SafeMode"
           /\ session'.state = session.state
           /\ outbox' = << ToFsm("QuorumSafeMode"), ToTimer("StopTimer") >> \/ outbox' = << >>
    BY <1>2, <1>7 DEF HandleQueueSafe, CountEmpty
  <2>2. CASE session' = session /\ outbox' = outbox
    BY <1>1, <2>2, SettledSame
  <2>3. CASE session'.state = session.state /\ outbox' = << >>
    BY <1>1, <2>3, SettledAnswers
  <2>4. CASE /\ session.state = "SafeMode" /\ session'.state = session.state
             /\ outbox' = << ToFsm("QuorumSafeMode"), ToTimer("StopTimer") >>
    <3>1. InSession(fsm, session.state)
      BY DEF Settled
    <3>2. fsm.phase # None => fsm.phase \in SubStatePhase
      BY <1>3 DEF FsmState
    <3>3. Waits(fsm) => fsm.global = "SafeMode"
      BY <1>3, <2>4, <3>1, <3>2 DEF InSession, Waits, Handshakes, Hierarchical, SubStatePhase, None
    <3>4. Waits(fsm) => "QuorumSafeMode" \in Leaving(fsm)
      BY <3>3 DEF Leaving
    <3> QED BY <1>1, <2>4, <3>4, SettledCount
  <2> QED BY <2>1, <2>2, <2>3, <2>4
<1> QED BY <1>4, <1>5, <1>6, <1>7

\* Which state an entry belongs to.
LEMMA EnteredState ==
  ASSUME NEW s \in FsmState, NEW a \in Entering(s)
  PROVE  /\ a.act \in {"OnEntryBalance", "OnEntryQuorum", "OnEntryPhase", "OnEntryNormal", "OnEntrySafeMode", "OnEntryDisconnected"}
         /\ a.act = "OnEntryBalance" => s.balance = a.sub /\ a.sub \in {"InitBalanceMode", "InHandshake", "OutHandshake"}
         /\ a.act = "OnEntryQuorum" => s.quorum = a.sub /\ s.quorum # None
         /\ a.act = "OnEntryPhase" => s.phase = a.sub /\ s.phase # None
         /\ a.act = "OnEntryNormal" => s.global = "Normal"
         /\ a.act = "OnEntrySafeMode" => s.global = "SafeMode"
         /\ a.act = "OnEntryDisconnected" => s.global = "Disconnected"
BY DEF Entering, OnEntry, Do

\* Once the entry of a state is performed, the session and the watchdog are what it needs.
LEMMA EntrySettles ==
  ASSUME PipeInv, HandleAction, Head(doing) \in Entering(fsm)
  PROVE  Settled'
<1>1. fsm \in FsmState /\ Hierarchical(fsm)
  BY PipeTyped
<1>2. session \in [state : StateOfSession, epoch : Nat, attempts : Nat,
                   votes : [Hubs -> Nat], empty : SUBSET Hubs]
  BY DEF PipeInv, TypeOK
<1>3. fsm' = fsm
  BY HandleActionPerforms DEF Perform, fsmVars
<1>4. ASSUME NEW x, Perform(x)
      PROVE  x \in Entering(fsm)
  BY <1>4 DEF Perform
<1>5. ASSUME outbox' = << ToTimer("InitTimer") >>, ~Asked(fsm), InSession(fsm, session'.state)
      PROVE  Settled'
  BY <1>3, <1>5 DEF Settled, Running
<1>6. ASSUME NEW x \in Answers(fsm), outbox' = << ToFsm(x) >>, ~Waits(fsm), InSession(fsm, session'.state)
      PROVE  Settled'
  <2>1. Head(outbox') = ToFsm(x) /\ outbox' # << >>
    BY <1>6
  <2>2. ToFsm(x) \in { ToFsm(e) : e \in Answers(fsm) }
    OBVIOUS
  <2>3. OnItsWay(Answers(fsm))'
    BY <1>3, <2>1, <2>2 DEF OnItsWay
  <2> QED BY <1>3, <1>6, <2>3 DEF Settled
<1>7. ASSUME ~Asked(fsm), ~Waits(fsm), InSession(fsm, session'.state)
      PROVE  Settled'
  BY <1>3, <1>7 DEF Settled
<1>8. EnterInitBalanceMode => Settled'
  <2> SUFFICES ASSUME EnterInitBalanceMode PROVE Settled'
    OBVIOUS
  <2>1. OnEntry("OnEntryBalance", "InitBalanceMode") \in Entering(fsm)
    BY <1>4 DEF EnterInitBalanceMode
  <2>2. fsm.balance = "InitBalanceMode"
    BY <1>1, <2>1, EnteredState DEF OnEntry
  <2>3. \E x \in Answers(fsm) : outbox' = << ToFsm(x) >>
    BY <2>2 DEF EnterInitBalanceMode, Answers
  <2>4. ~Waits(fsm) /\ \A state : InSession(fsm, state)
    BY <1>1, <2>2 DEF Waits, InSession, Hierarchical, Handshakes, Checks, Repeats, None
  <2> QED BY <1>6, <2>3, <2>4
<1>9. EnterHandshake => Settled'
  <2> SUFFICES ASSUME EnterHandshake PROVE Settled'
    OBVIOUS
  <2>1. PICK b \in Handshakes : /\ Perform(OnEntry("OnEntryBalance", b))
                                /\ session' = [session EXCEPT !.state = b]
                                /\ outbox' = << ToTimer("InitTimer") >>
    BY DEF EnterHandshake, Handshakes
  <2>2. OnEntry("OnEntryBalance", b) \in Entering(fsm)
    BY <1>4, <2>1
  <2>3. fsm.balance = b
    BY <1>1, <2>2, EnteredState DEF OnEntry
  <2>4. ~Asked(fsm) /\ InSession(fsm, b)
    BY <1>1, <2>3 DEF Asked, InSession, Hierarchical, Handshakes, Checks, Repeats, None
  <2>5. session'.state = b
    BY <1>2, <2>1
  <2> QED BY <1>5, <2>1, <2>4, <2>5
<1>10. EnterCheckQuorum => Settled'
  <2> SUFFICES ASSUME EnterCheckQuorum PROVE Settled'
    OBVIOUS
  <2>1. PICK q \in Checks : /\ Perform(OnEntry("OnEntryQuorum", q))
                            /\ session' = [session EXCEPT !.state = "Quorum"]
                            /\ outbox' = << ToFsm(QuorumAlgorithm(session)) >>
    BY DEF EnterCheckQuorum, Checks
  <2>2. OnEntry("OnEntryQuorum", q) \in Entering(fsm)
    BY <1>4, <2>1
  <2>3. fsm.quorum = q
    BY <1>1, <2>2, EnteredState DEF OnEntry
  <2>4. ~Waits(fsm) /\ InSession(fsm, "Quorum")
    BY <1>1, <2>3 DEF Waits, InSession, Hierarchical, Handshakes, Checks, Repeats, None
  <2>5. session'.state = "Quorum"
    BY <1>2, <2>1
  <2>6. QuorumAlgorithm(session) \in Answers(fsm)
    BY <1>2, <2>3, QuorumAnswers DEF Answers
  <2> QED BY <1>6, <2>1, <2>4, <2>5, <2>6
<1>11. EnterRepeatHandshake => Settled'
  <2> SUFFICES ASSUME EnterRepeatHandshake PROVE Settled'
    OBVIOUS
  <2>1. PICK q \in Repeats : Perform(OnEntry("OnEntryQuorum", q))
    BY DEF EnterRepeatHandshake, RepeatHandshake, Repeats
  <2>2. session'.state = "RepeatHandshake" /\ outbox' = << ToTimer("InitTimer") >>
    BY <1>2 DEF EnterRepeatHandshake, RepeatHandshake
  <2>3. OnEntry("OnEntryQuorum", q) \in Entering(fsm)
    BY <1>4, <2>1
  <2>4. fsm.quorum = q
    BY <1>1, <2>3, EnteredState DEF OnEntry
  <2>5. ~Asked(fsm) /\ InSession(fsm, "RepeatHandshake")
    BY <1>1, <2>4 DEF Asked, InSession, Hierarchical, Handshakes, Checks, Repeats, None
  <2> QED BY <1>5, <2>2, <2>5
<1>12. EnterPhase => Settled'
  <2> SUFFICES ASSUME EnterPhase PROVE Settled'
    OBVIOUS
  <2>1. PICK p \in SubStatePhase :
          /\ Perform(OnEntry("OnEntryPhase", p))
          /\ session' = [session EXCEPT !.state = CASE p = "Alert"   -> "PhaseAlert"
                                                    [] p = "Data"    -> "PhaseData"
                                                    [] p = "Monitor" -> "PhaseMonitor",
                                        !.attempts = 0,
                                        !.votes = [h \in Hubs |-> 0], !.empty = {}]
          /\ outbox' = << ToTimer("InitTimer") >>
    BY Zenon DEF EnterPhase
  <2>2. OnEntry("OnEntryPhase", p) \in Entering(fsm)
    BY <1>4, <2>1
  <2>3. fsm.phase = p
    BY <1>1, <2>2, EnteredState DEF OnEntry
  <2>4. session'.state = CASE p = "Alert" -> "PhaseAlert" [] p = "Data" -> "PhaseData" [] p = "Monitor" -> "PhaseMonitor"
    <3>1. PICK c, z : /\ c = CASE p = "Alert" -> "PhaseAlert" [] p = "Data" -> "PhaseData" [] p = "Monitor" -> "PhaseMonitor"
                      /\ z = [h \in Hubs |-> 0]
      OBVIOUS
    <3>2. session' = [session EXCEPT !.state = c, !.attempts = 0, !.votes = z, !.empty = {}]
      BY <2>1, <3>1, Zenon
    <3>3. session'.state = c
      BY <1>2, <3>2
    <3> QED BY <3>1, <3>3, Zenon
  <2>5. ~Asked(fsm) /\ fsm.balance \notin Handshakes /\ fsm.quorum = None /\ fsm.global # "SafeMode"
    BY <1>1, <2>3 DEF Asked, Hierarchical, Handshakes, Checks, None, SubStatePhase
  <2>6. InSession(fsm, session'.state)
    BY <2>3, <2>4, <2>5 DEF InSession, SubStatePhase, Checks, Repeats, None
  <2> QED BY <1>5, <2>1, <2>5, <2>6
<1>13. EnterSafeMode => Settled'
  <2> SUFFICES ASSUME EnterSafeMode PROVE Settled'
    OBVIOUS
  <2>1. Do("OnEntrySafeMode") \in Entering(fsm)
    BY <1>4 DEF EnterSafeMode
  <2>2. fsm.global = "SafeMode"
    BY <1>1, <2>1, EnteredState DEF Do
  <2>3. session'.state = "SafeMode" /\ outbox' = << ToTimer("InitTimer") >>
    BY <1>2 DEF EnterSafeMode
  <2>4. ~Asked(fsm) /\ InSession(fsm, "SafeMode")
    BY <1>1, <2>2 DEF Asked, InSession, Hierarchical, Handshakes, Checks, Repeats, None
  <2> QED BY <1>5, <2>3, <2>4
<1>14. EnterNormal \/ EnterDisconnected => Settled'
  <2> SUFFICES ASSUME EnterNormal \/ EnterDisconnected PROVE Settled'
    OBVIOUS
  <2>1. Do("OnEntryNormal") \in Entering(fsm) \/ Do("OnEntryDisconnected") \in Entering(fsm)
    BY <1>4 DEF EnterNormal, EnterDisconnected
  <2>2. fsm.global \in {"Normal", "Disconnected"}
    BY <1>1, <2>1, EnteredState DEF Do
  <2>3. ~Asked(fsm) /\ ~Waits(fsm) /\ \A state : InSession(fsm, state)
    BY <1>1, <2>2 DEF Asked, Waits, InSession, Hierarchical, Handshakes, Checks, Repeats, None
  <2> QED BY <1>7, <2>3
<1>15. ~CalculateQuorum /\ ~StopTimer /\ ~StopHeartbeats /\ ~SkipAction
  <2>1. CalculateQuorum => Do("CalculateQuorum") \in Entering(fsm)
    BY <1>4 DEF CalculateQuorum
  <2>2. StopTimer => Do("StopTimer") \in Entering(fsm)
    BY <1>4 DEF StopTimer
  <2>3. StopHeartbeats => \E x \in {"StopSendHeartbeatMessagePhase", "StopSendHeartbeatMessageSafeMode",
                                   "StopSendHeartbeatMessageNormal"} : Do(x) \in Entering(fsm)
    BY <1>4 DEF StopHeartbeats
  <2>4. SkipAction => \E b \in {"Quorum", "Phase"} : OnEntry("OnEntryBalance", b) \in Entering(fsm)
    BY <1>4 DEF SkipAction
  <2> QED BY <1>1, <2>1, <2>2, <2>3, <2>4, EnteredState DEF Do, OnEntry
<1> QED BY <1>8, <1>9, <1>10, <1>11, <1>12, <1>13, <1>14, <1>15 DEF HandleAction

\* A count between two entries changes nothing that the machine waits for.
LEMMA CountSettles ==
  ASSUME PipeInv, Settled, HandleAction, Head(doing) \notin Moving
  PROVE  Settled'
<1>1. PICK a : Perform(a)
  BY HandleActionPerforms
<1>2. outbox = << >> /\ Head(doing) \in Action /\ UNCHANGED << fsm, events, timer, timerCmds >>
  <2>1. doing \in Seq(Action) /\ doing # << >>
    BY <1>1 DEF PipeInv, TypeOK, Perform
  <2>2. Head(doing) \in Action
    BY <2>1, ChannelTypes
  <2> QED BY <1>1, <2>2 DEF Perform, fsmVars, timerVars
<1>3. Head(doing) = Do("CalculateQuorum")
  BY <1>2 DEF Moving
<1>4. ASSUME NEW x, Perform(x)
      PROVE  x = Do("CalculateQuorum")
  BY <1>3, <1>4 DEF Perform
<1>5. CalculateQuorum
  <2>1. ~EnterInitBalanceMode
    BY <1>4 DEF EnterInitBalanceMode, Do, OnEntry
  <2>2. ~EnterHandshake
    BY <1>4 DEF EnterHandshake, Do, OnEntry
  <2>3. ~EnterCheckQuorum
    BY <1>4 DEF EnterCheckQuorum, Do, OnEntry
  <2>4. ~EnterRepeatHandshake
    BY <1>4 DEF EnterRepeatHandshake, RepeatHandshake, Do, OnEntry
  <2>5. ~EnterPhase
    <3>1. ~\E p \in SubStatePhase : Perform(OnEntry("OnEntryPhase", p))
      BY <1>4 DEF Do, OnEntry
    <3> QED BY <3>1, Zenon DEF EnterPhase
  <2>6. ~EnterNormal /\ ~EnterSafeMode /\ ~EnterDisconnected
    BY <1>4 DEF EnterNormal, EnterSafeMode, EnterDisconnected, Do
  <2>7. ~StopTimer /\ ~StopHeartbeats
    BY <1>4 DEF StopTimer, StopHeartbeats, Do
  <2>8. ~SkipAction
    BY <1>4 DEF SkipAction, Do, OnEntry
  <2> QED BY <2>1, <2>2, <2>3, <2>4, <2>5, <2>6, <2>7, <2>8 DEF HandleAction
<1>6. outbox' = << ToFsm(QuorumAlgorithm(session)) >> /\ session' = session
  BY <1>5 DEF CalculateQuorum
<1> QED BY <1>2, <1>6, SettledAnswers

LEMMA EnteredStep ==
  ASSUME PipeInv, EnteredInv, [Next]_vars
  PROVE  EnteredInv'
<1>0. Pipe \in Seq(Seq(Action)) /\ doing \in Seq(Action) /\ fsm \in FsmState /\ Hierarchical(fsm) /\ events \in Seq(Event) /\ TypeOK
  BY PipeTyped DEF PipeInv, TypeOK
<1>1. ASSUME NEW e \in Event, Transits(e),
             fsm.global = "Start" \/ (FsmTurn /\ e = Head(events))
      PROVE  EnteredInv'
  <2>1. PICK t \in Step(fsm, e) : fsm' = t.to /\ Pipe' = Append(Pipe, t.acts) /\ doing' = doing
    BY <1>1 DEF Transits
  <2>2. PICK v \in Seq(Action) : v = t.acts
    BY <1>0, StepWellformed DEF Wellformed
  <2>3. PICK p, d, T : p = Pipe /\ d = doing /\ T = Entering(fsm')
    OBVIOUS
  <2>4. Pipe' = Append(p, v) /\ doing' = d
    BY <2>1, <2>2, <2>3, Zenon
  <2>5. /\ LastIn(v, Moving, T) => Pending(Append(p, v), d, Moving, T)
        /\ NoneIn(v, Moving) /\ Pending(p, d, Moving, T) => Pending(Append(p, v), d, Moving, T)
        /\ NoneIn(v, Moving) /\ Done(p, d, Moving) => Done(Append(p, v), d, Moving)
    BY <1>0, <2>3, SendKeeps
  <2>6. \/ LastIn(v, Moving, T)
        \/ NoneIn(v, Moving) /\ fsm' = fsm /\ ~Asked(fsm) /\ e \notin Leaving(fsm)
    BY <1>0, <2>1, <2>2, <2>3, StepEnters
  <2>7. CASE LastIn(v, Moving, T)
    BY <2>3, <2>4, <2>5, <2>7, Zenon DEF EnteredInv
  <2>8. CASE NoneIn(v, Moving) /\ fsm' = fsm /\ ~Asked(fsm) /\ e \notin Leaving(fsm)
    <3>1. CASE fsm.global = "Start"
      BY <2>8, <3>1 DEF EnteredInv
    <3>2. CASE FsmTurn /\ e = Head(events)
      <4>1. Settled => Settled'
        BY <2>8, <3>2, SettledRunFsm
      <4>2. T = Entering(fsm)
        BY <2>3, <2>8
      <4> QED BY <2>3, <2>4, <2>5, <2>8, <4>1, <4>2, Zenon DEF EnteredInv
    <3> QED BY <1>1, <3>1, <3>2
  <2> QED BY <2>6, <2>7, <2>8
<1>2. ASSUME PipeSame, Settled => Settled'
      PROVE  EnteredInv'
  BY <1>2, Zenon DEF EnteredInv, PipeSame
<1>3. CASE RunFsm
  <2>1. CASE fsm.global = "Start" /\ Transits("Start")
    BY <1>1, <2>1 DEF Event
  <2>2. CASE FsmTurn /\ events # << >> /\ Transits(Head(events))
    <3>1. Head(events) \in Event
      BY <1>0, <2>2, ChannelTypes
    <3> QED BY <1>1, <2>2, <3>1
  <2>3. CASE FsmTurn /\ events # << >> /\ Step(fsm, Head(events)) = {} /\ PipeSame
    <3>1. Head(events) \notin Answers(fsm) /\ (Waits(fsm) => Head(events) \notin Leaving(fsm))
      BY <1>0, <2>3, StepHears
    <3>2. fsm' = fsm
      BY <2>3 DEF PipeSame
    <3>3. Settled => Settled'
      BY <2>3, <3>1, <3>2, SettledRunFsm
    <3> QED BY <1>2, <2>3, <3>3
  <2>4. CASE FsmUnblocked /\ PipeSame
    <3>1. fsm' = fsm /\ session' = session /\ UNCHANGED << events, outbox, timer, timerCmds >>
      BY <2>4 DEF FsmUnblocked, PipeSame, handlerVars, timerVars
    <3>2. Settled => Settled'
      BY <3>1, SettledSame
    <3> QED BY <1>2, <2>4, <3>2
  <2> QED BY <1>3, <2>1, <2>2, <2>3, <2>4, RunFsmSends
<1>4. CASE TakeActions
  <2>1. fsm' = fsm /\ Pipe # << >> /\ doing = << >> /\ doing' = Head(Pipe) /\ Pipe' = Tail(Pipe)
        /\ session' = session /\ UNCHANGED << events, outbox, timer, timerCmds >>
    BY <1>4, TakeActionsTakes DEF TakesVector, timerVars
  <2>2. PICK p, T : p = Pipe /\ T = Entering(fsm)
    OBVIOUS
  <2>3. /\ Pending(p, << >>, Moving, T) => Pending(Tail(p), Head(p), Moving, T)
        /\ Done(p, << >>, Moving) => Done(Tail(p), Head(p), Moving)
    BY <1>0, <2>1, <2>2, TakeKeeps
  <2>4. Settled => Settled'
    BY <2>1, SettledSame
  <2> QED BY <2>1, <2>2, <2>3, <2>4, Zenon DEF EnteredInv
<1>5. CASE HandleAction
  <2>1. PICK a : Perform(a)
    BY <1>5, HandleActionPerforms
  <2>2. doing # << >> /\ doing' = Tail(doing) /\ fsm' = fsm /\ Pipe' = Pipe
    BY <2>1, PerformTakes
  <2>3. PICK p, d, T : p = Pipe /\ d = doing /\ T = Entering(fsm)
    OBVIOUS
  <2>4. /\ Pending(p, d, Moving, T)
             => Pending(p, Tail(d), Moving, T) \/ (Done(p, Tail(d), Moving) /\ Head(d) \in Moving \cap T)
        /\ Done(p, d, Moving) => Done(p, Tail(d), Moving) /\ Head(d) \notin Moving
    BY <1>0, <2>2, <2>3, PerformKeeps
  <2>5. Head(d) \in T => Settled'
    BY <1>5, <2>3, EntrySettles
  <2>6. Settled /\ Head(d) \notin Moving => Settled'
    BY <1>5, <2>3, CountSettles
  <2> QED BY <2>2, <2>3, <2>4, <2>5, <2>6, Zenon DEF EnteredInv
<1>6. CASE Crash
  BY <1>6 DEF Crash, NewFsmState, EnteredInv
<1>7. CASE ~RunFsm /\ ~TakeActions /\ ~HandleAction /\ ~Crash
  <2>1. PipeSame
    BY <1>7, PipeOthers DEF PipeSame, Pipe
  <2>2. CASE UNCHANGED vars
    <3>1. fsm' = fsm /\ session' = session /\ UNCHANGED << events, outbox, timer, timerCmds >>
      BY <2>2 DEF vars
    <3> QED BY <1>2, <2>1, <3>1, SettledSame
  <2>3. CASE HandleHandshake \/ HandleQueue \/ HandleQueueSafe \/ HandleConnection
    BY <1>2, <2>1, <2>3, SettledCommands
  <2>4. CASE HandlerSend
    BY <1>0, <1>2, <2>1, <2>4, SettledSend
  <2>5. CASE Timer \/ TimerExpire
    BY <1>0, <1>2, <2>1, <2>5, SettledTimer
  <2>6. CASE HubMessage \/ LinkEvent \/ TopologyChange
    <3>1. fsm' = fsm /\ session' = session /\ UNCHANGED << events, outbox, timer, timerCmds >>
      BY <2>6 DEF HubMessage, LinkEvent, TopologyChange, Deliver, fsmVars, handlerVars, timerVars
    <3> QED BY <1>2, <2>1, <3>1, SettledSame
  <2> QED BY <1>7, <2>2, <2>3, <2>4, <2>5, <2>6 DEF Next, Handler, Environment
<1> QED BY <1>3, <1>4, <1>5, <1>6, <1>7

LEMMA EnteredAlways == Spec => [](PipeInv /\ EnteredInv)
<1>1. Init => EnteredInv
  BY DEF Init, NewFsmState, EnteredInv
<1> QED BY <1>1, EnteredStep, PipeAlways, PTL DEF Spec

\* When nothing is on its way, the state has been entered.
LEMMA QuietSettled ==
  ASSUME PipeInv, EnteredInv, Quiet
  PROVE  /\ fsm \in FsmState /\ Hierarchical(fsm)
         /\ InSession(fsm, session.state) /\ ~Asked(fsm) /\ (Waits(fsm) => Sleeping(timer))
<1>1. Pipe = << >> /\ doing = << >> /\ fsm.global # "Start"
  BY JoinEmpty DEF Quiet, Pipe
<1>2. ~Pending(<< >>, << >>, Moving, Entering(fsm))
  BY NothingPending
<1>3. Settled
  BY <1>1, <1>2, Zenon DEF EnteredInv
<1>4. \A E : ~OnItsWay(E)
  <2>1. \A E : NoneIn(<< >>, E)
    BY LastOfEmpty
  <2> QED BY <2>1 DEF Quiet, OnItsWay
<1>5. Running => Sleeping(timer)
  BY DEF Running, Quiet, Sleeping
<1> QED BY <1>3, <1>4, <1>5, PipeTyped DEF Settled

\* When nothing is on its way, the session of the handler is in the state of the machine, so
\* that it counts the messages of the hubs that the state is about: no vector of actions is
\* lost or overtaken between run_fsm and the handler.
THEOREM SessionFollowsCorrect == Spec => []SessionFollows
<1>1. PipeInv /\ EnteredInv => SessionFollows
  <2> SUFFICES ASSUME PipeInv, EnteredInv, Quiet
               PROVE  /\ fsm.global = "SafeMode" => session.state = "SafeMode"
                      /\ fsm.balance \in {"InHandshake", "OutHandshake"} => session.state = fsm.balance
                      /\ fsm.balance = "Quorum" => session.state = "RepeatHandshake"
                      /\ fsm.phase = "Alert"   => session.state = "PhaseAlert"
                      /\ fsm.phase = "Data"    => session.state = "PhaseData"
                      /\ fsm.phase = "Monitor" => session.state = "PhaseMonitor"
    BY DEF SessionFollows
  <2>1. fsm \in FsmState /\ Hierarchical(fsm) /\ InSession(fsm, session.state) /\ ~Asked(fsm)
    BY QuietSettled
  <2>2. fsm.balance = "Quorum" => fsm.quorum \in Repeats
    BY <2>1 DEF FsmState, Hierarchical, Asked, Checks, Repeats, SubStateQuorum, None
  <2> QED BY <2>1, <2>2 DEF InSession, Handshakes
<1> QED BY <1>1, EnteredAlways, PTL

\* The machine is never left waiting for nobody: when nothing is on its way in the balance or
\* the safe mode the watchdog is running, and its Timeout leaves the state.
THEOREM NeverStrandedCorrect == Spec => []NeverStranded
<1>1. PipeInv /\ EnteredInv => NeverStranded
  <2> SUFFICES ASSUME PipeInv, EnteredInv, Quiet, fsm.global \in {"BalanceMode", "SafeMode"}
               PROVE  Sleeping(timer) /\ Step(fsm, "Timeout") # {}
    BY DEF NeverStranded
  <2>1. fsm \in FsmState /\ Hierarchical(fsm) /\ ~Asked(fsm) /\ (Waits(fsm) => Sleeping(timer))
    BY QuietSettled
  <2>2. Waits(fsm)
    BY <2>1 DEF FsmState, Hierarchical, Asked, Waits, Checks, Repeats, Handshakes, SubStateBalanceMode, SubStateQuorum, None
  <2>3. "Timeout" \in Leaving(fsm)
    BY DEF Leaving
  <2> QED BY <2>1, <2>2, <2>3, StepHears
<1> QED BY <1>1, EnteredAlways, PTL

-----------------------------------------------------------------------------
(* The broker that stays *)

\* Without news of the broker the machine is never disconnected.
LEMMA NeverDisconnected ==
  ASSUME LinkInv, link = "Unknown"
  PROVE  fsm.global # "Disconnected"
<1>1. link \notin LinkKinds
  BY DEF LinkKinds
<1>2. ~LinkInCommands
  BY <1>1 DEF LinkInCommands, LinkCommands, LastIn
<1>3. ~LinkInOutbox
  BY <1>1 DEF LinkInOutbox
<1>4. ~LinkInEvents
  BY <1>1 DEF LinkInEvents, LastIn
<1> QED BY <1>2, <1>3, <1>4 DEF LinkInv, LinkHeard, LinkSeen

\* With no events of the broker there are no news of it, in no state.
LEMMA NoNews ==
  ASSUME MaxLinkEvents = 0
  PROVE  Spec => [](LinkInv /\ link = "Unknown")
<1>1. Init => LinkInv /\ link = "Unknown"
  BY LinkFresh DEF Init
<1>2. PipeInv /\ link = "Unknown" /\ [Next]_vars => (link = "Unknown")'
  <2> SUFFICES ASSUME PipeInv, link = "Unknown", [Next]_vars PROVE link' = "Unknown"
    OBVIOUS
  <2>1. ~LinkEvent
    BY DEF LinkEvent, PipeInv, TypeOK
  <2>2. CASE Crash
    BY <2>2 DEF Crash
  <2>3. CASE UNCHANGED vars
    BY <2>3 DEF vars
  <2>4. CASE RunFsm \/ TakeActions \/ HandlerSend
    BY <2>4 DEF RunFsm, FsmStart, FsmTurn, FsmUnblocked, TakeActions, HandlerSend, envVars
  <2>5. CASE HandleHandshake \/ HandleQueue \/ HandleQueueSafe \/ HandleConnection
    BY <2>5 DEF HandleHandshake, HandleQueue, HandleQueueSafe, HandleConnection, TakeCommand, envVars
  <2>6. CASE HandleAction
    BY <2>6, HandleActionPerforms DEF Perform
  <2>7. CASE Timer \/ TimerExpire
    BY <2>7 DEF Timer, TimerReceive, TimerFire, TimerExpire, envVars
  <2>8. CASE HubMessage \/ TopologyChange
    BY <2>8 DEF HubMessage, TopologyChange
  <2> QED BY <2>1, <2>2, <2>3, <2>4, <2>5, <2>6, <2>7, <2>8 DEF Next, Handler, Environment
<1>3. PipeInv /\ LinkInv /\ [Next]_vars => LinkInv'
  BY LinkStep
<1> QED BY <1>1, <1>2, <1>3, PipeAlways, PTL DEF Spec

-----------------------------------------------------------------------------
(* The transitions and the watchdog *)

\* The states that are entered without a watchdog: the start, the first balance and the check
\* of the first handshake; those that wait for the first handshake or for its repetition; those
\* after the balance; and those in which no more than one watchdog is still to be started.
Rest(s)   == s.global = "Start" \/ s.balance = "InitBalanceMode" \/ s.quorum = "CheckQuorumIn"
Greets(s) == s.balance = "InHandshake" \/ s.quorum = "RepeatHandshakeIn"
Over(s)   == s.global \in {"SafeMode", "Normal"}
Ending(s) == s.quorum = "RepeatHandshakeOut" \/ Over(s)

\* The states that a transition between the two handshakes can come from.
LEMMA StepSources ==
  ASSUME NEW s \in FsmState, Hierarchical(s), NEW e \in Event, NEW t \in Step(s, e)
  PROVE  /\ t.to.quorum = "CheckQuorumIn" => Greets(s)
         /\ t.to.quorum = "RepeatHandshakeIn" => t.to = s \/ s.quorum = "CheckQuorumIn"
         /\ t.to.quorum = "CheckQuorumOut" => s.balance = "OutHandshake" \/ s.quorum = "RepeatHandshakeOut"
         /\ t.to.quorum = "RepeatHandshakeOut" => t.to = s \/ s.quorum = "CheckQuorumOut"
         /\ t.to.phase = "Alert" => Greets(s) \/ s.quorum = "CheckQuorumIn"
         /\ t.to.global = "SafeMode" => Asked(s)
<1>1. PICK i \in StepInner(s, e) : t.to = i.to
  BY TransitionOf, ZenonT(60)
<1> DEFINE u == t.to
           Good == /\ u.quorum = "CheckQuorumIn" => Greets(s)
                   /\ u.quorum = "RepeatHandshakeIn" => u = s \/ s.quorum = "CheckQuorumIn"
                   /\ u.quorum = "CheckQuorumOut" => s.balance = "OutHandshake" \/ s.quorum = "RepeatHandshakeOut"
                   /\ u.quorum = "RepeatHandshakeOut" => u = s \/ s.quorum = "CheckQuorumOut"
                   /\ u.phase = "Alert" => Greets(s) \/ s.quorum = "CheckQuorumIn"
                   /\ u.global = "SafeMode" => Asked(s)
<1>2. ASSUME NEW x, NEW as, i \in Valid(x, as)
      PROVE  u = x
  BY <1>1, <1>2, ValidFields
<1>h. (s.balance # None) = (s.global = "BalanceMode") /\ (s.quorum # None) = (s.balance = "Quorum") /\ (s.phase # None) = (s.balance = "Phase")
  BY DEF Hierarchical
<1>f. s \in FsmState
  OBVIOUS
<1> USE DEF Invalid, None
<1>3. CASE s.global # "BalanceMode"
  <2>0. s.quorum = None /\ s.phase = None
    BY <1>3, <1>h
  <2>1. CASE s.global = "Start" \/ s.global = "Disconnected"
    <3>1. \E as : i \in Valid([s EXCEPT !.global = "BalanceMode", !.balance = "InitBalanceMode"], as)
      BY <2>1, Zenon DEF StepInner, StepStart, StepDisconnected
    <3>2. u = [s EXCEPT !.global = "BalanceMode", !.balance = "InitBalanceMode"]
      BY <1>2, <3>1
    <3> QED BY <1>f, <2>0, <3>2 DEF FsmState
  <2>2. CASE s.global = "Normal"
    <3>1. \E as : i \in Valid([s EXCEPT !.global = "Disconnected"], as)
      BY <2>2, Zenon DEF StepInner, StepNormal
    <3>2. u = [s EXCEPT !.global = "Disconnected"]
      BY <1>2, <3>1
    <3> QED BY <1>f, <2>0, <3>2 DEF FsmState
  <2>3. CASE s.global = "SafeMode"
    <3>1. \E g \in {"Disconnected", "Normal"} : \E as : i \in Valid([s EXCEPT !.global = g], as)
      BY <2>3 DEF StepInner, StepSafeMode
    <3>2. \E g \in {"Disconnected", "Normal"} : u = [s EXCEPT !.global = g]
      BY <1>2, <3>1
    <3> QED BY <1>f, <2>0, <3>2 DEF FsmState
  <2> QED BY <1>3, <2>1, <2>2, <2>3 DEF FsmState, StateGlobal
<1>4. CASE s.global = "BalanceMode"
  <2>0. i \in StepBalanceMode(s, e)
    BY <1>4 DEF StepInner
  <2>1. CASE e = "LocalDisconnected"
    <3>1. i \in Valid([global |-> "Disconnected", balance |-> None, quorum |-> None, phase |-> None],
               << Do("StopSendHeartbeatMessagePhase"), Do("StopTimer") >>)
      BY <2>0, <2>1 DEF StepBalanceMode
    <3>2. u = [global |-> "Disconnected", balance |-> None, quorum |-> None, phase |-> None]
      BY <1>2, <3>1
    <3> QED BY <3>2
  <2>2. CASE e # "LocalDisconnected" /\ s.balance = "InitBalanceMode"
    <3>1. i \in StepInitBalanceMode(s, e) /\ s.quorum = None /\ s.phase = None
      BY <2>0, <2>2, <1>h DEF StepBalanceMode
    <3>2. \E as : \/ i \in Valid([s EXCEPT !.balance = "InHandshake"], as)
                  \/ i \in Valid([s EXCEPT !.global = "SafeMode", !.balance = None], as)
      BY <3>1 DEF StepInitBalanceMode
    <3>3. u = [s EXCEPT !.balance = "InHandshake"] \/ u = [s EXCEPT !.global = "SafeMode", !.balance = None]
      BY <1>2, <3>2
    <3> QED BY <1>f, <2>2, <3>1, <3>3 DEF FsmState, Asked
  <2>3. CASE e # "LocalDisconnected" /\ s.balance = "InHandshake"
    <3>1. i \in StepInHandshake(s, e)
      BY <2>0, <2>3 DEF StepBalanceMode
    <3>2. Greets(s)
      BY <2>3 DEF Greets
    <3>3. \E as : \/ i \in Valid([s EXCEPT !.balance = "Quorum", !.quorum = "CheckQuorumIn"], as)
                  \/ i \in Valid(s, as)
                  \/ i \in Valid([s EXCEPT !.balance = "Phase", !.phase = "Alert", !.quorum = None], as)
      BY <3>1 DEF StepInHandshake, ApproveIn
    <3>4. \/ u = [s EXCEPT !.balance = "Quorum", !.quorum = "CheckQuorumIn"] \/ u = s
          \/ u = [s EXCEPT !.balance = "Phase", !.phase = "Alert", !.quorum = None]
      BY <1>2, <3>3
    <3> QED BY <1>f, <1>h, <1>4, <2>3, <3>2, <3>4 DEF FsmState
  <2>4. CASE e # "LocalDisconnected" /\ s.balance = "OutHandshake"
    <3>1. i \in StepOutHandshake(s, e)
      BY <2>0, <2>4 DEF StepBalanceMode
    <3>3. \E as : \/ i \in Valid([s EXCEPT !.balance = "Quorum", !.quorum = "CheckQuorumOut"], as)
                  \/ i \in Valid(s, as)
                  \/ i \in Valid([s EXCEPT !.global = "Normal", !.balance = None, !.quorum = None], as)
      BY <3>1 DEF StepOutHandshake, ApproveOut
    <3>4. \/ u = [s EXCEPT !.balance = "Quorum", !.quorum = "CheckQuorumOut"] \/ u = s
          \/ u = [s EXCEPT !.global = "Normal", !.balance = None, !.quorum = None]
      BY <1>2, <3>3
    <3> QED BY <1>f, <1>h, <1>4, <2>4, <3>4 DEF FsmState
  <2>5. CASE e # "LocalDisconnected" /\ s.balance = "Phase"
    <3>1. i \in StepPhase(s, e)
      BY <2>0, <2>5 DEF StepBalanceMode
    <3>3. \E as : \/ \E p \in {"Data", "Monitor"} : i \in Valid([s EXCEPT !.phase = p], as)
                  \/ i \in Valid([s EXCEPT !.balance = "OutHandshake", !.phase = None], as)
      BY <3>1 DEF StepPhase
    <3>4. \/ \E p \in {"Data", "Monitor"} : u = [s EXCEPT !.phase = p]
          \/ u = [s EXCEPT !.balance = "OutHandshake", !.phase = None]
      BY <1>2, <3>3
    <3> QED BY <1>f, <1>h, <1>4, <2>5, <3>4 DEF FsmState
  <2>6. CASE e # "LocalDisconnected" /\ s.balance = "Quorum"
    <3>1. i \in StepQuorum(s, e) /\ s.phase = None /\ s.quorum \in SubStateQuorum
      BY <2>0, <2>6, <1>h, <1>f DEF StepBalanceMode, FsmState
    <3> DEFINE in == [s EXCEPT !.balance = "Phase", !.phase = "Alert", !.quorum = None]
               out == [s EXCEPT !.global = "Normal", !.balance = None, !.quorum = None]
    <3>3. CASE s.quorum = "CheckQuorumIn"
      <4>1. \E as : \/ i \in Valid([s EXCEPT !.quorum = "RepeatHandshakeIn"], as) \/ i \in Valid(in, as)
                    \/ i \in Valid([s EXCEPT !.global = "SafeMode", !.balance = None, !.quorum = None], as)
        BY <3>1, <3>3 DEF StepQuorum, StepCheckQuorum, ApproveIn
      <4>2. \/ u = [s EXCEPT !.quorum = "RepeatHandshakeIn"] \/ u = in
            \/ u = [s EXCEPT !.global = "SafeMode", !.balance = None, !.quorum = None]
        BY <1>2, <4>1
      <4> QED BY <1>f, <3>1, <3>3, <4>2 DEF FsmState, Asked, Checks
    <3>4. CASE s.quorum = "CheckQuorumOut"
      <4>1. \E as : \/ i \in Valid([s EXCEPT !.quorum = "RepeatHandshakeOut"], as) \/ i \in Valid(out, as)
                    \/ i \in Valid([s EXCEPT !.global = "SafeMode", !.balance = None, !.quorum = None], as)
        BY <3>1, <3>4 DEF StepQuorum, StepCheckQuorum, ApproveOut
      <4>2. \/ u = [s EXCEPT !.quorum = "RepeatHandshakeOut"] \/ u = out
            \/ u = [s EXCEPT !.global = "SafeMode", !.balance = None, !.quorum = None]
        BY <1>2, <4>1
      <4> QED BY <1>f, <3>1, <3>4, <4>2 DEF FsmState, Asked, Checks
    <3>5. CASE s.quorum = "RepeatHandshakeIn"
      <4>1. \E as : \/ i \in Valid([s EXCEPT !.quorum = "CheckQuorumIn"], as) \/ i \in Valid(in, as) \/ i \in Valid(s, as)
        BY <3>1, <3>5 DEF StepQuorum, StepRepeatHandshake, ApproveIn
      <4>2. u = [s EXCEPT !.quorum = "CheckQuorumIn"] \/ u = in \/ u = s
        BY <1>2, <4>1
      <4> QED BY <1>f, <1>4, <3>1, <3>5, <4>2 DEF FsmState, Greets
    <3>6. CASE s.quorum = "RepeatHandshakeOut"
      <4>1. \E as : \/ i \in Valid([s EXCEPT !.quorum = "CheckQuorumOut"], as) \/ i \in Valid(out, as) \/ i \in Valid(s, as)
        BY <3>1, <3>6 DEF StepQuorum, StepRepeatHandshake, ApproveOut
      <4>2. u = [s EXCEPT !.quorum = "CheckQuorumOut"] \/ u = out \/ u = s
        BY <1>2, <4>1
      <4> QED BY <1>f, <1>4, <3>1, <3>6, <4>2 DEF FsmState
    <3> QED BY <3>1, <3>3, <3>4, <3>5, <3>6 DEF SubStateQuorum
  <2> QED BY <1>f, <1>h, <1>4, <2>1, <2>2, <2>3, <2>4, <2>5, <2>6 DEF FsmState, SubStateBalanceMode
<1> QED BY <1>3, <1>4

\* The actions that start the watchdog: of the first handshakes, of the states whose
\* transition stops it first, and of the last handshakes repeated and the safe mode.
Opening  == {OnEntry("OnEntryBalance", "InHandshake"), OnEntry("OnEntryQuorum", "RepeatHandshakeIn")}
Rearming == { OnEntry("OnEntryPhase", p) : p \in SubStatePhase } \cup {OnEntry("OnEntryBalance", "OutHandshake")}
Closing  == {OnEntry("OnEntryQuorum", "RepeatHandshakeOut"), Do("OnEntrySafeMode")}
Arming   == Opening \cup Rearming \cup Closing
Stopping == {Do("StopTimer")}

\* A vector starts the watchdog last, and stops it before unless it opens or closes.
Shaped(v) == Before(v, Arming, Action) /\ (NoneIn(v, Rearming) \/ ~NoneIn(v, Stopping))

\* What a transition out of s on e has to do with the watchdog.
Sends(s, e, u, v) ==
  /\ Shaped(v)
  /\ ~NoneIn(v, Opening) => Rest(s) /\ Asked(s)
  /\ ~NoneIn(v, Closing) => Asked(s) /\ Ending(u) /\ u.global # "Normal"
  /\ ~NoneIn(v, {Do("OnEntrySafeMode")}) => Over(u)
  /\ Asked(u) => s.global = "Start" \/ e = "Timeout"
  /\ Rest(u) => NoneIn(v, Arming) /\ (s.global = "Start" \/ (Greets(s) /\ e = "Timeout"))
  /\ Greets(u) \/ u.global = "SafeMode" => Asked(s) \/ (NoneIn(v, Arming) /\ u = s)
  /\ u.global = "Normal" => \/ NoneIn(v, Arming) /\ LastIn(v, Arming \cup Stopping, Stopping)
                            \/ /\ s.global = "SafeMode" /\ e \in {"Timeout", "QuorumSafeMode"}
                               /\ NoneIn(v, Arming \cup Stopping)
  /\ Ending(s) => NoneIn(v, Arming) /\ (e # "Timeout" => Ending(u))
  /\ Over(s) => Over(u)

\* Which of its actions start the watchdog.
LEMMA ArmingAre ==
  /\ Opening \subseteq Arming /\ Rearming \subseteq Arming /\ Closing \subseteq Arming
  /\ Arming \subseteq Action /\ Stopping \subseteq Action /\ Arming \cap Stopping = {}
  /\ Opening \cap Rearming = {} /\ Opening \cap Closing = {} /\ Rearming \cap Closing = {}
  /\ \A a \in {"StopTimer", "CalculateQuorum", "StopSendHeartbeatMessagePhase",
               "StopSendHeartbeatMessageSafeMode", "StopSendHeartbeatMessageNormal",
               "OnEntryNormal", "OnEntryDisconnected"} : Do(a) \notin Arming
  /\ \A b \in {"InitBalanceMode", "Quorum", "Phase"} : OnEntry("OnEntryBalance", b) \notin Arming
  /\ \A q \in Checks : OnEntry("OnEntryQuorum", q) \notin Arming
  /\ \A a \in {"CalculateQuorum", "StopSendHeartbeatMessagePhase", "StopSendHeartbeatMessageSafeMode",
               "StopSendHeartbeatMessageNormal", "OnEntryNormal", "OnEntryDisconnected"} : Do(a) \notin Stopping
  /\ \A a \in {"OnEntryBalance", "OnEntryQuorum", "OnEntryPhase"} : \A b : OnEntry(a, b) \notin Stopping
BY DEF Opening, Rearming, Closing, Arming, Stopping, OnEntry, Do, Action, Checks, SubStatePhase, SubStateQuorum,
       SubStateBalanceMode, None

\* A vector that does not start the watchdog.
LEMMA NoneArmed ==
  ASSUME NEW v, NoneIn(v, Arming), v \in Seq(Action)
  PROVE  Shaped(v) /\ NoneIn(v, Opening) /\ NoneIn(v, Closing) /\ NoneIn(v, Rearming) /\ NoneIn(v, {Do("OnEntrySafeMode")})
<1>1. NoneIn(v, Opening) /\ NoneIn(v, Closing) /\ NoneIn(v, Rearming)
  BY ArmingAre DEF NoneIn
<1>2. Do("OnEntrySafeMode") \in Arming
  BY DEF Arming, Closing
<1>3. NoneIn(v, {Do("OnEntrySafeMode")})
  BY <1>2 DEF NoneIn
<1>4. Before(v, Arming, Action)
  BY DEF Before, NoneIn
<1> QED BY <1>1, <1>3, <1>4 DEF Shaped

\* What is in lists of one, two and three.
LEMMA NoneArmedList ==
  ASSUME NEW a \in Action, NEW b \in Action, NEW c \in Action, NEW X
  PROVE  /\ a \notin X => NoneIn(<< a >>, X)
         /\ a \notin X /\ b \notin X => NoneIn(<< a, b >>, X)
         /\ a \notin X /\ b \notin X /\ c \notin X => NoneIn(<< a, b, c >>, X)
         /\ a \in X => ~NoneIn(<< a >>, X) /\ ~NoneIn(<< a, b >>, X)
         /\ b \in X => ~NoneIn(<< a, b >>, X) /\ ~NoneIn(<< a, b, c >>, X)
BY DEF NoneIn

\* The entry of the safe mode is one of those that close.
LEMMA SafeCloses ==
  ASSUME NEW v, NoneIn(v, Closing)
  PROVE  NoneIn(v, {Do("OnEntrySafeMode")})
BY DEF NoneIn, Closing

\* What every transition of a connected machine has to do with the watchdog.
LEMMA StepSends ==
  ASSUME NEW s \in FsmState, Hierarchical(s), NEW e \in Event, NEW t \in Step(s, e),
         s.global # "Disconnected", t.to.global # "Disconnected"
  PROVE  Sends(s, e, t.to, t.acts)
<1> DEFINE u == t.to
           v == t.acts
<1>1. Stays(s, e, u, v) \/ Moves(s, e, u, v)
  BY TransitionIs
<1>2. v \in Seq(Action)
  BY StepWellformed DEF Wellformed
<1>3. /\ (s.balance # None) = (s.global = "BalanceMode")
      /\ (s.quorum # None) = (s.balance = "Quorum")
      /\ (s.phase # None) = (s.balance = "Phase")
  BY DEF Hierarchical
<1>4. /\ u.quorum = "CheckQuorumIn" => Greets(s)
      /\ u.quorum = "RepeatHandshakeIn" => u = s \/ s.quorum = "CheckQuorumIn"
      /\ u.quorum = "CheckQuorumOut" => s.balance = "OutHandshake" \/ s.quorum = "RepeatHandshakeOut"
      /\ u.quorum = "RepeatHandshakeOut" => u = s \/ s.quorum = "CheckQuorumOut"
      /\ u.phase = "Alert" => Greets(s) \/ s.quorum = "CheckQuorumIn"
      /\ u.global = "SafeMode" => Asked(s)
  BY StepSources
<1>5. s.quorum # None => s.quorum \in SubStateQuorum
  BY DEF FsmState
<1>6. ASSUME NoneIn(v, Arming)
      PROVE  Shaped(v) /\ NoneIn(v, Opening) /\ NoneIn(v, Closing) /\ NoneIn(v, Rearming) /\ NoneIn(v, {Do("OnEntrySafeMode")})
  BY <1>2, <1>6, NoneArmed
<1>7. PICK Stop, Phased, Count, Safe, Enter :
        /\ Stop = Do("StopTimer") /\ Phased = Do("StopSendHeartbeatMessagePhase") /\ Count = Do("CalculateQuorum")
        /\ Safe = Do("StopSendHeartbeatMessageSafeMode") /\ Enter = Do("OnEntryNormal")
  OBVIOUS
<1>8. /\ Stop \in Action \ Arming /\ Phased \in Action \ Arming /\ Count \in Action \ Arming
      /\ Safe \in Action \ Arming /\ Enter \in Action \ Arming
      /\ Safe \notin Stopping /\ Enter \notin Stopping /\ Stop \in Stopping
  BY <1>7, ActionTypes, ArmingAre DEF Stopping
<1> SUFFICES Sends(s, e, u, v)
  OBVIOUS
<1> HIDE DEF u, v
<1>10. CASE Stays(s, e, u, v)
  <2>1. u = s /\ e # "Timeout" /\ (v = << >> \/ v = << Count >>)
    BY <1>7, <1>10 DEF Stays
  <2>a. NoneIn(<< >>, Arming) /\ NoneIn(<< Count >>, Arming)
    BY <1>8, NoneArmedList, LastOfEmpty
  <2>2. NoneIn(v, Arming)
    BY <2>1, <2>a, Zenon
  <2>3. ~Asked(s) /\ ~Rest(s) /\ ~Over(s) /\ s.global # "Normal"
    BY <1>10 DEF Stays, Asked, Rest, Over, Balance, Quorum, Handshakes, Repeats, Checks, None
  <2> QED BY <1>6, <2>1, <2>2, <2>3 DEF Sends
<1>11. CASE ToInit(s, e, u, v)
  <2>1. u = Balance("InitBalanceMode") /\ v = << OnEntry("OnEntryBalance", "InitBalanceMode") >> /\ s.global = "Start"
    BY <1>11 DEF ToInit, Global
  <2>2. OnEntry("OnEntryBalance", "InitBalanceMode") \in Action \ Arming
    BY ActionTypes, ArmingAre DEF SubStateBalanceMode
  <2>3. NoneIn(v, Arming)
    BY <2>1, <2>2, NoneArmedList
  <2>4. ~Greets(u) /\ ~Over(u) /\ ~Over(s) /\ ~Ending(s) /\ u.global = "BalanceMode"
    BY <1>3, <2>1 DEF Greets, Over, Ending, Balance, None
  <2> QED BY <1>6, <2>1, <2>3, <2>4 DEF Sends
<1>12. CASE ToInHandshake(s, e, u, v)
  <2>1. s = Balance("InitBalanceMode") /\ u = Balance("InHandshake") /\ v = << OnEntry("OnEntryBalance", "InHandshake") >>
    BY <1>12 DEF ToInHandshake
  <2>2. PICK a : a = OnEntry("OnEntryBalance", "InHandshake")
    OBVIOUS
  <2>3. a \in Action /\ a \in Opening /\ a \notin Closing /\ a \notin Rearming /\ v = << a >>
    BY <2>1, <2>2, ActionTypes, ArmingAre DEF Opening, SubStateBalanceMode
  <2>4. NoneIn(v, Closing) /\ NoneIn(v, Rearming) /\ Before(v, Arming, Action)
    BY <2>3, NoneArmedList, BeforeOfList
  <2>5. Rest(s) /\ Asked(s) /\ ~Asked(u) /\ ~Rest(u) /\ ~Over(u) /\ ~Ending(s) /\ ~Over(s) /\ u.global # "Normal"
    BY <2>1 DEF Rest, Asked, Over, Ending, Balance, Checks, None
  <2>6. NoneIn(v, {Do("OnEntrySafeMode")})
    BY <2>4 DEF NoneIn, Closing
  <2> QED BY <2>4, <2>5, <2>6 DEF Sends, Shaped
<1>13. CASE ToSafeMode(s, e, u, v)
  <2>1. s.global = "BalanceMode" /\ s.phase = None /\ u = Global("SafeMode") /\ v = << Do("OnEntrySafeMode") >> /\ e # "Timeout"
    BY <1>13 DEF ToSafeMode
  <2>2. PICK a : a = Do("OnEntrySafeMode")
    OBVIOUS
  <2>3. a \in Action /\ a \in Closing /\ a \notin Opening /\ a \notin Rearming /\ v = << a >>
    BY <2>1, <2>2, ActionTypes, ArmingAre DEF Closing
  <2>4. NoneIn(v, Opening) /\ NoneIn(v, Rearming) /\ Before(v, Arming, Action)
    BY <2>3, NoneArmedList, BeforeOfList
  <2>5. u.global = "SafeMode" /\ Asked(s) /\ Ending(u) /\ Over(u) /\ ~Asked(u) /\ ~Rest(u)
    BY <1>4, <2>1 DEF Rest, Asked, Over, Ending, Global, Checks, None
  <2>6. ~Ending(s) /\ ~Over(s)
    BY <1>3, <2>1, <2>5 DEF Ending, Over, Asked, Checks, None
  <2> QED BY <2>4, <2>5, <2>6 DEF Sends, Shaped
<1>14. CASE ToCheck(s, e, u, v)
  <2>1. PICK q \in Checks : /\ s.global = "BalanceMode" /\ s.phase = None /\ e = "Timeout" /\ u = Quorum(q)
                            /\ \/ v = << OnEntry("OnEntryQuorum", q) >>
                               \/ v = << OnEntry("OnEntryBalance", "Quorum"), OnEntry("OnEntryQuorum", q) >>
    BY <1>14 DEF ToCheck
  <2>2. PICK a, b : a = OnEntry("OnEntryBalance", "Quorum") /\ b = OnEntry("OnEntryQuorum", q)
    OBVIOUS
  <2>a. a \in Action \ Arming /\ b \in Action \ Arming /\ (v = << b >> \/ v = << a, b >>)
    BY <2>1, <2>2, ActionTypes, ArmingAre DEF SubStateBalanceMode, SubStateQuorum, Checks
  <2>b. NoneIn(<< b >>, Arming) /\ NoneIn(<< a, b >>, Arming)
    BY <2>a, NoneArmedList
  <2>3. NoneIn(v, Arming)
    BY <2>a, <2>b, Zenon
  <2>4. ~Greets(u) /\ ~Over(u) /\ ~Over(s) /\ u.global = "BalanceMode" /\ (Rest(u) => u.quorum = "CheckQuorumIn")
    BY <2>1 DEF Greets, Over, Rest, Quorum, Checks
  <2> QED BY <1>4, <1>6, <2>1, <2>3, <2>4 DEF Sends
<1>15. CASE ToRepeat(s, e, u, v)
  <2>1. PICK q \in Repeats : /\ s.global = "BalanceMode" /\ s.phase = None /\ e = "NotApproveQuorum"
                             /\ u = Quorum(q) /\ v = << OnEntry("OnEntryQuorum", q) >>
    BY <1>15 DEF ToRepeat
  <2>2. PICK a : a = OnEntry("OnEntryQuorum", q)
    OBVIOUS
  <2>3. /\ a \in Action /\ a \notin Rearming /\ v = << a >>
        /\ q = "RepeatHandshakeIn" => a \in Opening /\ a \notin Closing
        /\ q = "RepeatHandshakeOut" => a \in Closing /\ a \notin Opening
    <3>1. a \in Action
      BY <2>2, ActionTypes DEF SubStateQuorum, Repeats
    <3>2. q = "RepeatHandshakeIn" => a \in Opening
      BY <2>2 DEF Opening
    <3>3. q = "RepeatHandshakeOut" => a \in Closing
      BY <2>2 DEF Closing
    <3> QED BY <2>1, <2>2, <3>1, <3>2, <3>3, ArmingAre DEF Repeats
  <2>4. /\ Before(v, Arming, Action) /\ NoneIn(v, Rearming)
        /\ q = "RepeatHandshakeIn" => NoneIn(v, Closing)
        /\ q = "RepeatHandshakeOut" => NoneIn(v, Opening)
    BY <2>3, NoneArmedList, BeforeOfList
  <2>5. /\ u.quorum = q /\ u.global = "BalanceMode" /\ ~Asked(u) /\ ~Rest(u) /\ ~Over(u) /\ ~Over(s)
        /\ q = "RepeatHandshakeIn" => ~Ending(u)
        /\ q = "RepeatHandshakeOut" => Ending(u) /\ ~Greets(u)
    BY <2>1 DEF Quorum, Asked, Rest, Over, Ending, Greets, Checks, Repeats
  <2>6. NoneIn(v, {Do("OnEntrySafeMode")})
    <3>1. a # Do("OnEntrySafeMode")
      BY <2>2 DEF OnEntry, Do
    <3> QED BY <2>3, <3>1, NoneArmedList
  <2>7. CASE u = s
    <3>1. PICK i \in StepInner(s, e) : t.to = i.to /\ t.acts = i.acts \o ComputeOnEntry(s, i.to)
      BY TransitionOf, ZenonT(60)
    <3>2. s.global = "BalanceMode" /\ s.balance = "Quorum" /\ s.quorum = q /\ e = "NotApproveQuorum"
      BY <2>1, <2>7 DEF Quorum
    <3>3. i \in StepQuorum(s, e)
      BY <3>1, <3>2 DEF StepInner, StepBalanceMode
    <3>4. i \in Valid(s, << >>)
      BY <3>2, <3>3 DEF StepQuorum, StepRepeatHandshake, Repeats
    <3>5. i.to = s /\ i.acts = << >>
      BY <3>4, ValidFields
    <3>6. << >> \o ComputeOnEntry(s, s) = << >>
      BY Vectors
    <3>7. v = << >>
      BY <3>1, <3>5, <3>6, Zenon DEF v
    <3>8. << a >> # << >>
      OBVIOUS
    <3> QED BY <2>3, <3>7, <3>8, Zenon
  <2>8. CASE u # s
    <3>1. /\ q = "RepeatHandshakeIn" => s.quorum = "CheckQuorumIn"
          /\ q = "RepeatHandshakeOut" => s.quorum = "CheckQuorumOut"
      BY <1>4, <2>5, <2>8
    <3>2. Asked(s) /\ ~Ending(s) /\ (q = "RepeatHandshakeIn" => Rest(s))
      BY <2>1, <2>5, <3>1 DEF Asked, Ending, Rest, Checks, Repeats
    <3> QED BY <2>1, <2>4, <2>5, <2>6, <3>2 DEF Sends, Shaped, Repeats
  <2> QED BY <2>7, <2>8
<1>16. CASE ToAlert(s, e, u, v)
  <2>1. /\ s.global = "BalanceMode" /\ s.phase = None /\ e = "ApproveQuorum" /\ u = Phase("Alert")
        /\ v = << Do("StopTimer"), OnEntry("OnEntryBalance", "Phase"), OnEntry("OnEntryPhase", "Alert") >>
    BY <1>16 DEF ToAlert
  <2>2. PICK a, b, c : a = Do("StopTimer") /\ b = OnEntry("OnEntryBalance", "Phase") /\ c = OnEntry("OnEntryPhase", "Alert")
    OBVIOUS
  <2>3. /\ a \in Action \ Arming /\ a \in Stopping /\ b \in Action \ Arming /\ c \in Action /\ c \in Rearming
        /\ v = << a, b, c >>
    BY <2>1, <2>2, ActionTypes, ArmingAre DEF Stopping, Rearming, SubStateBalanceMode, SubStatePhase
  <2>4. NoneIn(v, Opening) /\ NoneIn(v, Closing) /\ Before(v, Arming, Action)
    BY <2>3, ArmingAre, NoneArmedList, BeforeOfList
  <2>5. ~NoneIn(v, Stopping)
    BY <2>3 DEF NoneIn
  <2>6. ~Asked(u) /\ ~Rest(u) /\ ~Greets(u) /\ ~Over(u) /\ u.global # "Normal"
    BY <2>1 DEF Phase, Asked, Rest, Greets, Over, Checks, None
  <2>7. ~Ending(s) /\ ~Over(s)
    <3>1. Greets(s) \/ s.quorum = "CheckQuorumIn"
      BY <1>4, <2>1 DEF Phase
    <3> QED BY <1>3, <2>1, <3>1 DEF Ending, Over, Greets, None
  <2> QED BY <2>4, <2>5, <2>6, <2>7, SafeCloses DEF Sends, Shaped, Over
<1>17. CASE ToNextPhase(s, e, u, v)
  <2>1. PICK p \in {"Data", "Monitor"} : /\ s.balance = "Phase" /\ s.global = "BalanceMode"
                                         /\ u = Phase(p) /\ v = << Do("StopTimer"), OnEntry("OnEntryPhase", p) >>
    BY <1>17 DEF ToNextPhase
  <2>2. PICK a, b : a = Do("StopTimer") /\ b = OnEntry("OnEntryPhase", p)
    OBVIOUS
  <2>3. /\ a \in Action \ Arming /\ a \in Stopping /\ b \in Action /\ b \in Rearming
        /\ v = << a, b >>
    BY <2>1, <2>2, ActionTypes, ArmingAre DEF Stopping, Rearming, SubStatePhase
  <2>4. NoneIn(v, Opening) /\ NoneIn(v, Closing) /\ Before(v, Arming, Action)
    BY <2>3, ArmingAre, NoneArmedList, BeforeOfList
  <2>5. ~NoneIn(v, Stopping)
    BY <2>3 DEF NoneIn
  <2>6. ~Asked(u) /\ ~Rest(u) /\ ~Greets(u) /\ ~Over(u) /\ u.global # "Normal"
    BY <2>1 DEF Phase, Asked, Rest, Greets, Over, Checks, None
  <2>7. ~Ending(s) /\ ~Over(s)
    BY <1>3, <2>1 DEF Ending, Over, None
  <2> QED BY <2>4, <2>5, <2>6, <2>7, SafeCloses DEF Sends, Shaped, Over
<1>18. CASE ToOutHandshake(s, e, u, v)
  <2>1. /\ s = Phase("Monitor") /\ u = Balance("OutHandshake")
        /\ v = << Do("StopSendHeartbeatMessagePhase"), Do("StopTimer"), OnEntry("OnEntryBalance", "OutHandshake") >>
    BY <1>18 DEF ToOutHandshake
  <2>2. PICK b : b = OnEntry("OnEntryBalance", "OutHandshake")
    OBVIOUS
  <2>3. b \in Action /\ b \in Rearming /\ v = << Phased, Stop, b >>
    BY <1>7, <2>1, <2>2, ActionTypes DEF Rearming, SubStateBalanceMode
  <2>4. NoneIn(v, Opening) /\ NoneIn(v, Closing) /\ Before(v, Arming, Action)
    BY <1>8, <2>3, ArmingAre, NoneArmedList, BeforeOfList, ZenonT(60)
  <2>5. ~NoneIn(v, Stopping)
    BY <1>8, <2>3, NoneArmedList
  <2>6. ~Asked(u) /\ ~Rest(u) /\ ~Greets(u) /\ ~Over(u) /\ u.global # "Normal"
    BY <2>1 DEF Balance, Asked, Rest, Greets, Over, Checks, None
  <2>7. ~Ending(s) /\ ~Over(s)
    BY <2>1 DEF Phase, Ending, Over, None
  <2> QED BY <2>4, <2>5, <2>6, <2>7, SafeCloses DEF Sends, Shaped, Over
<1>19. CASE ToNormal(s, e, u, v)
  <2>1. u = Global("Normal")
    BY <1>19 DEF ToNormal
  <2>2. u.global = "Normal" /\ Over(u) /\ Ending(u) /\ ~Asked(u) /\ ~Rest(u) /\ ~Greets(u)
    BY <2>1 DEF Global, Over, Ending, Asked, Rest, Greets, Checks, None
  <2>3. CASE s.global = "BalanceMode" /\ s.phase = None /\ e = "ApproveQuorum" /\ v = << Do("StopTimer"), Do("OnEntryNormal") >>
    <3>1. v = << Stop, Enter >>
      BY <1>7, <2>3
    <3>2. NoneIn(v, Arming)
      BY <1>8, <3>1, NoneArmedList
    <3>3. LastIn(v, Arming \cup Stopping, Stopping)
      BY <1>8, <3>1, LastOfList
    <3> QED BY <1>6, <2>2, <2>3, <3>2, <3>3 DEF Sends
  <2>4. CASE /\ s = Global("SafeMode") /\ e \in {"Timeout", "QuorumSafeMode"}
             /\ v = << Do("StopSendHeartbeatMessageSafeMode"), Do("OnEntryNormal") >>
    <3>1. v = << Safe, Enter >> /\ s.global = "SafeMode"
      BY <1>7, <2>4 DEF Global
    <3>2. NoneIn(v, Arming \cup Stopping) /\ NoneIn(v, Arming)
      BY <1>8, <3>1, NoneArmedList
    <3> QED BY <1>6, <2>2, <2>4, <3>1, <3>2 DEF Sends
  <2> QED BY <1>19, <2>3, <2>4 DEF ToNormal
<1>20. CASE ToDisconnected(s, e, u, v)
  BY <1>20 DEF ToDisconnected, Global, u
<1> QED BY <1>1, <1>10, <1>11, <1>12, <1>13, <1>14, <1>15, <1>16, <1>17, <1>18, <1>19, <1>20 DEF Moves, u, v

-----------------------------------------------------------------------------
(* The queue of the watchdog *)

\* Of a watchdog in state tm and the commands q in its channel: it is stopped, or the last
\* command will stop it; the InitTimer at i finds it stopped; all do; all but the last.
Low(tm, q)        == IF q # << >> THEN Newest(q) = "StopTimer" ELSE tm \in {"idle", "firing"}
Guarded(tm, q, i) == IF i = 1 THEN tm \in {"idle", "firing"} ELSE q[i - 1] = "StopTimer"
AllGuarded(tm, q) == \A i \in DOMAIN q : q[i] = "InitTimer" => Guarded(tm, q, i)
LastOpen(tm, q)   ==
  \A i \in DOMAIN q : q[i] = "InitTimer" => \/ Guarded(tm, q, i)
                                            \/ \A j \in DOMAIN q : q[j] = "InitTimer" => j <= i
NoInit(q)         == \A i \in DOMAIN q : q[i] # "InitTimer"

\* The watchdog receives a command.
LEMMA QueueReceive ==
  ASSUME NEW q \in Seq(TimerCommand), q # << >>, NEW tm, Listening(tm), NEW u, u = Received(tm, Head(q))
  PROVE  /\ u \in {"idle", "active", "deaf"}
         /\ Low(tm, q) => Low(u, Tail(q))
         /\ AllGuarded(tm, q) => u # "deaf" /\ AllGuarded(u, Tail(q))
         /\ LastOpen(tm, q) => (u # "deaf" /\ LastOpen(u, Tail(q))) \/ NoInit(Tail(q))
         /\ NoInit(q) => NoInit(Tail(q))
<1>1. PICK r : r = Tail(q)
  OBVIOUS
<1>2. /\ Head(q) = q[1] /\ q[1] \in TimerCommand /\ 1 \in DOMAIN q /\ r \in Seq(TimerCommand)
      /\ \A i \in DOMAIN r : i \in Nat \ {0} /\ i + 1 \in DOMAIN q /\ r[i] = q[i + 1]
  BY <1>1, TailElements
<1>d. \A i \in DOMAIN q : i \in Nat \ {0}
  BY EmptyLength
<1>3. /\ q[1] = "StopTimer" => u = "idle"
      /\ q[1] = "InitTimer" => u = (IF tm = "idle" THEN "active" ELSE "deaf")
      /\ tm \in {"idle", "active"} /\ (q[1] = "StopTimer" \/ q[1] = "InitTimer")
  BY <1>2 DEF Received, Listening, TimerCommand
<1>4. Low(tm, q) => Low(u, r)
  <2>1. (r # << >> => Newest(r) = Newest(q)) /\ (r = << >> => Newest(q) = Head(q))
    BY <1>1, NewestOfTail
  <2> QED BY <1>2, <1>3, <2>1 DEF Low
<1>5. ASSUME NEW i \in DOMAIN r, Guarded(tm, q, i + 1)
      PROVE  Guarded(u, r, i)
  <2>1. q[i] = "StopTimer"
    BY <1>2, <1>5 DEF Guarded
  <2>2. CASE i = 1
    BY <1>3, <2>1, <2>2 DEF Guarded
  <2>3. CASE i # 1
    <3>1. i - 1 \in DOMAIN r /\ r[i - 1] = q[i]
      <4>1. i - 1 \in DOMAIN r
        BY <1>2, <2>3, EmptyLength
      <4>2. r[i - 1] = q[(i - 1) + 1]
        BY <1>2, <4>1
      <4>3. (i - 1) + 1 = i
        BY <1>2
      <4> QED BY <4>1, <4>2, <4>3
    <3> QED BY <2>1, <2>3, <3>1 DEF Guarded
  <2> QED BY <2>2, <2>3
<1>6. AllGuarded(tm, q) => u # "deaf" /\ AllGuarded(u, r)
  <2> SUFFICES ASSUME AllGuarded(tm, q) PROVE u # "deaf" /\ AllGuarded(u, r)
    OBVIOUS
  <2>1. q[1] = "InitTimer" => tm = "idle"
    BY <1>2, <1>3 DEF AllGuarded, Guarded
  <2> QED BY <1>2, <1>3, <1>5, <2>1 DEF AllGuarded
<1>7. LastOpen(tm, q) => (u # "deaf" /\ LastOpen(u, r)) \/ NoInit(r)
  <2> SUFFICES ASSUME LastOpen(tm, q) PROVE (u # "deaf" /\ LastOpen(u, r)) \/ NoInit(r)
    OBVIOUS
  <2>1. CASE q[1] = "InitTimer" /\ tm # "idle"
    <3>1. \A j \in DOMAIN q : q[j] = "InitTimer" => j <= 1
      BY <1>2, <1>3, <2>1 DEF LastOpen, Guarded
    <3>2. \A i \in DOMAIN r : ~(i + 1 <= 1)
      BY <1>2
    <3> QED BY <1>2, <3>1, <3>2 DEF NoInit
  <2>2. CASE q[1] # "InitTimer" \/ tm = "idle"
    <3>1. u # "deaf"
      BY <1>3, <2>2
    <3>2. ASSUME NEW i \in DOMAIN r, r[i] = "InitTimer", ~Guarded(u, r, i), NEW j \in DOMAIN r, r[j] = "InitTimer"
          PROVE  j <= i
      <4>1. j + 1 <= i + 1
        BY <1>2, <1>5, <3>2 DEF LastOpen
      <4> QED BY <1>2, <4>1
    <3> QED BY <3>1, <3>2 DEF LastOpen
  <2> QED BY <2>1, <2>2
<1>8. NoInit(q) => NoInit(r)
  BY <1>2 DEF NoInit
<1>9. u \in {"idle", "active", "deaf"}
  BY <1>3
<1> QED BY <1>1, <1>4, <1>6, <1>7, <1>8, <1>9, Zenon

\* The handler sends it a command.
LEMMA QueueSend ==
  ASSUME NEW q \in Seq(TimerCommand), NEW tm
  PROVE  /\ Low(tm, Append(q, "StopTimer"))
         /\ AllGuarded(tm, q) => AllGuarded(tm, Append(q, "StopTimer"))
         /\ LastOpen(tm, q) => LastOpen(tm, Append(q, "StopTimer"))
         /\ NoInit(q) => NoInit(Append(q, "StopTimer"))
         /\ AllGuarded(tm, q) /\ Low(tm, q) => AllGuarded(tm, Append(q, "InitTimer"))
         /\ AllGuarded(tm, q) => LastOpen(tm, Append(q, "InitTimer"))
<1>1. PICK n \in Nat : n = Len(q)
  BY EmptyLength
<1>2. PICK a, b : a = Append(q, "StopTimer") /\ b = Append(q, "InitTimer")
  OBVIOUS
<1>3. /\ DOMAIN q = 1 .. n /\ DOMAIN a = 1 .. n + 1 /\ a[n + 1] = "StopTimer" /\ \A i \in 1 .. n : a[i] = q[i]
      /\ DOMAIN b = 1 .. n + 1 /\ b[n + 1] = "InitTimer" /\ \A i \in 1 .. n : b[i] = q[i]
  BY <1>1, <1>2 DEF TimerCommand
<1>4. Low(tm, a)
  <2>1. "StopTimer" \in TimerCommand
    BY DEF TimerCommand
  <2>2. Newest(a) = "StopTimer" /\ a # << >>
    BY <1>2, <2>1, NewestOfAppend
  <2> QED BY <2>2 DEF Low
<1>5. ASSUME NEW i \in 1 .. n, Guarded(tm, q, i)
      PROVE  Guarded(tm, a, i) /\ Guarded(tm, b, i)
  <2>1. i # 1 => i - 1 \in 1 .. n
    OBVIOUS
  <2> QED BY <1>3, <1>5, <2>1 DEF Guarded
<1>6. AllGuarded(tm, q) => AllGuarded(tm, a)
  BY <1>3, <1>5 DEF AllGuarded
<1>7. LastOpen(tm, q) => LastOpen(tm, a)
  <2> SUFFICES ASSUME LastOpen(tm, q),
                      NEW i \in DOMAIN a, a[i] = "InitTimer", ~Guarded(tm, a, i), NEW j \in DOMAIN a, a[j] = "InitTimer"
               PROVE  j <= i
    BY DEF LastOpen
  <2>1. i \in DOMAIN q /\ j \in DOMAIN q /\ q[i] = "InitTimer" /\ q[j] = "InitTimer"
    BY <1>3
  <2> QED BY <1>3, <1>5, <2>1 DEF LastOpen
<1>8. NoInit(q) => NoInit(a)
  BY <1>3 DEF NoInit
<1>9. AllGuarded(tm, q) /\ Low(tm, q) => AllGuarded(tm, b)
  <2> SUFFICES ASSUME AllGuarded(tm, q), Low(tm, q), NEW i \in DOMAIN b, b[i] = "InitTimer" PROVE Guarded(tm, b, i)
    BY DEF AllGuarded
  <2>1. CASE i \in 1 .. n
    BY <1>3, <1>5, <2>1 DEF AllGuarded
  <2>2. CASE i = n + 1
    <3>1. q = << >> <=> n = 0
      BY <1>1, EmptyLength
    <3>2. n # 0 => q[n] = "StopTimer" /\ b[n] = q[n] /\ i # 1 /\ i - 1 = n
      BY <1>1, <1>3, <2>2, <3>1 DEF Low, Newest
    <3>3. n = 0 => i = 1 /\ tm \in {"idle", "firing"}
      BY <2>2, <3>1 DEF Low
    <3> QED BY <3>2, <3>3 DEF Guarded
  <2> QED BY <1>3, <2>1, <2>2
<1>10. AllGuarded(tm, q) => LastOpen(tm, b)
  <2> SUFFICES ASSUME AllGuarded(tm, q),
                      NEW i \in DOMAIN b, b[i] = "InitTimer", ~Guarded(tm, b, i), NEW j \in DOMAIN b, b[j] = "InitTimer"
               PROVE  j <= i
    BY DEF LastOpen
  <2>1. i = n + 1
    BY <1>3, <1>5 DEF AllGuarded
  <2> QED BY <1>3, <2>1
<1> QED BY <1>2, <1>4, <1>6, <1>7, <1>8, <1>9, <1>10, Zenon

\* The sleep of the watchdog ends, or its Timeout is sent.
LEMMA QueueSleep ==
  ASSUME NEW q \in Seq(TimerCommand), NEW tm, NEW u \in {"idle", "firing"}
  PROVE  /\ Low(tm, q) => Low(u, q)
         /\ AllGuarded(tm, q) => AllGuarded(u, q)
         /\ NoInit(q) => AllGuarded(u, q) /\ Low(u, q)
         /\ AllGuarded(u, << >>) /\ Low(u, << >>)
<1>1. Low(tm, q) => Low(u, q)
  BY DEF Low
<1>2. AllGuarded(tm, q) => AllGuarded(u, q)
  BY DEF AllGuarded, Guarded
<1>3. NoInit(q) => AllGuarded(u, q) /\ Low(u, q)
  <2>1. q # << >> => Len(q) \in DOMAIN q /\ q[Len(q)] \in TimerCommand
    OBVIOUS
  <2> QED BY <2>1 DEF NoInit, AllGuarded, Low, Newest, TimerCommand
<1>4. AllGuarded(u, << >>) /\ Low(u, << >>)
  BY DEF AllGuarded, Low
<1> QED BY <1>1, <1>2, <1>3, <1>4

-----------------------------------------------------------------------------
(* The watchdog in the normal mode *)

StartsTimer == ToTimer("InitTimer")
StopsTimer  == ToTimer("StopTimer")

\* A Timeout is on its way to run_fsm.
Fired == timer = "firing" \/ ~NoneIn(events, {"Timeout"})

\* The last command that was given to the watchdog stops it; and none will start it.
Down == \/ outbox # << >> /\ Newest(outbox) = StopsTimer
        \/ Silent /\ Low(timer, timerCmds)
Calm == Done(Pipe, doing, Arming) /\ Down

\* There is one Timeout at a time.
OneTimeout == /\ \A i, j \in DOMAIN events : events[i] = "Timeout" /\ events[j] = "Timeout" => i = j
              /\ timer = "firing" => NoneIn(events, {"Timeout"})

\* The handler sends no Timeout, and what it sends after the first message stops the watchdog.
Tidy == \A i \in DOMAIN outbox : outbox[i] # ToFsm("Timeout") /\ (i = 1 \/ outbox[i] = StopsTimer)

\* No Timeout is on its way while the machine waits for an answer of the handler.
AskedClear == fsm.global = "Start" \/ Asked(fsm) => ~Fired

\* A Timeout of the first handshakes or of the safe mode is that of their own watchdog.
RestsCalm == /\ Rest(fsm) => Calm
             /\ (Greets(fsm) \/ fsm.global = "SafeMode") /\ Fired => Calm

\* The quorum of the safe mode stops the watchdog, and is only counted in the safe mode.
SafeCalm == /\ ~Done(Pipe, doing, {Do("OnEntrySafeMode")}) => Over(fsm)
            /\ session.state = "SafeMode" => Over(fsm) /\ Done(Pipe, doing, Arming)
            /\ OnItsWay({"QuorumSafeMode"}) => Over(fsm) /\ Calm

\* In the normal mode the last action that matters to the watchdog, done or to be done, stops it.
NormalStops == fsm.global = "Normal" => Pending(Pipe, doing, Arming \cup Stopping, Stopping) \/ Calm

\* The vectors that open come first and those that close last; the others stop the watchdog
\* before they start it.
OrderInv  == /\ Before(Pipe, Busy(Arming), Busy(Opening)) /\ Before(Pipe, Busy(Closing), Busy(Arming))
             /\ ~NoneIn(doing, Arming) => NoneIn(Pipe, Busy(Opening))
             /\ ~NoneIn(doing, Closing) => NoneIn(Pipe, Busy(Arming))

\* Every vector, the one being performed included, starts the watchdog last, once it is stopped.
Misshapen == { v \in Seq(Action) : ~Shaped(v) }
ShapeInv  == /\ NoneIn(Pipe, Misshapen) /\ Before(doing, Arming, Action)
             /\ NoneIn(doing, Rearming) \/ ~NoneIn(doing, Stopping) \/ Down

\* What opens finds the watchdog stopped; what closes is left when no Timeout can be.
Tailing   == Ending(fsm) /\ ~Fired
PlaceInv  == /\ ~Done(Pipe, doing, Opening) => Down
             /\ ~Done(Pipe, doing, Closing) => Tailing

\* Every InitTimer finds the watchdog stopped, but the last of all may find it running.
Solid  == timer # "deaf" /\ AllGuarded(timer, timerCmds) /\ (outbox = << StartsTimer >> => Low(timer, timerCmds))
Sealed == \/ outbox = << StartsTimer >> /\ timer # "deaf" /\ AllGuarded(timer, timerCmds)
          \/ outbox # << StartsTimer >> /\ timer # "deaf" /\ LastOpen(timer, timerCmds)
          \/ outbox # << StartsTimer >> /\ NoInit(timerCmds)
QueueInv == /\ NoneIn(outbox, {StartsTimer}) \/ outbox = << StartsTimer >>
            /\ Solid \/ (Sealed /\ Done(Pipe, doing, Arming) /\ Tailing)

\* The inductive invariant.
DisarmInv == /\ OneTimeout /\ Tidy /\ AskedClear /\ RestsCalm /\ SafeCalm /\ NormalStops
             /\ OrderInv /\ ShapeInv /\ PlaceInv /\ QueueInv

\* Nothing happens to the machine and to the vectors.
LEMMA DisarmStill ==
  ASSUME DisarmInv, PipeSame, session'.state = session.state, Down => Down', Fired' => Fired,
         OnItsWay({"QuorumSafeMode"})' => OnItsWay({"QuorumSafeMode"}) \/ (session.state = "SafeMode" /\ Down'),
         OneTimeout', Tidy', QueueInv'
  PROVE  DisarmInv'
<1>1. fsm' = fsm /\ Pipe' = Pipe /\ doing' = doing
  BY DEF PipeSame
<1>2. PICK p, d : p = Pipe /\ d = doing
  OBVIOUS
<1>3. Pipe' = p /\ doing' = d
  BY <1>1, <1>2
<1>4. Calm => Calm'
  BY <1>2, <1>3, Zenon DEF Calm
<1>5. AskedClear'
  BY <1>1 DEF DisarmInv, AskedClear
<1>6. RestsCalm'
  BY <1>1, <1>4 DEF DisarmInv, RestsCalm
<1>7. SafeCalm'
  <2>1. /\ ~Done(p, d, {Do("OnEntrySafeMode")}) => Over(fsm)
        /\ session.state = "SafeMode" => Over(fsm) /\ Done(p, d, Arming)
        /\ OnItsWay({"QuorumSafeMode"}) => Over(fsm) /\ Done(p, d, Arming) /\ Down
    BY <1>2, Zenon DEF DisarmInv, SafeCalm, Calm
  <2>2. /\ ~Done(p, d, {Do("OnEntrySafeMode")}) => Over(fsm')
        /\ session'.state = "SafeMode" => Over(fsm') /\ Done(p, d, Arming)
        /\ OnItsWay({"QuorumSafeMode"})' => Over(fsm') /\ Done(p, d, Arming) /\ Down'
    BY <1>1, <2>1
  <2> QED BY <1>3, <2>2, Zenon DEF SafeCalm, Calm
<1>8. NormalStops'
  BY <1>1, <1>2, <1>3, <1>4, Zenon DEF DisarmInv, NormalStops
<1>9. OrderInv'
  BY <1>2, <1>3, Zenon DEF DisarmInv, OrderInv
<1>10. ShapeInv'
  BY <1>2, <1>3, Zenon DEF DisarmInv, ShapeInv
<1>11. PlaceInv'
  <2>1. Tailing => Tailing'
    BY <1>1 DEF Tailing
  <2> QED BY <2>1, <1>2, <1>3, Zenon DEF DisarmInv, PlaceInv
<1> QED BY <1>5, <1>6, <1>7, <1>8, <1>9, <1>10, <1>11 DEF DisarmInv

\* The handler, with nothing to send, is given what a command or an action that does not start
\* the watchdog makes it send.
LEMMA HandlerAnswers ==
  ASSUME outbox = << >>, UNCHANGED << events, timer, timerCmds >>, NEW x, x # "Timeout",
         \/ outbox' = << >> \/ outbox' = << ToFsm(x) >>
         \/ outbox' = << ToFsm(x), StopsTimer >> \/ outbox' = << StopsTimer >>
  PROVE  /\ Down => Down'
         /\ outbox' = << ToFsm(x), StopsTimer >> \/ outbox' = << StopsTimer >> => Down'
         /\ Tidy' /\ Fired' = Fired /\ (OneTimeout => OneTimeout')
         /\ OnItsWay({"QuorumSafeMode"})' => OnItsWay({"QuorumSafeMode"}) \/ x = "QuorumSafeMode"
         /\ NoneIn(outbox', {StartsTimer}) /\ (Solid => Solid') /\ (Sealed => Sealed')
<1>1. /\ StopsTimer # StartsTimer /\ \A e : ToFsm(e) # StartsTimer /\ ToFsm(e) # StopsTimer
      /\ \A e : ToFsm(e).to = "fsm" /\ (ToFsm(e) = ToFsm("Timeout") => e = "Timeout")
      /\ \A e : ToFsm(e) = ToFsm("QuorumSafeMode") => e = "QuorumSafeMode"
      /\ StopsTimer # ToFsm("Timeout") /\ StopsTimer # ToFsm("QuorumSafeMode")
  BY DEF ToFsm, ToTimer, StartsTimer, StopsTimer
<1>2. \A i \in DOMAIN outbox' : /\ outbox'[i] = ToFsm(x) \/ outbox'[i] = StopsTimer
                                /\ i = 1 \/ outbox'[i] = StopsTimer
  OBVIOUS
<1>3. Tidy' /\ NoneIn(outbox', {StartsTimer})
  BY <1>1, <1>2 DEF Tidy, NoneIn, StopsTimer
<1>4. outbox' # << StartsTimer >>
  BY <1>1
<1>5. Fired' = Fired /\ (OneTimeout => OneTimeout')
  BY DEF Fired, OneTimeout
<1>6. outbox' = << ToFsm(x), StopsTimer >> \/ outbox' = << StopsTimer >> => outbox' # << >> /\ Newest(outbox') = StopsTimer
  <2>1. \A a, b : << a, b >> # << >> /\ Newest(<< a, b >>) = b /\ << b >> # << >> /\ Newest(<< b >>) = b
    BY DEF Newest
  <2> QED BY <2>1, Zenon
<1>7. outbox' = << >> \/ outbox' = << ToFsm(x) >> => Silent'
  BY <1>1 DEF Silent
<1>8. Down => Down'
  BY <1>6, <1>7 DEF Down
<1>9. outbox' = << ToFsm(x), StopsTimer >> \/ outbox' = << StopsTimer >> => Down'
  BY <1>6 DEF Down, StopsTimer
<1>10. OnItsWay({"QuorumSafeMode"})' => OnItsWay({"QuorumSafeMode"}) \/ x = "QuorumSafeMode"
  <2>1. outbox' # << >> => Head(outbox') \in {ToFsm(x), StopsTimer}
    OBVIOUS
  <2> QED BY <1>1, <2>1 DEF OnItsWay
<1>11. (Solid => Solid') /\ (Sealed => Sealed')
  BY <1>4 DEF Solid, Sealed, StartsTimer
<1> QED BY <1>3, <1>5, <1>8, <1>9, <1>10, <1>11

\* So nothing changes but what is on its way.
LEMMA DisarmAnswers ==
  ASSUME DisarmInv, PipeSame, session'.state = session.state,
         outbox = << >>, UNCHANGED << events, timer, timerCmds >>, NEW x, x # "Timeout",
         \/ outbox' = << >>
         \/ outbox' = << ToFsm(x) >> /\ x # "QuorumSafeMode"
         \/ outbox' = << ToFsm(x), StopsTimer >> /\ (x = "QuorumSafeMode" => session.state = "SafeMode")
  PROVE  DisarmInv'
<1>1. /\ Down => Down'
      /\ outbox' = << ToFsm(x), StopsTimer >> \/ outbox' = << StopsTimer >> => Down'
      /\ Tidy' /\ Fired' = Fired /\ (OneTimeout => OneTimeout')
      /\ OnItsWay({"QuorumSafeMode"})' => OnItsWay({"QuorumSafeMode"}) \/ x = "QuorumSafeMode"
      /\ NoneIn(outbox', {StartsTimer}) /\ (Solid => Solid') /\ (Sealed => Sealed')
  BY HandlerAnswers
<1>2. OnItsWay({"QuorumSafeMode"})' => OnItsWay({"QuorumSafeMode"}) \/ (session.state = "SafeMode" /\ Down')
  <2>1. outbox' = << >> => (OnItsWay({"QuorumSafeMode"})' => OnItsWay({"QuorumSafeMode"}))
    BY DEF OnItsWay
  <2> QED BY <1>1, <2>1
<1>3. PICK p, d : p = Pipe /\ d = doing
  OBVIOUS
<1>4. Pipe' = p /\ doing' = d /\ fsm' = fsm
  BY <1>3 DEF PipeSame
<1>5. Tailing => Tailing'
  BY <1>1, <1>4 DEF Tailing
<1>6. QueueInv'
  <2>1. Solid \/ (Sealed /\ Done(p, d, Arming) /\ Tailing)
    BY <1>3, Zenon DEF DisarmInv, QueueInv
  <2>2. Solid' \/ (Sealed' /\ Done(p, d, Arming) /\ Tailing')
    BY <1>1, <1>5, <2>1
  <2> QED BY <1>1, <1>4, <2>2, Zenon DEF QueueInv
<1> QED BY <1>1, <1>2, <1>6, DisarmStill DEF DisarmInv

\* The commands of the hubs and of the broker.
LEMMA DisarmCommands ==
  ASSUME TypeOK, DisarmInv, HandleHandshake \/ HandleQueue \/ HandleQueueSafe \/ HandleConnection
  PROVE  DisarmInv'
<1>1. outbox = << >> /\ UNCHANGED << fsm, actions, held, doing, events, timer, timerCmds >>
  BY DEF HandleHandshake, HandleQueue, HandleQueueSafe, HandleConnection, TakeCommand, Idle, fsmVars, timerVars
<1>2. session \in [state : StateOfSession, epoch : Nat, attempts : Nat,
                   votes : [Hubs -> Nat], empty : SUBSET Hubs]
  BY DEF TypeOK
<1>3. PipeSame
  BY <1>1, Zenon DEF PipeSame, Pipe
<1>4. CASE HandleHandshake
  <2>1. \/ session' = session /\ outbox' = outbox
        \/ session' = session /\ outbox' = << ToFsm("NewMessageHandshake") >>
        \/ /\ session' = [session EXCEPT !.votes[Head(commands).hub] = Head(commands).epoch]
           /\ outbox' = << ToFsm("NewMessageHandshake") >>
    BY <1>4 DEF HandleHandshake
  <2>2. session'.state = session.state /\ (outbox' = << >> \/ outbox' = << ToFsm("NewMessageHandshake") >>)
    BY <1>1, <1>2, <2>1
  <2> QED BY <1>1, <1>3, <2>2, DisarmAnswers
<1>5. CASE HandleConnection
  <2>1. Head(commands).kind \in {"LocalConnected", "LocalDisconnected"}
        /\ session'.state = session.state /\ outbox' = << ToFsm(Head(commands).kind) >>
    BY <1>5 DEF HandleConnection, TakeCommand
  <2>2. PICK x : x = Head(commands).kind
    OBVIOUS
  <2>3. x # "Timeout" /\ x # "QuorumSafeMode" /\ outbox' = << ToFsm(x) >>
    BY <2>1, <2>2
  <2> QED BY <1>1, <1>3, <2>1, <2>3, DisarmAnswers
<1>6. CASE HandleQueue
  <2>1. session'.state = session.state /\ (outbox' = << >> \/ outbox' = << ToFsm("QuorumPhase"), StopsTimer >>)
    BY <1>1, <1>2, <1>6 DEF HandleQueue, CountEmpty, StopsTimer
  <2>2. PICK x : x = "QuorumPhase"
    OBVIOUS
  <2>3. /\ x # "Timeout" /\ x # "QuorumSafeMode"
        /\ outbox' = << >> \/ outbox' = << ToFsm(x), StopsTimer >>
    BY <2>1, <2>2
  <2> QED BY <1>1, <1>3, <2>1, <2>3, DisarmAnswers
<1>7. CASE HandleQueueSafe
  <2>1. /\ session'.state = session.state
        /\ \/ outbox' = << >>
           \/ outbox' = << ToFsm("QuorumSafeMode"), StopsTimer >> /\ session.state = "SafeMode"
    BY <1>1, <1>2, <1>7 DEF HandleQueueSafe, CountEmpty, StopsTimer
  <2>2. PICK x : x = "QuorumSafeMode"
    OBVIOUS
  <2>3. /\ x # "Timeout"
        /\ \/ outbox' = << >>
           \/ outbox' = << ToFsm(x), StopsTimer >> /\ (x = "QuorumSafeMode" => session.state = "SafeMode")
    BY <2>1, <2>2
  <2> QED BY <1>1, <1>3, <2>1, <2>3, DisarmAnswers
<1> QED BY <1>4, <1>5, <1>6, <1>7

\* The handler sends its message: the command finds the watchdog as it was when it was decided.
LEMMA DisarmSend ==
  ASSUME TypeOK, DisarmInv, HandlerSend
  PROVE  DisarmInv'
<1>1. outbox # << >> /\ outbox' = Tail(outbox) /\ UNCHANGED << fsm, held, actions, doing, session, timer >>
  BY DEF HandlerSend, fsmVars
<1>2. outbox \in Seq(Message) /\ events \in Seq(Event) /\ timerCmds \in Seq(TimerCommand)
  BY DEF TypeOK
<1>3. PICK m \in Message : m = Head(outbox)
  BY <1>1, <1>2, ChannelTypes
<1>4. \/ m = ToFsm(m.msg) /\ m.msg \in Event /\ events' = Append(events, m.msg) /\ timerCmds' = timerCmds
      \/ m = StartsTimer /\ timerCmds' = Append(timerCmds, "InitTimer") /\ events' = events
      \/ m = StopsTimer /\ timerCmds' = Append(timerCmds, "StopTimer") /\ events' = events
  <2>1. \/ m.to = "fsm" /\ m.msg \in Event /\ events' = Append(events, m.msg) /\ timerCmds' = timerCmds
        \/ m.to = "timer" /\ m.msg \in TimerCommand /\ timerCmds' = Append(timerCmds, m.msg) /\ events' = events
    BY <1>3, MessageTypes DEF HandlerSend
  <2>2. m.to = "fsm" => m = ToFsm(m.msg)
    BY <1>3 DEF Message, ToFsm
  <2>3. m.to = "timer" => m = ToTimer(m.msg) /\ m.msg \in {"InitTimer", "StopTimer"}
    BY <2>1, <1>3 DEF Message, ToTimer, TimerCommand
  <2>4. CASE m.to = "timer"
    <3>1. PICK c \in {"InitTimer", "StopTimer"} : c = m.msg
      BY <2>3, <2>4
    <3>2. m = ToTimer(c) /\ timerCmds' = Append(timerCmds, c) /\ events' = events
      BY <2>1, <2>3, <2>4, <3>1, Zenon
    <3> QED BY <3>1, <3>2, Zenon DEF StartsTimer, StopsTimer
  <2> QED BY <2>1, <2>2, <2>4
<1>5. /\ StopsTimer # StartsTimer /\ \A e : ToFsm(e) # StartsTimer /\ ToFsm(e) # StopsTimer
      /\ StopsTimer # ToFsm("QuorumSafeMode") /\ StopsTimer.to # "fsm" /\ StartsTimer.to # "fsm"
  BY DEF ToFsm, ToTimer, StartsTimer, StopsTimer
<1>6. /\ Head(outbox) = outbox[1] /\ 1 \in DOMAIN outbox /\ Tail(outbox) \in Seq(Message)
      /\ \A i \in DOMAIN Tail(outbox) : i \in Nat \ {0} /\ i + 1 \in DOMAIN outbox /\ Tail(outbox)[i] = outbox[i + 1]
  BY <1>1, <1>2, TailElements
<1>7. \A i \in DOMAIN outbox' : outbox'[i] = StopsTimer
  <2>1. \A i \in DOMAIN Tail(outbox) : i + 1 # 1 /\ outbox[i + 1] = StopsTimer
    BY <1>6 DEF DisarmInv, Tidy
  <2> QED BY <1>1, <1>6, <2>1
<1>8. Tidy'
  <2>1. StopsTimer # ToFsm("Timeout")
    BY <1>5
  <2> QED BY <1>7, <2>1 DEF Tidy, StopsTimer
<1>9. \A e : m = ToFsm(e) => e # "Timeout"
  BY <1>3, <1>6 DEF DisarmInv, Tidy
<1>11. (Fired' => Fired) /\ OneTimeout'
  <2>1. CASE events' = events
    BY <1>1, <2>1 DEF Fired, OneTimeout, DisarmInv
  <2>2. CASE m = ToFsm(m.msg) /\ m.msg \in Event /\ events' = Append(events, m.msg)
    <3>1. PICK x \in Event : x = m.msg /\ x # "Timeout" /\ events' = Append(events, x)
      BY <1>9, <2>2
    <3>2. NoneIn(events, {"Timeout"}) => NoneIn(Append(events, x), {"Timeout"})
      <4>1. x \notin {"Timeout"}
        BY <3>1
      <4> QED BY <1>2, <4>1, LastOfAppend
    <3>3. \A i \in DOMAIN Append(events, x) : Append(events, x)[i] = "Timeout" => i \in DOMAIN events /\ events[i] = "Timeout"
      BY <1>2, <3>1, AppendElements
    <3>4. \A i \in DOMAIN events' : events'[i] = "Timeout" => i \in DOMAIN events /\ events[i] = "Timeout"
      BY <3>1, <3>3, Zenon
    <3>5. NoneIn(events, {"Timeout"}) => NoneIn(events', {"Timeout"})
      BY <3>1, <3>2, Zenon
    <3> QED BY <1>1, <3>4, <3>5 DEF Fired, OneTimeout, DisarmInv
  <2> QED BY <1>4, <2>1, <2>2
<1>12. OnItsWay({"QuorumSafeMode"})' => OnItsWay({"QuorumSafeMode"})
  <2>1. ~(outbox' # << >> /\ Head(outbox') = ToFsm("QuorumSafeMode"))
    <3>1. outbox' # << >> => Head(outbox') = outbox'[1] /\ 1 \in DOMAIN outbox'
      BY <1>1, <1>6, TailElements
    <3> QED BY <1>5, <1>7, <3>1
  <2>2. OnItsWay({"QuorumSafeMode"})' => ~NoneIn(events', {"QuorumSafeMode"})
    BY <2>1 DEF OnItsWay
  <2>3. ~NoneIn(events, {"QuorumSafeMode"}) => OnItsWay({"QuorumSafeMode"})
    BY DEF OnItsWay
  <2>4. CASE events' = events
    BY <2>2, <2>3, <2>4
  <2>5. CASE m = ToFsm(m.msg) /\ m.msg \in Event /\ events' = Append(events, m.msg)
    <3>1. PICK x \in Event : x = m.msg /\ m = ToFsm(x) /\ events' = Append(events, x)
      BY <2>5
    <3>2. x \notin {"QuorumSafeMode"} /\ NoneIn(events, {"QuorumSafeMode"}) => NoneIn(Append(events, x), {"QuorumSafeMode"})
      BY <1>2, LastOfAppend
    <3>3. x # "QuorumSafeMode" /\ NoneIn(events, {"QuorumSafeMode"}) => NoneIn(events', {"QuorumSafeMode"})
      BY <3>1, <3>2, Zenon
    <3>4. x = "QuorumSafeMode" => OnItsWay({"QuorumSafeMode"})
      BY <1>1, <1>3, <3>1 DEF OnItsWay
    <3> QED BY <2>2, <2>3, <3>3, <3>4
  <2> QED BY <1>4, <2>4, <2>5
<1>q. /\ Low(timer, Append(timerCmds, "StopTimer"))
      /\ AllGuarded(timer, timerCmds) => AllGuarded(timer, Append(timerCmds, "StopTimer"))
      /\ LastOpen(timer, timerCmds) => LastOpen(timer, Append(timerCmds, "StopTimer"))
      /\ NoInit(timerCmds) => NoInit(Append(timerCmds, "StopTimer"))
      /\ AllGuarded(timer, timerCmds) /\ Low(timer, timerCmds) => AllGuarded(timer, Append(timerCmds, "InitTimer"))
      /\ AllGuarded(timer, timerCmds) => LastOpen(timer, Append(timerCmds, "InitTimer"))
  BY <1>2, QueueSend
<1>13. Down => Down'
  <2>1. CASE outbox # << >> /\ Newest(outbox) = StopsTimer
    <3>1. CASE outbox' # << >>
      <4>1. Newest(outbox') = StopsTimer
        BY <1>1, <1>2, <2>1, <3>1, NewestOfTail
      <4> QED BY <3>1, <4>1 DEF Down, StopsTimer
    <3>2. CASE outbox' = << >>
      <4>1. m = StopsTimer
        BY <1>1, <1>2, <1>3, <2>1, <3>2, NewestOfTail
      <4>2. timerCmds' = Append(timerCmds, "StopTimer")
        BY <1>4, <1>5, <4>1
      <4>3. Low(timer', timerCmds')
        BY <1>1, <1>q, <4>2, Zenon
      <4>4. Silent'
        BY <3>2 DEF Silent
      <4> QED BY <4>3, <4>4 DEF Down
    <3> QED BY <3>1, <3>2
  <2>2. CASE Silent /\ Low(timer, timerCmds)
    <3>1. m.to = "fsm"
      BY <1>3, <1>6, <2>2 DEF Silent
    <3>2. timerCmds' = timerCmds
      BY <1>4, <1>5, <3>1
    <3>3. \A i \in DOMAIN Tail(outbox) : Tail(outbox)[i].to = "fsm"
      BY <1>6, <2>2 DEF Silent
    <3>4. Silent'
      BY <1>1, <3>3 DEF Silent
    <3> QED BY <1>1, <2>2, <3>2, <3>4 DEF Down
  <2> QED BY <2>1, <2>2 DEF Down
<1>14. outbox' # << StartsTimer >> /\ NoneIn(outbox', {StartsTimer})
  <2>1. ASSUME outbox' = << StartsTimer >> PROVE FALSE
    <3>1. 1 \in DOMAIN outbox' /\ outbox'[1] = StartsTimer
      BY <2>1
    <3> QED BY <1>5, <1>7, <3>1
  <2> QED BY <1>5, <1>7, <2>1 DEF NoneIn
<1>15. PICK p, d : p = Pipe /\ d = doing
  OBVIOUS
<1>16. Pipe' = p /\ doing' = d /\ fsm' = fsm
  BY <1>1, <1>15, Zenon DEF Pipe
<1>17. PipeSame
  BY <1>15, <1>16 DEF PipeSame
<1>18. QueueInv'
  <2>1. /\ NoneIn(outbox, {StartsTimer}) \/ outbox = << StartsTimer >>
        /\ Solid \/ (Sealed /\ Done(p, d, Arming) /\ Tailing)
    BY <1>15, Zenon DEF DisarmInv, QueueInv
  <2>2. Tailing => Tailing'
    BY <1>11, <1>16 DEF Tailing
  <2>3. outbox = << StartsTimer >> => m = StartsTimer
    BY <1>3
  <2>4. m = StartsTimer => outbox = << StartsTimer >>
    BY <1>3, <1>6, <2>1 DEF NoneIn
  <2>5. Solid => Solid'
    <3>1. Solid => timer # "deaf" /\ AllGuarded(timer, timerCmds) /\ (outbox = << StartsTimer >> => Low(timer, timerCmds))
      BY DEF Solid
    <3>2. Solid => AllGuarded(timer, timerCmds')
      BY <1>4, <1>q, <2>4, <3>1, Zenon
    <3> QED BY <1>1, <1>14, <3>1, <3>2 DEF Solid, StartsTimer
  <2>6. Sealed => Sealed'
    <3>1. CASE m = StartsTimer
      <4>1. Sealed => timer # "deaf" /\ AllGuarded(timer, timerCmds)
        BY <2>4, <3>1 DEF Sealed
      <4>2. timerCmds' = Append(timerCmds, "InitTimer")
        BY <1>4, <1>5, <3>1
      <4>3. Sealed => LastOpen(timer, timerCmds')
        BY <1>q, <4>1, <4>2, Zenon
      <4> QED BY <1>1, <1>14, <4>1, <4>3 DEF Sealed, StartsTimer
    <3>2. CASE m # StartsTimer
      <4>1. Sealed => (timer # "deaf" /\ LastOpen(timer, timerCmds)) \/ NoInit(timerCmds)
        BY <2>3, <3>2 DEF Sealed
      <4>2. Sealed => (timer # "deaf" /\ LastOpen(timer, timerCmds')) \/ NoInit(timerCmds')
        BY <1>4, <1>q, <3>2, <4>1, Zenon
      <4> QED BY <1>1, <1>14, <4>2 DEF Sealed, StartsTimer
    <3> QED BY <3>1, <3>2
  <2>7. Solid' \/ (Sealed' /\ Done(p, d, Arming) /\ Tailing')
    BY <2>1, <2>2, <2>5, <2>6
  <2> QED BY <1>14, <1>16, <2>7, Zenon DEF QueueInv
<1> QED BY <1>1, <1>8, <1>11, <1>12, <1>13, <1>17, <1>18, DisarmStill

\* run_fsm receives an event.
LEMMA TakesEvent ==
  ASSUME TypeOK, OneTimeout, events # << >>, events' = Tail(events), UNCHANGED << timer, outbox >>
  PROVE  /\ OneTimeout' /\ (Fired' => Fired)
         /\ Head(events) = "Timeout" => Fired /\ ~Fired'
         /\ OnItsWay({"QuorumSafeMode"})' => OnItsWay({"QuorumSafeMode"})
         /\ Head(events) = "QuorumSafeMode" => OnItsWay({"QuorumSafeMode"})
<1>1. events \in Seq(Event)
  BY DEF TypeOK
<1>2. /\ Head(events) = events[1] /\ 1 \in DOMAIN events
      /\ \A i \in DOMAIN Tail(events) : i \in Nat \ {0} /\ i + 1 \in DOMAIN events /\ Tail(events)[i] = events[i + 1]
  BY <1>1, TailElements
<1>3. \A i \in DOMAIN events' : i \in Nat \ {0} /\ i + 1 \in DOMAIN events /\ events'[i] = events[i + 1]
  BY <1>2
<1>4. \A E : ~NoneIn(events', E) => ~NoneIn(events, E)
  BY <1>3 DEF NoneIn
<1>5. \A E : Head(events) \in E => ~NoneIn(events, E)
  BY <1>2 DEF NoneIn
<1>6. OneTimeout'
  <2>1. ASSUME NEW i \in DOMAIN events', NEW j \in DOMAIN events', events'[i] = "Timeout", events'[j] = "Timeout"
        PROVE  i = j
    <3>1. i + 1 = j + 1
      BY <1>3, <2>1 DEF OneTimeout
    <3> QED BY <1>3, <3>1
  <2>2. timer' = "firing" => NoneIn(events', {"Timeout"})
    BY <1>4 DEF OneTimeout
  <2> QED BY <2>1, <2>2 DEF OneTimeout
<1>7. Fired' => Fired
  BY <1>4 DEF Fired
<1>8. Head(events) = "Timeout" => Fired /\ ~Fired'
  <2> SUFFICES ASSUME Head(events) = "Timeout" PROVE Fired /\ ~Fired'
    OBVIOUS
  <2>1. ~NoneIn(events, {"Timeout"}) /\ timer # "firing"
    BY <1>5 DEF OneTimeout
  <2>2. \A i \in DOMAIN events' : i + 1 # 1 /\ i + 1 \in DOMAIN events /\ events'[i] = events[i + 1]
    BY <1>3
  <2>3. \A i \in DOMAIN events' : events'[i] # "Timeout"
    BY <1>2, <2>2 DEF OneTimeout
  <2> QED BY <2>1, <2>3 DEF Fired, NoneIn
<1>9. OnItsWay({"QuorumSafeMode"})' => OnItsWay({"QuorumSafeMode"})
  BY <1>4 DEF OnItsWay
<1>10. Head(events) = "QuorumSafeMode" => OnItsWay({"QuorumSafeMode"})
  BY <1>5 DEF OnItsWay
<1> QED BY <1>6, <1>7, <1>8, <1>9, <1>10

\* What the queue of the watchdog is depends on these only.
LEMMA QueueSame ==
  ASSUME DisarmInv, UNCHANGED << timer, timerCmds, outbox >>
  PROVE  /\ Down' = Down /\ Solid' = Solid /\ Sealed' = Sealed /\ Tidy'
         /\ NoneIn(outbox', {StartsTimer}) \/ outbox' = << StartsTimer >>
BY DEF Down, Silent, Solid, Sealed, StartsTimer, StopsTimer, DisarmInv, Tidy, QueueInv

\* run_fsm ignores an event.
LEMMA DisarmIgnores ==
  ASSUME TypeOK, DisarmInv, PipeSame, FsmTurn, events # << >>
  PROVE  DisarmInv'
<1>1. events' = Tail(events) /\ UNCHANGED << session, outbox, timer, timerCmds >>
  BY DEF FsmTurn, handlerVars, timerVars
<1>2. OneTimeout' /\ (Fired' => Fired) /\ (OnItsWay({"QuorumSafeMode"})' => OnItsWay({"QuorumSafeMode"}))
  BY <1>1, TakesEvent DEF DisarmInv
<1>3. PICK p, d : p = Pipe /\ d = doing
  OBVIOUS
<1>4. Pipe' = p /\ doing' = d /\ fsm' = fsm
  BY <1>3 DEF PipeSame
<1>5. QueueInv'
  <2>1. Tailing => Tailing'
    BY <1>2, <1>4 DEF Tailing
  <2>2. Solid \/ (Sealed /\ Done(p, d, Arming) /\ Tailing)
    BY <1>3, Zenon DEF DisarmInv, QueueInv
  <2>3. Solid' \/ (Sealed' /\ Done(p, d, Arming) /\ Tailing')
    BY <1>1, <2>1, <2>2, QueueSame
  <2> QED BY <1>1, <1>4, <2>3, QueueSame, Zenon DEF QueueInv
<1> QED BY <1>1, <1>2, <1>5, QueueSame, DisarmStill

\* Nothing that the proof is about changes.
LEMMA DisarmSame ==
  ASSUME DisarmInv, PipeSame, UNCHANGED << session, events, outbox, timer, timerCmds >>
  PROVE  DisarmInv'
<1>1. PICK p, d : p = Pipe /\ d = doing
  OBVIOUS
<1>2. Pipe' = p /\ doing' = d /\ fsm' = fsm
  BY <1>1 DEF PipeSame
<1>3. OneTimeout' /\ Fired' = Fired /\ OnItsWay({"QuorumSafeMode"})' = OnItsWay({"QuorumSafeMode"})
  BY DEF DisarmInv, OneTimeout, Fired, OnItsWay
<1>4. QueueInv'
  <2>1. Tailing => Tailing'
    BY <1>2, <1>3 DEF Tailing
  <2>2. Solid \/ (Sealed /\ Done(p, d, Arming) /\ Tailing)
    BY <1>1, Zenon DEF DisarmInv, QueueInv
  <2>3. Solid' \/ (Sealed' /\ Done(p, d, Arming) /\ Tailing')
    BY <2>1, <2>2, QueueSame
  <2> QED BY <1>2, <2>3, QueueSame, Zenon DEF QueueInv
<1> QED BY <1>3, <1>4, QueueSame, DisarmStill

\* The watchdog receives a command.
LEMMA DisarmReceive ==
  ASSUME TypeOK, DisarmInv, TimerReceive
  PROVE  DisarmInv'
<1>1. /\ Listening(timer) /\ timerCmds # << >> /\ timer' = Received(timer, Head(timerCmds)) /\ timerCmds' = Tail(timerCmds)
      /\ UNCHANGED << fsm, held, actions, doing, session, events, outbox >>
  BY DEF TimerReceive, fsmVars, handlerVars
<1>2. timerCmds \in Seq(TimerCommand)
  BY DEF TypeOK
<1>3. /\ timer' \in {"idle", "active", "deaf"}
      /\ Low(timer, timerCmds) => Low(timer', timerCmds')
      /\ AllGuarded(timer, timerCmds) => timer' # "deaf" /\ AllGuarded(timer', timerCmds')
      /\ LastOpen(timer, timerCmds) => (timer' # "deaf" /\ LastOpen(timer', timerCmds')) \/ NoInit(timerCmds')
      /\ NoInit(timerCmds) => NoInit(timerCmds')
  <2>1. PICK u, r : u = timer' /\ r = timerCmds'
    OBVIOUS
  <2>2. u = Received(timer, Head(timerCmds)) /\ r = Tail(timerCmds)
    BY <1>1, <2>1
  <2>3. /\ u \in {"idle", "active", "deaf"}
        /\ Low(timer, timerCmds) => Low(u, Tail(timerCmds))
        /\ AllGuarded(timer, timerCmds) => u # "deaf" /\ AllGuarded(u, Tail(timerCmds))
        /\ LastOpen(timer, timerCmds) => (u # "deaf" /\ LastOpen(u, Tail(timerCmds))) \/ NoInit(Tail(timerCmds))
        /\ NoInit(timerCmds) => NoInit(Tail(timerCmds))
    BY <1>1, <1>2, <2>2, QueueReceive
  <2> QED BY <2>1, <2>2, <2>3, Zenon
<1>4. OneTimeout' /\ (Fired' => Fired) /\ OnItsWay({"QuorumSafeMode"})' = OnItsWay({"QuorumSafeMode"})
  BY <1>1, <1>3 DEF DisarmInv, OneTimeout, Fired, OnItsWay
<1>5. PICK p, d : p = Pipe /\ d = doing
  OBVIOUS
<1>6. Pipe' = p /\ doing' = d /\ fsm' = fsm
  BY <1>1, <1>5, Zenon DEF Pipe
<1>7. Down => Down'
  BY <1>1, <1>3 DEF Down, Silent, StopsTimer
<1>8. Tidy' /\ (NoneIn(outbox', {StartsTimer}) \/ outbox' = << StartsTimer >>)
  BY <1>1 DEF DisarmInv, Tidy, QueueInv, StartsTimer, StopsTimer
<1>9. QueueInv'
  <2>1. Tailing => Tailing'
    BY <1>4, <1>6 DEF Tailing
  <2>2. Solid \/ (Sealed /\ Done(p, d, Arming) /\ Tailing)
    BY <1>5, Zenon DEF DisarmInv, QueueInv
  <2>3. Solid => Solid'
    BY <1>1, <1>3 DEF Solid, StartsTimer
  <2>4. Sealed => Sealed'
    BY <1>1, <1>3 DEF Sealed, StartsTimer
  <2> QED BY <1>6, <1>8, <2>1, <2>2, <2>3, <2>4, Zenon DEF QueueInv
<1>10. PipeSame
  BY <1>5, <1>6 DEF PipeSame
<1> QED BY <1>1, <1>4, <1>7, <1>8, <1>9, <1>10, DisarmStill

\* The watchdog sends its Timeout, and is idle again.
LEMMA DisarmFire ==
  ASSUME TypeOK, DisarmInv, TimerFire
  PROVE  DisarmInv'
<1>1. /\ timer = "firing" /\ events' = Append(events, "Timeout") /\ timer' = "idle"
      /\ UNCHANGED << fsm, held, actions, doing, session, timerCmds, outbox >>
  BY DEF TimerFire, fsmVars, handlerVars
<1>2. events \in Seq(Event) /\ timerCmds \in Seq(TimerCommand) /\ "Timeout" \in Event /\ "QuorumSafeMode" \in Event
  BY DEF TypeOK, Event
<1>3. Fired
  BY <1>1 DEF Fired
<1>4. OneTimeout'
  <2>1. NoneIn(events, {"Timeout"})
    BY <1>1 DEF DisarmInv, OneTimeout
  <2>2. \A i \in DOMAIN Append(events, "Timeout") : Append(events, "Timeout")[i] = "Timeout" => i = Len(events) + 1
    BY <1>2, <2>1, AppendElements DEF NoneIn
  <2>3. \A i \in DOMAIN events' : events'[i] = "Timeout" => i = Len(events) + 1
    BY <1>1, <2>2, Zenon
  <2>4. timer' # "firing"
    BY <1>1
  <2> QED BY <2>3, <2>4 DEF OneTimeout
<1>5. OnItsWay({"QuorumSafeMode"})' => OnItsWay({"QuorumSafeMode"})
  <2>1. "Timeout" \notin {"QuorumSafeMode"}
    OBVIOUS
  <2>2. NoneIn(events, {"QuorumSafeMode"}) => NoneIn(Append(events, "Timeout"), {"QuorumSafeMode"})
    BY <1>2, <2>1, LastOfAppend
  <2>3. NoneIn(events, {"QuorumSafeMode"}) => NoneIn(events', {"QuorumSafeMode"})
    BY <1>1, <2>2, Zenon
  <2> QED BY <1>1, <2>3 DEF OnItsWay
<1>6. PICK p, d : p = Pipe /\ d = doing
  OBVIOUS
<1>7. Pipe' = p /\ doing' = d /\ fsm' = fsm
  BY <1>1, <1>6, Zenon DEF Pipe
<1>8. /\ Low(timer, timerCmds) => Low("idle", timerCmds)
      /\ AllGuarded(timer, timerCmds) => AllGuarded("idle", timerCmds)
  BY <1>2, QueueSleep
<1>9. Down => Down'
  BY <1>1, <1>8 DEF Down, Silent, StopsTimer
<1>10. Tidy' /\ (NoneIn(outbox', {StartsTimer}) \/ outbox' = << StartsTimer >>)
  BY <1>1 DEF DisarmInv, Tidy, QueueInv, StartsTimer, StopsTimer
<1>11. QueueInv'
  <2>1. Solid
    BY <1>3 DEF DisarmInv, QueueInv, Tailing
  <2>2. Solid'
    BY <1>1, <1>8, <2>1 DEF Solid, StartsTimer
  <2> QED BY <1>10, <2>2 DEF QueueInv
<1>12. PipeSame
  BY <1>6, <1>7 DEF PipeSame
<1> QED BY <1>1, <1>3, <1>4, <1>5, <1>9, <1>10, <1>11, <1>12, DisarmStill

\* Of lists that are empty.
LEMMA NothingArmed ==
  /\ \A W : Done(<< >>, << >>, W) /\ NoneIn(<< >>, W)
  /\ \A X, Y : Before(<< >>, X, Y)
<1>1. \A W : Done(<< >>, << >>, W) /\ NoneIn(<< >>, W)
  BY NothingPending, LastOfEmpty
<1>2. \A X, Y : Before(<< >>, X, Y)
  BY DEF Before
<1> QED BY <1>1, <1>2

\* Nothing is on its way and the watchdog is stopped, or its sleep has just ended.
LEMMA DisarmEmpty ==
  ASSUME Pipe' = << >>, doing' = << >>, outbox' = << >>, events' = << >>,
         timer' \in {"idle", "firing"}, AllGuarded(timer', timerCmds'), Low(timer', timerCmds'),
         fsm'.global = "Start" \/ Asked(fsm)' => timer' # "firing", session'.state = "SafeMode" => Over(fsm')
  PROVE  DisarmInv'
<1>1. PICK p, d : p = << >> /\ d = << >>
  OBVIOUS
<1>2. Pipe' = p /\ doing' = d
  BY <1>1
<1>3. /\ \A W : Done(p, d, W) /\ NoneIn(p, W) /\ NoneIn(d, W)
      /\ \A X, Y : Before(p, X, Y) /\ Before(d, X, Y)
  BY <1>1, NothingArmed
<1>4. NoneIn(events', {"Timeout"}) /\ NoneIn(events', {"QuorumSafeMode"}) /\ NoneIn(outbox', {StartsTimer})
      /\ ~OnItsWay({"QuorumSafeMode"})'
  <2>1. \A W : NoneIn(<< >>, W)
    BY NothingArmed
  <2> QED BY <2>1 DEF OnItsWay
<1>5. OneTimeout' /\ Tidy' /\ (Fired' => timer' = "firing")
  BY <1>4 DEF OneTimeout, Tidy, Fired
<1>6. AskedClear'
  BY <1>5 DEF AskedClear
<1>7. Down'
  BY DEF Down, Silent
<1>8. Calm'
  BY <1>2, <1>3, <1>7, Zenon DEF Calm
<1>9. RestsCalm' /\ NormalStops'
  BY <1>8 DEF RestsCalm, NormalStops
<1>10. SafeCalm'
  BY <1>2, <1>3, <1>4, Zenon DEF SafeCalm
<1>11. OrderInv' /\ ShapeInv'
  BY <1>2, <1>3, Zenon DEF OrderInv, ShapeInv
<1>12. PlaceInv'
  BY <1>2, <1>3, Zenon DEF PlaceInv
<1>13. outbox' # << StartsTimer >>
  OBVIOUS
<1>14. QueueInv'
  BY <1>4, <1>13 DEF QueueInv, Solid, StartsTimer
<1> QED BY <1>5, <1>6, <1>9, <1>10, <1>11, <1>12, <1>14 DEF DisarmInv

\* In the initial state.
LEMMA DisarmInit == Init => DisarmInv
<1> SUFFICES ASSUME Init PROVE DisarmInv
  OBVIOUS
<1>1. /\ doing = << >> /\ outbox = << >> /\ events = << >> /\ timerCmds = << >> /\ timer = "idle"
      /\ fsm.global = "Start" /\ session.state = "None" /\ Pipe = << >>
  BY JoinEmpty DEF Init, NewFsmState, NewSession, Pipe
<1>2. PICK p, d : p = << >> /\ d = << >>
  OBVIOUS
<1>3. /\ \A W : Done(p, d, W) /\ NoneIn(p, W) /\ NoneIn(d, W)
      /\ \A X, Y : Before(p, X, Y) /\ Before(d, X, Y)
  BY <1>2, NothingArmed
<1>4. Pipe = p /\ doing = d
  BY <1>1, <1>2
<1>5. NoneIn(events, {"Timeout"}) /\ NoneIn(outbox, {StartsTimer}) /\ ~OnItsWay({"QuorumSafeMode"})
  <2>1. \A W : NoneIn(<< >>, W)
    BY NothingArmed
  <2> QED BY <1>1, <2>1 DEF OnItsWay
<1>6. OneTimeout /\ Tidy /\ ~Fired
  BY <1>1, <1>5 DEF OneTimeout, Tidy, Fired
<1>7. Low(timer, timerCmds) /\ AllGuarded(timer, timerCmds)
  BY <1>1 DEF Low, AllGuarded
<1>8. Down
  BY <1>1, <1>7 DEF Down, Silent
<1>9. Calm
  BY <1>3, <1>4, <1>8, Zenon DEF Calm
<1>10. AskedClear /\ RestsCalm /\ NormalStops
  BY <1>6, <1>9 DEF AskedClear, RestsCalm, NormalStops
<1>11. SafeCalm
  <2>1. session.state # "SafeMode"
    BY <1>1
  <2> QED BY <1>3, <1>4, <1>5, <2>1, Zenon DEF SafeCalm
<1>12. OrderInv /\ ShapeInv
  BY <1>3, <1>4, Zenon DEF OrderInv, ShapeInv
<1>13. PlaceInv
  BY <1>3, <1>4, Zenon DEF PlaceInv
<1>14. QueueInv
  BY <1>1, <1>5, <1>7 DEF QueueInv, Solid, StartsTimer
<1> QED BY <1>6, <1>10, <1>11, <1>12, <1>13, <1>14 DEF DisarmInv

\* The process is started again.
LEMMA DisarmCrash ==
  ASSUME Crash
  PROVE  DisarmInv'
<1>1. /\ doing' = << >> /\ outbox' = << >> /\ events' = << >> /\ timerCmds' = << >> /\ timer' = "idle"
      /\ session'.state = "None" /\ Pipe' = << >>
  BY JoinEmpty DEF Crash, NewSession, Pipe
<1>2. AllGuarded(timer', timerCmds') /\ Low(timer', timerCmds')
  BY <1>1 DEF Low, AllGuarded
<1> QED BY <1>1, <1>2, DisarmEmpty

\* The sleep ends when nothing is on its way: the machine waits for no answer, and an InitTimer
\* that waits behind the sleep would have been sent after the last of all.
LEMMA DisarmExpire ==
  ASSUME Prompt = TRUE, PipeInv, EnteredInv, DisarmInv, TimerExpire
  PROVE  DisarmInv'
<1>1. /\ Sleeping(timer) /\ Quiet /\ timer' = "firing"
      /\ UNCHANGED << fsm, held, actions, doing, session, events, timerCmds, outbox >>
  BY DEF TimerExpire, fsmVars, handlerVars
<1>2. fsm.global # "Start" /\ ~Asked(fsm) /\ timerCmds \in Seq(TimerCommand)
  BY <1>1, QuietSettled DEF Quiet, PipeInv, TypeOK
<1>3. /\ Pipe = << >> /\ doing = << >> /\ outbox = << >> /\ events = << >>
      /\ timerCmds = << >> \/ timer = "deaf"
  BY <1>1, JoinEmpty DEF Quiet, Pipe
<1>4. Pipe' = << >> /\ doing' = << >> /\ outbox' = << >> /\ events' = << >>
  BY <1>1, <1>3, Zenon DEF Pipe
<1>5. timer = "deaf" => NoInit(timerCmds)
  BY <1>3 DEF DisarmInv, QueueInv, Solid, Sealed
<1>6. AllGuarded("firing", timerCmds) /\ Low("firing", timerCmds)
  <2>1. NoInit(timerCmds) => AllGuarded("firing", timerCmds) /\ Low("firing", timerCmds)
    BY <1>2, QueueSleep
  <2>2. timerCmds = << >> => NoInit(timerCmds)
    BY DEF NoInit
  <2> QED BY <1>3, <1>5, <2>1, <2>2
<1>7. Asked(fsm)' = Asked(fsm)
  BY <1>1 DEF Asked
<1>8. session'.state = "SafeMode" => Over(fsm')
  BY <1>1 DEF DisarmInv, SafeCalm
<1>9. timer' \in {"idle", "firing"} /\ AllGuarded(timer', timerCmds') /\ Low(timer', timerCmds')
  BY <1>1, <1>6
<1>10. fsm'.global = "Start" \/ Asked(fsm)' => timer' # "firing"
  BY <1>1, <1>2, <1>7
<1> QED BY <1>4, <1>8, <1>9, <1>10, DisarmEmpty

\* run_fsm sends one more vector: what of the order and the shape of them is kept.
LEMMA SendOrders ==
  ASSUME NEW p \in Seq(Seq(Action)), NEW v \in Seq(Action)
  PROVE  /\ \A W : NoneIn(p, Busy(W)) /\ NoneIn(v, W) => NoneIn(Append(p, v), Busy(W))
         /\ \A X, Y : Before(p, Busy(X), Busy(Y)) /\ (NoneIn(v, Y) \/ NoneIn(p, Busy(X)))
                        => Before(Append(p, v), Busy(X), Busy(Y))
         /\ NoneIn(p, Misshapen) /\ Shaped(v) => NoneIn(Append(p, v), Misshapen)
<1> DEFINE V == Seq(Action)
<1>1. p \in Seq(V) /\ v \in V
  OBVIOUS
<1>2. \A W : NoneIn(v, W) => v \notin Busy(W)
  BY DEF Busy
<1>3. Shaped(v) => v \notin Misshapen
  BY DEF Misshapen
<1> HIDE DEF V
<1>4. ASSUME NEW W, NoneIn(p, Busy(W)), NoneIn(v, W)
      PROVE  NoneIn(Append(p, v), Busy(W))
  <2>1. v \notin Busy(W)
    BY <1>2, <1>4
  <2> QED BY <1>1, <1>4, <2>1, LastOfAppend
<1>5. ASSUME NEW X, NEW Y, Before(p, Busy(X), Busy(Y)), NoneIn(v, Y) \/ NoneIn(p, Busy(X))
      PROVE  Before(Append(p, v), Busy(X), Busy(Y))
  <2>1. v \notin Busy(Y) \/ NoneIn(p, Busy(X))
    BY <1>2, <1>5
  <2> QED BY <1>1, <1>5, <2>1, BeforeOfAppend
<1>6. NoneIn(p, Misshapen) /\ Shaped(v) => NoneIn(Append(p, v), Misshapen)
  <2> SUFFICES ASSUME NoneIn(p, Misshapen), Shaped(v) PROVE NoneIn(Append(p, v), Misshapen)
    OBVIOUS
  <2>1. v \notin Misshapen
    BY <1>3
  <2> QED BY <1>1, <2>1, LastOfAppend
<1> QED BY <1>4, <1>5, <1>6

\* run_fsm makes a transition.
LEMMA DisarmTransits ==
  ASSUME PipeInv, DisarmInv, NEW e \in Event, Transits(e),
         fsm.global # "Disconnected", fsm'.global # "Disconnected",
         UNCHANGED << session, outbox, timer, timerCmds >>,
         OneTimeout', Fired' => Fired, e = "Timeout" => Fired /\ ~Fired',
         OnItsWay({"QuorumSafeMode"})' => OnItsWay({"QuorumSafeMode"}),
         e = "QuorumSafeMode" => OnItsWay({"QuorumSafeMode"})
  PROVE  DisarmInv'
<1>0. Pipe \in Seq(Seq(Action)) /\ doing \in Seq(Action) /\ fsm \in FsmState /\ Hierarchical(fsm)
  BY PipeTyped
<1>1. PICK t \in Step(fsm, e) : fsm' = t.to /\ Pipe' = Append(Pipe, t.acts) /\ doing' = doing
  BY DEF Transits
<1>2. PICK v \in Seq(Action) : v = t.acts
  BY <1>0, StepWellformed DEF Wellformed
<1>3. PICK p, d : p = Pipe /\ d = doing
  OBVIOUS
<1>4. PICK q : q = Append(p, v)
  OBVIOUS
<1>5. Pipe' = q /\ doing' = d
  BY <1>1, <1>2, <1>3, <1>4, Zenon
<1>6. Sends(fsm, e, fsm', v)
  <2>1. Sends(fsm, e, t.to, t.acts)
    BY <1>0, <1>1, StepSends
  <2> QED BY <1>1, <1>2, <2>1, Zenon
<1>7. fsm'.global # "Start"
  BY <1>0, <1>1, NeverBack
<1>8. /\ \A W : NoneIn(v, W) /\ Done(p, d, W) => Done(q, d, W)
      /\ \A W : NoneIn(p, Busy(W)) /\ NoneIn(v, W) => NoneIn(q, Busy(W))
      /\ \A X, Y : Before(p, Busy(X), Busy(Y)) /\ (NoneIn(v, Y) \/ NoneIn(p, Busy(X))) => Before(q, Busy(X), Busy(Y))
      /\ NoneIn(p, Misshapen) /\ Shaped(v) => NoneIn(q, Misshapen)
      /\ \A W, T : LastIn(v, W, T) => Pending(q, d, W, T)
  <2>1. \A W : NoneIn(v, W) /\ Done(p, d, W) => Done(Append(p, v), d, W)
    BY <1>0, <1>3, SendKeeps
  <2>2. \A W, T : LastIn(v, W, T) => Pending(Append(p, v), d, W, T)
    BY <1>0, <1>3, SendKeeps
  <2>3. /\ \A W : NoneIn(p, Busy(W)) /\ NoneIn(v, W) => NoneIn(Append(p, v), Busy(W))
        /\ \A X, Y : Before(p, Busy(X), Busy(Y)) /\ (NoneIn(v, Y) \/ NoneIn(p, Busy(X)))
                       => Before(Append(p, v), Busy(X), Busy(Y))
        /\ NoneIn(p, Misshapen) /\ Shaped(v) => NoneIn(Append(p, v), Misshapen)
    BY <1>0, <1>3, SendOrders
  <2> QED BY <1>4, <2>1, <2>2, <2>3, Zenon
<1>9. Down' = Down /\ Solid' = Solid /\ Sealed' = Sealed /\ Tidy' /\ (NoneIn(outbox', {StartsTimer}) \/ outbox' = << StartsTimer >>)
  BY QueueSame
<1>10. /\ Calm <=> Done(p, d, Arming) /\ Down
       /\ Calm' <=> Done(q, d, Arming) /\ Down
  BY <1>3, <1>5, <1>9, Zenon DEF Calm
<1>11. NoneIn(v, Arming) /\ Calm => Calm'
  BY <1>8, <1>10
<1>12. AskedClear'
  <2>1. Asked(fsm') => fsm.global = "Start" \/ e = "Timeout"
    BY <1>6 DEF Sends
  <2>2. Asked(fsm)' = Asked(fsm')
    BY DEF Asked
  <2> QED BY <1>7, <2>1, <2>2 DEF AskedClear, DisarmInv
<1>13. RestsCalm'
  <2>1. Rest(fsm') => Calm'
    <3>1. Rest(fsm') => NoneIn(v, Arming) /\ (fsm.global = "Start" \/ (Greets(fsm) /\ e = "Timeout"))
      BY <1>6 DEF Sends
    <3>2. fsm.global = "Start" => Rest(fsm)
      BY DEF Rest
    <3> QED BY <1>11, <3>1, <3>2 DEF DisarmInv, RestsCalm
  <2>2. (Greets(fsm') \/ fsm'.global = "SafeMode") /\ Fired' => Calm'
    <3>1. Greets(fsm') \/ fsm'.global = "SafeMode" => Asked(fsm) \/ (NoneIn(v, Arming) /\ fsm' = fsm)
      BY <1>6 DEF Sends
    <3>2. Asked(fsm) => ~Fired
      BY DEF DisarmInv, AskedClear
    <3>3. (Greets(fsm) \/ fsm.global = "SafeMode") /\ Fired => Calm
      BY DEF DisarmInv, RestsCalm
    <3>4. fsm' = fsm => (Greets(fsm') = Greets(fsm)) /\ fsm'.global = fsm.global
      OBVIOUS
    <3> QED BY <1>11, <3>1, <3>2, <3>3, <3>4
  <2>3. Rest(fsm)' = Rest(fsm') /\ Greets(fsm)' = Greets(fsm')
    BY DEF Rest, Greets
  <2> QED BY <2>1, <2>2, <2>3 DEF RestsCalm
<1>14. /\ Over(fsm) => Over(fsm') /\ NoneIn(v, Arming)
       /\ Ending(fsm) => NoneIn(v, Arming) /\ (e # "Timeout" => Ending(fsm'))
       /\ Tailing => Tailing' /\ NoneIn(v, Arming)
  <2>1. /\ Over(fsm) => Over(fsm')
        /\ Ending(fsm) => NoneIn(v, Arming) /\ (e # "Timeout" => Ending(fsm'))
    BY <1>6 DEF Sends
  <2>2. Over(fsm) => Ending(fsm)
    BY DEF Ending
  <2>3. Ending(fsm)' = Ending(fsm')
    BY DEF Ending, Over
  <2> QED BY <2>1, <2>2, <2>3 DEF Tailing
<1>15. SafeCalm'
  <2>1. ~Done(q, d, {Do("OnEntrySafeMode")}) => Over(fsm')
    <3>1. ~NoneIn(v, {Do("OnEntrySafeMode")}) => Over(fsm')
      BY <1>6 DEF Sends
    <3>2. ~Done(p, d, {Do("OnEntrySafeMode")}) => Over(fsm)
      BY <1>3, Zenon DEF DisarmInv, SafeCalm
    <3> QED BY <1>8, <1>14, <3>1, <3>2
  <2>2. session'.state = "SafeMode" => Over(fsm') /\ Done(q, d, Arming)
    <3>1. session.state = "SafeMode" => Over(fsm) /\ Done(p, d, Arming)
      BY <1>3, Zenon DEF DisarmInv, SafeCalm
    <3> QED BY <1>8, <1>14, <3>1
  <2>3. OnItsWay({"QuorumSafeMode"})' => Over(fsm') /\ Calm'
    BY <1>11, <1>14 DEF DisarmInv, SafeCalm
  <2> QED BY <1>5, <2>1, <2>2, <2>3, Zenon DEF SafeCalm
<1>16. NormalStops'
  <2> SUFFICES ASSUME fsm'.global = "Normal"
               PROVE  Pending(q, d, Arming \cup Stopping, Stopping) \/ Calm'
    BY <1>5, Zenon DEF NormalStops
  <2>1. \/ NoneIn(v, Arming) /\ LastIn(v, Arming \cup Stopping, Stopping)
        \/ fsm.global = "SafeMode" /\ e \in {"Timeout", "QuorumSafeMode"} /\ NoneIn(v, Arming \cup Stopping)
    BY <1>6 DEF Sends
  <2>2. CASE LastIn(v, Arming \cup Stopping, Stopping)
    BY <1>8, <2>2
  <2>3. CASE fsm.global = "SafeMode" /\ e \in {"Timeout", "QuorumSafeMode"}
    <3>1. Calm
      BY <2>3 DEF DisarmInv, RestsCalm, SafeCalm
    <3>2. NoneIn(v, Arming)
      BY <1>14, <2>3 DEF Over
    <3> QED BY <1>11, <3>1, <3>2
  <2> QED BY <2>1, <2>2, <2>3
<1>17. NoneIn(v, Opening) \/ Calm
  <2>1. ~NoneIn(v, Opening) => Rest(fsm)
    BY <1>6 DEF Sends
  <2> QED BY <2>1 DEF DisarmInv, RestsCalm
<1>18. NoneIn(v, Arming) \/ Done(p, d, Closing)
  <2>1. ~Done(p, d, Closing) => Tailing
    BY <1>3, Zenon DEF DisarmInv, PlaceInv
  <2> QED BY <1>14, <2>1
<1>19. OrderInv'
  <2>0. /\ Before(p, Busy(Arming), Busy(Opening)) /\ Before(p, Busy(Closing), Busy(Arming))
        /\ ~NoneIn(d, Arming) => NoneIn(p, Busy(Opening))
        /\ ~NoneIn(d, Closing) => NoneIn(p, Busy(Arming))
    BY <1>3, Zenon DEF DisarmInv, OrderInv
  <2>1. \A W : Done(p, d, W) => NoneIn(p, Busy(W)) /\ NoneIn(d, W)
    BY DEF Done
  <2>2. Before(q, Busy(Arming), Busy(Opening))
    BY <1>8, <1>10, <1>17, <2>0, <2>1
  <2>3. Before(q, Busy(Closing), Busy(Arming))
    BY <1>8, <1>18, <2>0, <2>1
  <2>4. ~NoneIn(d, Arming) => NoneIn(q, Busy(Opening))
    BY <1>8, <1>10, <1>17, <2>0, <2>1
  <2>5. ~NoneIn(d, Closing) => NoneIn(q, Busy(Arming))
    BY <1>8, <1>18, <2>0, <2>1
  <2> QED BY <1>5, <2>2, <2>3, <2>4, <2>5, Zenon DEF OrderInv
<1>20. ShapeInv'
  <2>1. /\ NoneIn(p, Misshapen) /\ Before(d, Arming, Action)
        /\ NoneIn(d, Rearming) \/ ~NoneIn(d, Stopping) \/ Down
    BY <1>3, Zenon DEF DisarmInv, ShapeInv
  <2>2. Shaped(v)
    BY <1>6 DEF Sends
  <2>3. NoneIn(q, Misshapen)
    BY <1>8, <2>1, <2>2
  <2> QED BY <1>5, <1>9, <2>1, <2>3, Zenon DEF ShapeInv
<1>21. PlaceInv'
  <2>0. /\ ~Done(p, d, Opening) => Down
        /\ ~Done(p, d, Closing) => Tailing
    BY <1>3, Zenon DEF DisarmInv, PlaceInv
  <2>1. ~Done(q, d, Opening) => Down
    BY <1>8, <1>10, <1>17, <2>0
  <2>2. ~Done(q, d, Closing) => Tailing'
    <3>1. ~NoneIn(v, Closing) => Asked(fsm) /\ Ending(fsm')
      BY <1>6 DEF Sends
    <3>2. Asked(fsm) => ~Fired'
      BY DEF DisarmInv, AskedClear
    <3>3. Ending(fsm)' = Ending(fsm')
      BY DEF Ending, Over
    <3>4. ~NoneIn(v, Closing) => Tailing'
      BY <3>1, <3>2, <3>3 DEF Tailing
    <3> QED BY <1>8, <1>14, <2>0, <3>4
  <2> QED BY <1>5, <1>9, <2>1, <2>2, Zenon DEF PlaceInv
<1>22. QueueInv'
  <2>1. Solid \/ (Sealed /\ Done(p, d, Arming) /\ Tailing)
    BY <1>3, Zenon DEF DisarmInv, QueueInv
  <2>2. Solid' \/ (Sealed' /\ Done(q, d, Arming) /\ Tailing')
    BY <1>8, <1>9, <1>14, <2>1
  <2> QED BY <1>5, <1>9, <2>2, Zenon DEF QueueInv
<1> QED BY <1>9, <1>12, <1>13, <1>15, <1>16, <1>19, <1>20, <1>21, <1>22 DEF DisarmInv

\* The handler takes the oldest vector: it is well shaped, and stands where the order puts it.
LEMMA TakeOrders ==
  ASSUME NEW p \in Seq(Seq(Action)), p # << >>
  PROVE  /\ \A X, Y : Before(p, Busy(X), Busy(Y))
                        => Before(Tail(p), Busy(X), Busy(Y)) /\ (~NoneIn(Head(p), X) => NoneIn(Tail(p), Busy(Y)))
         /\ NoneIn(p, Misshapen) => NoneIn(Tail(p), Misshapen) /\ Shaped(Head(p))
<1> DEFINE V == Seq(Action)
<1>1. p \in Seq(V)
  OBVIOUS
<1> HIDE DEF V
<1>2. Head(p) \in V
  BY <1>1, TailElements
<1>3. /\ \A W : ~NoneIn(Head(p), W) => Head(p) \in Busy(W)
      /\ Head(p) \notin Misshapen => Shaped(Head(p))
  BY <1>2 DEF V, Busy, Misshapen
<1>4. ASSUME NEW X, NEW Y, Before(p, Busy(X), Busy(Y))
      PROVE  Before(Tail(p), Busy(X), Busy(Y)) /\ (~NoneIn(Head(p), X) => NoneIn(Tail(p), Busy(Y)))
  <2>1. Before(Tail(p), Busy(X), Busy(Y)) /\ (Head(p) \in Busy(X) => NoneIn(Tail(p), Busy(Y)))
    BY <1>1, <1>4, BeforeOfTail
  <2> QED BY <1>3, <2>1
<1>5. NoneIn(p, Misshapen) => NoneIn(Tail(p), Misshapen) /\ Shaped(Head(p))
  <2>1. NoneIn(p, Misshapen) => NoneIn(Tail(p), Misshapen) /\ Head(p) \notin Misshapen
    BY <1>1, LastOfTail
  <2> QED BY <1>3, <2>1
<1> QED BY <1>4, <1>5

\* The handler takes the oldest vector.
LEMMA DisarmTakes ==
  ASSUME PipeInv, DisarmInv, TakesVector, UNCHANGED << session, events, outbox, timer, timerCmds >>
  PROVE  DisarmInv'
<1>0. Pipe \in Seq(Seq(Action))
  BY PipeTyped
<1>1. fsm' = fsm /\ Pipe # << >> /\ doing = << >> /\ doing' = Head(Pipe) /\ Pipe' = Tail(Pipe)
  BY DEF TakesVector
<1>2. PICK p, h, r : p = Pipe /\ h = Head(Pipe) /\ r = Tail(Pipe)
  OBVIOUS
<1>3. Pipe' = r /\ doing' = h /\ doing = << >>
  BY <1>1, <1>2, Zenon
<1>4. /\ \A W : Done(p, << >>, W) => Done(r, h, W)
      /\ \A W, T : Pending(p, << >>, W, T) => Pending(r, h, W, T)
      /\ \A X, Y : Before(p, Busy(X), Busy(Y)) => Before(r, Busy(X), Busy(Y)) /\ (~NoneIn(h, X) => NoneIn(r, Busy(Y)))
      /\ NoneIn(p, Misshapen) => NoneIn(r, Misshapen) /\ Shaped(h)
  <2>1. /\ \A W : Done(Pipe, << >>, W) => Done(Tail(Pipe), Head(Pipe), W)
        /\ \A W, T : Pending(Pipe, << >>, W, T) => Pending(Tail(Pipe), Head(Pipe), W, T)
    BY <1>0, <1>1, TakeKeeps
  <2>2. /\ \A X, Y : Before(Pipe, Busy(X), Busy(Y))
                       => Before(Tail(Pipe), Busy(X), Busy(Y)) /\ (~NoneIn(Head(Pipe), X) => NoneIn(Tail(Pipe), Busy(Y)))
        /\ NoneIn(Pipe, Misshapen) => NoneIn(Tail(Pipe), Misshapen) /\ Shaped(Head(Pipe))
    BY <1>0, <1>1, TakeOrders
  <2> QED BY <1>2, <2>1, <2>2, Zenon
<1>5. Down' = Down /\ Solid' = Solid /\ Sealed' = Sealed /\ Tidy' /\ (NoneIn(outbox', {StartsTimer}) \/ outbox' = << StartsTimer >>)
  BY QueueSame
<1>6. OneTimeout' /\ Fired' = Fired /\ OnItsWay({"QuorumSafeMode"})' = OnItsWay({"QuorumSafeMode"})
  BY DEF DisarmInv, OneTimeout, Fired, OnItsWay
<1>7. Calm => Calm'
  BY <1>2, <1>3, <1>4, <1>5, Zenon DEF Calm
<1>8. AskedClear' /\ RestsCalm'
  BY <1>1, <1>6, <1>7 DEF DisarmInv, AskedClear, RestsCalm
<1>9. SafeCalm'
  <2>1. /\ ~Done(p, << >>, {Do("OnEntrySafeMode")}) => Over(fsm)
        /\ session.state = "SafeMode" => Over(fsm) /\ Done(p, << >>, Arming)
        /\ OnItsWay({"QuorumSafeMode"}) => Over(fsm) /\ Calm
    BY <1>1, <1>2, Zenon DEF DisarmInv, SafeCalm
  <2>2. /\ ~Done(r, h, {Do("OnEntrySafeMode")}) => Over(fsm')
        /\ session'.state = "SafeMode" => Over(fsm') /\ Done(r, h, Arming)
        /\ OnItsWay({"QuorumSafeMode"})' => Over(fsm') /\ Calm'
    BY <1>1, <1>4, <1>6, <1>7, <2>1
  <2> QED BY <1>3, <2>2, Zenon DEF SafeCalm
<1>10. NormalStops'
  BY <1>1, <1>2, <1>3, <1>4, <1>7, Zenon DEF DisarmInv, NormalStops
<1>11. OrderInv'
  <2>1. Before(p, Busy(Arming), Busy(Opening)) /\ Before(p, Busy(Closing), Busy(Arming))
    BY <1>2, Zenon DEF DisarmInv, OrderInv
  <2>2. /\ Before(r, Busy(Arming), Busy(Opening)) /\ Before(r, Busy(Closing), Busy(Arming))
        /\ ~NoneIn(h, Arming) => NoneIn(r, Busy(Opening))
        /\ ~NoneIn(h, Closing) => NoneIn(r, Busy(Arming))
    BY <1>4, <2>1
  <2> QED BY <1>3, <2>2, Zenon DEF OrderInv
<1>12. ShapeInv'
  <2>1. NoneIn(p, Misshapen)
    BY <1>2, Zenon DEF DisarmInv, ShapeInv
  <2>2. NoneIn(r, Misshapen) /\ Before(h, Arming, Action) /\ (NoneIn(h, Rearming) \/ ~NoneIn(h, Stopping))
    BY <1>4, <2>1 DEF Shaped
  <2> QED BY <1>3, <2>2, Zenon DEF ShapeInv
<1>13. Tailing => Tailing'
  BY <1>1, <1>6 DEF Tailing
<1>14. PlaceInv'
  <2>1. /\ ~Done(p, << >>, Opening) => Down
        /\ ~Done(p, << >>, Closing) => Tailing
    BY <1>1, <1>2, Zenon DEF DisarmInv, PlaceInv
  <2>2. /\ ~Done(r, h, Opening) => Down'
        /\ ~Done(r, h, Closing) => Tailing'
    BY <1>4, <1>5, <1>13, <2>1
  <2> QED BY <1>3, <2>2, Zenon DEF PlaceInv
<1>15. QueueInv'
  <2>1. Solid \/ (Sealed /\ Done(p, << >>, Arming) /\ Tailing)
    BY <1>1, <1>2, Zenon DEF DisarmInv, QueueInv
  <2>2. Solid' \/ (Sealed' /\ Done(r, h, Arming) /\ Tailing')
    BY <1>4, <1>5, <1>13, <2>1
  <2> QED BY <1>3, <1>5, <2>2, Zenon DEF QueueInv
<1> QED BY <1>5, <1>6, <1>8, <1>9, <1>10, <1>11, <1>12, <1>14, <1>15 DEF DisarmInv

\* What the actions of the handler have to do with the watchdog.
LEMMA ActionArms ==
  ASSUME TypeOK, HandleAction
  PROVE  \/ /\ Head(doing) \in Arming /\ outbox' = << StartsTimer >>
            /\ session'.state = "SafeMode" => Head(doing) = Do("OnEntrySafeMode")
         \/ Head(doing) \in Stopping /\ outbox' = << StopsTimer >> /\ session' = session
         \/ /\ Head(doing) \notin Arming \cup Stopping
            /\ outbox' = << >> \/ \E e \in Answered : outbox' = << ToFsm(e) >>
            /\ session'.state = "SafeMode" => session.state = "SafeMode"
<1> DEFINE Arms  == /\ Head(doing) \in Arming /\ outbox' = << StartsTimer >>
                    /\ session'.state = "SafeMode" => Head(doing) = Do("OnEntrySafeMode")
           Stops == Head(doing) \in Stopping /\ outbox' = << StopsTimer >> /\ session' = session
           Other == /\ Head(doing) \notin Arming \cup Stopping
                    /\ outbox' = << >> \/ \E e \in Answered : outbox' = << ToFsm(e) >>
                    /\ session'.state = "SafeMode" => session.state = "SafeMode"
<1>s. session \in [state : StateOfSession, epoch : Nat, attempts : Nat,
                   votes : [Hubs -> Nat], empty : SUBSET Hubs]
  BY DEF TypeOK
<1>h. \A a : Perform(a) => Head(doing) = a /\ outbox = << >>
  BY DEF Perform
<1>q. QuorumAlgorithm(session) \in Answered
  BY <1>s, QuorumAnswers DEF Answered
<1>1. CASE EnterInitBalanceMode
  <2>1. Head(doing) = OnEntry("OnEntryBalance", "InitBalanceMode")
    BY <1>1, <1>h DEF EnterInitBalanceMode
  <2>2. \E e \in Answered : outbox' = << ToFsm(e) >>
    BY <1>1 DEF EnterInitBalanceMode, Answered
  <2>3. session'.state = session.state
    <3>1. \/ session' = [session EXCEPT !.epoch = dbEpoch + 1]
          \/ session' = session
      BY <1>1 DEF EnterInitBalanceMode
    <3> QED BY <3>1, <1>s
  <2>4. Other
    BY <2>1, <2>2, <2>3, ArmingAre
  <2> QED BY <2>4
<1>2. CASE EnterHandshake
  <2>1. PICK s \in {"InHandshake", "OutHandshake"} :
          Perform(OnEntry("OnEntryBalance", s)) /\ session' = [session EXCEPT !.state = s]
    BY <1>2 DEF EnterHandshake
  <2>2. Head(doing) \in Arming
    BY <2>1, <1>h DEF Arming, Opening, Rearming
  <2>3. session'.state = s
    BY <2>1, <1>s
  <2>4. outbox' = << StartsTimer >>
    BY <1>2 DEF EnterHandshake, StartsTimer
  <2>5. Arms
    BY <2>1, <2>2, <2>3, <2>4
  <2> QED BY <2>5
<1>3. CASE EnterCheckQuorum
  <2>1. \E q \in Checks : Head(doing) = OnEntry("OnEntryQuorum", q)
    BY <1>3, <1>h DEF EnterCheckQuorum, Checks
  <2>2. outbox' = << ToFsm(QuorumAlgorithm(session)) >> /\ session' = [session EXCEPT !.state = "Quorum"]
    BY <1>3 DEF EnterCheckQuorum
  <2>3. session'.state = "Quorum"
    BY <2>2, <1>s
  <2>4. Other
    BY <1>q, <2>1, <2>2, <2>3, ArmingAre
  <2> QED BY <2>4
<1>4. CASE EnterRepeatHandshake
  <2>1. PICK q \in {"RepeatHandshakeIn", "RepeatHandshakeOut"} : Perform(OnEntry("OnEntryQuorum", q))
    BY <1>4 DEF EnterRepeatHandshake, RepeatHandshake
  <2>2. Head(doing) \in Arming
    BY <2>1, <1>h DEF Arming, Opening, Closing
  <2>3. session' = [session EXCEPT !.state = "RepeatHandshake", !.attempts = @ + 1,
                                   !.votes = [h \in Hubs |-> 0]]
    BY <1>4 DEF EnterRepeatHandshake, RepeatHandshake
  <2>4. session'.state = "RepeatHandshake"
    BY <2>3, <1>s
  <2>5. outbox' = << StartsTimer >>
    BY <1>4 DEF EnterRepeatHandshake, RepeatHandshake, StartsTimer
  <2>6. Arms
    BY <2>2, <2>4, <2>5
  <2> QED BY <2>6
<1>5. CASE EnterPhase
  <2>1. PICK ph \in SubStatePhase :
          /\ Perform(OnEntry("OnEntryPhase", ph))
          /\ session' = [session EXCEPT !.state = CASE ph = "Alert"   -> "PhaseAlert"
                                                    [] ph = "Data"    -> "PhaseData"
                                                    [] ph = "Monitor" -> "PhaseMonitor",
                                        !.attempts = 0,
                                        !.votes = [h \in Hubs |-> 0], !.empty = {}]
    BY <1>5 DEF EnterPhase
  <2>2. Head(doing) \in Arming
    BY <2>1, <1>h DEF Arming, Rearming
  <2>3. session'.state \in {"PhaseAlert", "PhaseData", "PhaseMonitor"}
    BY <2>1, <1>s DEF SubStatePhase
  <2>4. outbox' = << StartsTimer >>
    BY <1>5 DEF EnterPhase, StartsTimer
  <2>5. Arms
    BY <2>2, <2>3, <2>4
  <2> QED BY <2>5
<1>6. CASE EnterNormal
  <2>1. Head(doing) = Do("OnEntryNormal") /\ outbox' = << >> /\ session' = session
    BY <1>6, <1>h DEF EnterNormal
  <2>2. Other
    BY <2>1, ArmingAre
  <2> QED BY <2>2
<1>7. CASE EnterSafeMode
  <2>1. Head(doing) = Do("OnEntrySafeMode") /\ outbox' = << StartsTimer >>
    BY <1>7, <1>h DEF EnterSafeMode, StartsTimer
  <2>2. Head(doing) \in Arming
    BY <2>1 DEF Arming, Closing
  <2> QED BY <2>1, <2>2
<1>8. CASE EnterDisconnected
  <2>1. Head(doing) = Do("OnEntryDisconnected") /\ outbox' = << >> /\ session' = session
    BY <1>8, <1>h DEF EnterDisconnected
  <2>2. Other
    BY <2>1, ArmingAre
  <2> QED BY <2>2
<1>9. CASE CalculateQuorum
  <2>1. Head(doing) = Do("CalculateQuorum") /\ outbox' = << ToFsm(QuorumAlgorithm(session)) >> /\ session' = session
    BY <1>9, <1>h DEF CalculateQuorum
  <2>2. Other
    BY <1>q, <2>1, ArmingAre
  <2> QED BY <2>2
<1>10. CASE StopTimer
  <2>1. Head(doing) = Do("StopTimer") /\ outbox' = << StopsTimer >> /\ session' = session
    BY <1>10, <1>h DEF StopTimer, StopsTimer
  <2>2. Stops
    BY <2>1 DEF Stopping
  <2> QED BY <2>2
<1>11. CASE StopHeartbeats
  <2>1. PICK a \in {"StopSendHeartbeatMessagePhase", "StopSendHeartbeatMessageSafeMode",
                    "StopSendHeartbeatMessageNormal"} : Perform(Do(a))
    BY <1>11 DEF StopHeartbeats
  <2>2. Head(doing) = Do(a) /\ outbox' = << >> /\ session' = session
    BY <1>11, <1>h, <2>1 DEF StopHeartbeats
  <2>3. Other
    BY <2>2, ArmingAre
  <2> QED BY <2>3
<1>12. CASE SkipAction
  <2>1. PICK b \in {"Quorum", "Phase"} : Perform(OnEntry("OnEntryBalance", b))
    BY <1>12 DEF SkipAction
  <2>2. Head(doing) = OnEntry("OnEntryBalance", b) /\ outbox' = << >> /\ session' = session
    BY <1>12, <1>h, <2>1 DEF SkipAction
  <2>3. Other
    BY <2>2, ArmingAre
  <2> QED BY <2>3
<1> QED BY <1>1, <1>2, <1>3, <1>4, <1>5, <1>6, <1>7, <1>8, <1>9, <1>10, <1>11, <1>12 DEF HandleAction

\* The handler performs an action that does not start the watchdog.
LEMMA DisarmPerforms ==
  ASSUME PipeInv, DisarmInv, HandleAction, Head(doing) \notin Arming, NEW x, x # "Timeout", x # "QuorumSafeMode",
         \/ outbox' = << >> \/ outbox' = << ToFsm(x) >> \/ outbox' = << StopsTimer >>,
         Head(doing) \in Stopping => outbox' = << StopsTimer >>,
         session'.state = "SafeMode" => session.state = "SafeMode"
  PROVE  DisarmInv'
<1>0. Pipe \in Seq(Seq(Action)) /\ doing \in Seq(Action)
  BY PipeTyped
<1>1. PICK a : Perform(a)
  BY HandleActionPerforms
<1>2. /\ doing # << >> /\ doing' = Tail(doing) /\ outbox = << >> /\ fsm' = fsm /\ Pipe' = Pipe
      /\ UNCHANGED << events, timer, timerCmds >>
  BY <1>1, PerformTakes DEF timerVars
<1>3. PICK p, d, r : p = Pipe /\ d = doing /\ r = Tail(doing)
  OBVIOUS
<1>4. Pipe' = p /\ doing' = r
  BY <1>2, <1>3, Zenon
<1>5. /\ \A W, T : Pending(p, d, W, T) => Pending(p, r, W, T) \/ (Done(p, r, W) /\ Head(d) \in W \cap T)
      /\ \A W : Done(p, d, W) => Done(p, r, W)
      /\ \A W : NoneIn(d, W) => NoneIn(r, W)
      /\ \A W : ~NoneIn(d, W) => ~NoneIn(r, W) \/ Head(d) \in W
      /\ Before(d, Arming, Action) => Before(r, Arming, Action)
  <2>1. /\ \A W, T : Pending(Pipe, doing, W, T)
                       => Pending(Pipe, Tail(doing), W, T) \/ (Done(Pipe, Tail(doing), W) /\ Head(doing) \in W \cap T)
        /\ \A W : Done(Pipe, doing, W) => Done(Pipe, Tail(doing), W)
    BY <1>0, <1>2, PerformKeeps
  <2>2. \A W : NoneIn(doing, W) => NoneIn(Tail(doing), W)
    BY <1>0, <1>2, LastOfTail
  <2>3. \A W : ~NoneIn(doing, W) => ~NoneIn(Tail(doing), W) \/ Head(doing) \in W
    <3>1. ASSUME NEW W, Head(doing) \notin W, ~NoneIn(doing, W)
          PROVE  ~NoneIn(Tail(doing), W)
      <4>1. Head(doing) \in Action
        BY <1>0, <1>2, TailElements
      <4> QED BY <1>0, <1>2, <3>1, <4>1, SomeIn
    <3> QED BY <3>1
  <2>4. Before(doing, Arming, Action) => Before(Tail(doing), Arming, Action)
    BY <1>0, <1>2, BeforeOfTail
  <2> QED BY <1>3, <2>1, <2>2, <2>3, <2>4, Zenon
<1>6. /\ Down => Down'
      /\ outbox' = << StopsTimer >> => Down'
      /\ Tidy' /\ Fired' = Fired /\ OneTimeout'
      /\ OnItsWay({"QuorumSafeMode"})' => OnItsWay({"QuorumSafeMode"})
      /\ NoneIn(outbox', {StartsTimer}) /\ (Solid => Solid') /\ (Sealed => Sealed')
  BY <1>2, HandlerAnswers DEF DisarmInv
<1>7. Head(d) \notin Arming /\ (Head(d) \in Stopping => Down')
  BY <1>3, <1>6
<1>8. /\ Calm <=> Done(p, d, Arming) /\ Down
      /\ Calm' <=> Done(p, r, Arming) /\ Down'
  BY <1>3, <1>4, Zenon DEF Calm
<1>9. Calm => Calm'
  BY <1>5, <1>6, <1>8
<1>10. AskedClear' /\ RestsCalm'
  BY <1>2, <1>6, <1>9 DEF DisarmInv, AskedClear, RestsCalm
<1>11. SafeCalm'
  <2>1. /\ ~Done(p, d, {Do("OnEntrySafeMode")}) => Over(fsm)
        /\ session.state = "SafeMode" => Over(fsm) /\ Done(p, d, Arming)
        /\ OnItsWay({"QuorumSafeMode"}) => Over(fsm) /\ Calm
    BY <1>3, Zenon DEF DisarmInv, SafeCalm
  <2>2. /\ ~Done(p, r, {Do("OnEntrySafeMode")}) => Over(fsm')
        /\ session'.state = "SafeMode" => Over(fsm') /\ Done(p, r, Arming)
        /\ OnItsWay({"QuorumSafeMode"})' => Over(fsm') /\ Calm'
    BY <1>2, <1>5, <1>6, <1>9, <2>1
  <2> QED BY <1>4, <2>2, Zenon DEF SafeCalm
<1>12. NormalStops'
  <2>1. fsm.global = "Normal" => Pending(p, d, Arming \cup Stopping, Stopping) \/ Calm
    BY <1>3, Zenon DEF DisarmInv, NormalStops
  <2>2. Done(p, r, Arming \cup Stopping) /\ Head(d) \in (Arming \cup Stopping) \cap Stopping => Calm'
    <3>1. Done(p, r, Arming \cup Stopping) => Done(p, r, Arming)
      BY DEF Done, NoneIn, Busy
    <3> QED BY <1>7, <1>8, <3>1
  <2>3. fsm'.global = "Normal" => Pending(p, r, Arming \cup Stopping, Stopping) \/ Calm'
    BY <1>2, <1>5, <1>9, <2>1, <2>2
  <2> QED BY <1>4, <2>3, Zenon DEF NormalStops
<1>13. OrderInv'
  <2>1. /\ Before(p, Busy(Arming), Busy(Opening)) /\ Before(p, Busy(Closing), Busy(Arming))
        /\ ~NoneIn(d, Arming) => NoneIn(p, Busy(Opening))
        /\ ~NoneIn(d, Closing) => NoneIn(p, Busy(Arming))
    BY <1>3, Zenon DEF DisarmInv, OrderInv
  <2>2. /\ ~NoneIn(r, Arming) => NoneIn(p, Busy(Opening))
        /\ ~NoneIn(r, Closing) => NoneIn(p, Busy(Arming))
    BY <1>5, <2>1
  <2> QED BY <1>4, <2>1, <2>2, Zenon DEF OrderInv
<1>14. ShapeInv'
  <2>1. /\ NoneIn(p, Misshapen) /\ Before(d, Arming, Action)
        /\ NoneIn(d, Rearming) \/ ~NoneIn(d, Stopping) \/ Down
    BY <1>3, Zenon DEF DisarmInv, ShapeInv
  <2>2. Before(r, Arming, Action) /\ (NoneIn(r, Rearming) \/ ~NoneIn(r, Stopping) \/ Down')
    BY <1>5, <1>6, <1>7, <2>1
  <2> QED BY <1>4, <2>1, <2>2, Zenon DEF ShapeInv
<1>15. Tailing => Tailing'
  BY <1>2, <1>6 DEF Tailing
<1>16. PlaceInv'
  <2>1. /\ ~Done(p, d, Opening) => Down
        /\ ~Done(p, d, Closing) => Tailing
    BY <1>3, Zenon DEF DisarmInv, PlaceInv
  <2>2. /\ ~Done(p, r, Opening) => Down'
        /\ ~Done(p, r, Closing) => Tailing'
    BY <1>5, <1>6, <1>15, <2>1
  <2> QED BY <1>4, <2>2, Zenon DEF PlaceInv
<1>17. QueueInv'
  <2>1. Solid \/ (Sealed /\ Done(p, d, Arming) /\ Tailing)
    BY <1>3, Zenon DEF DisarmInv, QueueInv
  <2>2. Solid' \/ (Sealed' /\ Done(p, r, Arming) /\ Tailing')
    BY <1>5, <1>6, <1>15, <2>1
  <2> QED BY <1>4, <1>6, <2>2, Zenon DEF QueueInv
<1> QED BY <1>6, <1>10, <1>11, <1>12, <1>13, <1>14, <1>16, <1>17 DEF DisarmInv

\* The handler performs the action that starts the watchdog, the last of its vector: the
\* watchdog has been stopped, or this is the last InitTimer of all.
LEMMA DisarmStarts ==
  ASSUME PipeInv, DisarmInv, HandleAction, Head(doing) \in Arming, outbox' = << StartsTimer >>,
         session'.state = "SafeMode" => Head(doing) = Do("OnEntrySafeMode")
  PROVE  DisarmInv'
<1>0. Pipe \in Seq(Seq(Action)) /\ doing \in Seq(Action)
  BY PipeTyped
<1>1. PICK a : Perform(a)
  BY HandleActionPerforms
<1>2. /\ doing # << >> /\ doing' = Tail(doing) /\ outbox = << >> /\ fsm' = fsm /\ Pipe' = Pipe
      /\ UNCHANGED << events, timer, timerCmds >>
  BY <1>1, PerformTakes DEF timerVars
<1>3. PICK p, d : p = Pipe /\ d = doing
  OBVIOUS
<1>4. Pipe' = p
  BY <1>2, <1>3, Zenon
<1>5. \A W : Head(d) \in W => ~NoneIn(d, W)
  BY <1>0, <1>2, <1>3, LastOfTail
<1>6. Tail(d) = << >>
  <2>1. Before(d, Arming, Action)
    BY <1>3, Zenon DEF DisarmInv, ShapeInv
  <2>2. NoneIn(Tail(d), Action)
    BY <1>0, <1>2, <1>3, <2>1, BeforeOfTail
  <2>3. Tail(d) \in Seq(Action)
    BY <1>0, <1>2, <1>3, TailElements
  <2>4. \A i \in DOMAIN Tail(d) : Tail(d)[i] \in Action
    BY <2>3
  <2>5. DOMAIN Tail(d) = {}
    BY <2>2, <2>4 DEF NoneIn
  <2>6. Tail(d) # << >> => 1 \in DOMAIN Tail(d)
    BY <2>3, TailElements
  <2> QED BY <2>5, <2>6
<1>7. doing' = << >>
  BY <1>2, <1>3, <1>6, Zenon
<1>8. PICK r : r = << >>
  OBVIOUS
<1>9. doing' = r /\ Tail(d) = r
  BY <1>6, <1>7, <1>8
<1>10. /\ \A W : NoneIn(r, W) /\ (NoneIn(p, Busy(W)) => Done(p, r, W))
       /\ \A X, Y : Before(r, X, Y)
       /\ \A W, T : Pending(p, d, W, T) => Pending(p, r, W, T) \/ Head(d) \in W \cap T
       /\ \A W : Done(p, d, W) => NoneIn(p, Busy(W)) /\ Done(p, r, W)
       /\ \A W : Head(d) \in W => ~Done(p, d, W)
  <2>1. (\A W : NoneIn(r, W)) /\ (\A X, Y : Before(r, X, Y))
    BY <1>8, NothingArmed
  <2>2. \A W, T : Pending(Pipe, doing, W, T)
                    => Pending(Pipe, Tail(doing), W, T) \/ (Done(Pipe, Tail(doing), W) /\ Head(doing) \in W \cap T)
    BY <1>0, <1>2, PerformKeeps
  <2>3. \A W, T : Pending(p, d, W, T) => Pending(p, r, W, T) \/ Head(d) \in W \cap T
    BY <1>3, <1>9, <2>2, Zenon
  <2> QED BY <1>5, <2>1, <2>3 DEF Done
<1>11. ~Done(p, d, Arming) /\ Head(d) \in Arming /\ ~NoneIn(d, Arming)
  BY <1>3, <1>5, <1>10
<1>12. ~Calm /\ Solid
  <2>1. ~Calm
    BY <1>3, <1>11, Zenon DEF Calm
  <2>2. Solid
    BY <1>3, <1>11, Zenon DEF DisarmInv, QueueInv
  <2> QED BY <2>1, <2>2
<1>13. ~Rest(fsm) /\ ((Greets(fsm) \/ fsm.global = "SafeMode") => ~Fired) /\ ~OnItsWay({"QuorumSafeMode"})
  BY <1>12 DEF DisarmInv, RestsCalm, SafeCalm
<1>14. Fired' = Fired /\ OneTimeout'
  BY <1>2 DEF DisarmInv, Fired, OneTimeout
<1>15. Tidy' /\ ~OnItsWay({"QuorumSafeMode"})'
  <2>1. \A e : StartsTimer # ToFsm(e)
    BY DEF StartsTimer, ToTimer, ToFsm
  <2>2. Tidy'
    BY <2>1 DEF Tidy, StopsTimer
  <2>3. Head(outbox') # ToFsm("QuorumSafeMode")
    BY <2>1
  <2> QED BY <1>2, <1>13, <2>2, <2>3 DEF OnItsWay
<1>16. AskedClear' /\ RestsCalm'
  BY <1>2, <1>13, <1>14 DEF DisarmInv, AskedClear, RestsCalm
<1>17. NoneIn(p, Busy(Opening)) /\ (Head(d) \in Closing => NoneIn(p, Busy(Arming)))
  <2>1. /\ ~NoneIn(d, Arming) => NoneIn(p, Busy(Opening))
        /\ ~NoneIn(d, Closing) => NoneIn(p, Busy(Arming))
    BY <1>3, Zenon DEF DisarmInv, OrderInv
  <2> QED BY <1>5, <1>11, <2>1
<1>18. SafeCalm'
  <2>1. ~Done(p, d, {Do("OnEntrySafeMode")}) => Over(fsm)
    BY <1>3, Zenon DEF DisarmInv, SafeCalm
  <2>2. ~Done(p, r, {Do("OnEntrySafeMode")}) => Over(fsm')
    BY <1>2, <1>10, <2>1
  <2>3. session'.state = "SafeMode" => Over(fsm') /\ Done(p, r, Arming)
    <3> SUFFICES ASSUME session'.state = "SafeMode" PROVE Over(fsm') /\ Done(p, r, Arming)
      OBVIOUS
    <3>1. Head(d) = Do("OnEntrySafeMode")
      BY <1>3
    <3>2. Head(d) \in {Do("OnEntrySafeMode")} /\ Head(d) \in Closing
      BY <3>1 DEF Closing
    <3>3. ~Done(p, d, {Do("OnEntrySafeMode")})
      BY <1>10, <3>2
    <3> QED BY <1>2, <1>10, <1>17, <2>1, <3>2, <3>3
  <2> QED BY <1>4, <1>9, <1>15, <2>2, <2>3, Zenon DEF SafeCalm
<1>19. NormalStops'
  <2>1. fsm.global = "Normal" => Pending(p, d, Arming \cup Stopping, Stopping)
    BY <1>3, <1>12, Zenon DEF DisarmInv, NormalStops
  <2>2. Head(d) \notin (Arming \cup Stopping) \cap Stopping
    BY <1>11, ArmingAre
  <2>3. fsm'.global = "Normal" => Pending(p, r, Arming \cup Stopping, Stopping)
    BY <1>2, <1>10, <2>1, <2>2
  <2> QED BY <1>4, <1>9, <2>3, Zenon DEF NormalStops
<1>20. OrderInv' /\ ShapeInv'
  <2>1. Before(p, Busy(Arming), Busy(Opening)) /\ Before(p, Busy(Closing), Busy(Arming)) /\ NoneIn(p, Misshapen)
    BY <1>3, Zenon DEF DisarmInv, OrderInv, ShapeInv
  <2>2. NoneIn(r, Arming) /\ NoneIn(r, Closing) /\ NoneIn(r, Rearming) /\ Before(r, Arming, Action)
    BY <1>10
  <2> QED BY <1>4, <1>9, <2>1, <2>2, Zenon DEF OrderInv, ShapeInv
<1>21. /\ ~Done(p, d, Opening) => Down
       /\ ~Done(p, d, Closing) => Tailing
  BY <1>3, Zenon DEF DisarmInv, PlaceInv
<1>22. Tailing => Tailing'
  BY <1>2, <1>14 DEF Tailing
<1>23. PlaceInv'
  <2>1. Done(p, r, Opening) /\ (~Done(p, r, Closing) => Tailing')
    BY <1>10, <1>17, <1>21, <1>22
  <2> QED BY <1>4, <1>9, <2>1, Zenon DEF PlaceInv
<1>24. QueueInv'
  <2>1. timer # "deaf" /\ AllGuarded(timer, timerCmds)
    BY <1>12 DEF Solid
  <2>2. Down => Solid'
    <3>1. Down => Low(timer, timerCmds)
      BY <1>2 DEF Down
    <3> QED BY <1>2, <2>1, <3>1 DEF Solid
  <2>3. Head(d) \in Opening => Down
    BY <1>10, <1>21
  <2>4. Head(d) \in Rearming => Down
    <3> SUFFICES ASSUME Head(d) \in Rearming PROVE Down
      OBVIOUS
    <3>1. NoneIn(d, Rearming) \/ ~NoneIn(d, Stopping) \/ Down
      BY <1>3, Zenon DEF DisarmInv, ShapeInv
    <3>2. NoneIn(d, Stopping)
      <4>1. Head(d) \notin Stopping /\ Head(d) \in Action
        BY <1>11, ArmingAre
      <4>2. NoneIn(Tail(d), Stopping)
        BY <1>9, <1>10
      <4>3. d \in Seq(Action) /\ d # << >>
        BY <1>0, <1>2, <1>3
      <4> QED BY <4>1, <4>2, <4>3, SomeIn
    <3> QED BY <1>5, <3>1, <3>2
  <2>5. Head(d) \in Closing => Sealed' /\ Done(p, r, Arming) /\ Tailing'
    <3>1. Sealed'
      BY <1>2, <2>1 DEF Sealed, StartsTimer
    <3>2. Head(d) \in Closing => Tailing
      BY <1>10, <1>21
    <3> QED BY <1>10, <1>17, <1>22, <3>1, <3>2
  <2>6. Head(d) \in Opening \/ Head(d) \in Rearming \/ Head(d) \in Closing
    BY <1>11 DEF Arming
  <2>7. Solid' \/ (Sealed' /\ Done(p, r, Arming) /\ Tailing')
    BY <2>2, <2>3, <2>4, <2>5, <2>6
  <2>8. outbox' = << StartsTimer >>'
    BY DEF StartsTimer
  <2> QED BY <1>4, <1>9, <2>7, <2>8, Zenon DEF QueueInv
<1> QED BY <1>14, <1>15, <1>16, <1>18, <1>19, <1>20, <1>23, <1>24 DEF DisarmInv

\* The machine and the broker do not part.
Connected == fsm.global # "Disconnected"

\* run_fsm receives an event, or sends its vector.
LEMMA DisarmRunFsm ==
  ASSUME PipeInv, DisarmInv, Connected, Connected', RunFsm
  PROVE  DisarmInv'
<1>0. TypeOK /\ OneTimeout
  BY DEF PipeInv, DisarmInv
<1>1. UNCHANGED << session, outbox, timer, timerCmds >>
  BY DEF RunFsm, FsmStart, FsmTurn, FsmUnblocked, handlerVars, timerVars
<1>2. CASE fsm.global = "Start" /\ Transits("Start") /\ UNCHANGED events
  <2>1. OneTimeout' /\ Fired' = Fired /\ OnItsWay({"QuorumSafeMode"})' = OnItsWay({"QuorumSafeMode"})
    BY <1>0, <1>1, <1>2 DEF OneTimeout, Fired, OnItsWay
  <2>2. PICK e \in Event : e = "Start"
    BY DEF Event
  <2>3. Transits(e) /\ e # "Timeout" /\ e # "QuorumSafeMode"
    BY <1>2, <2>2
  <2> QED BY <1>1, <2>1, <2>2, <2>3, DisarmTransits DEF Connected
<1>3. CASE FsmTurn /\ events # << >> /\ Transits(Head(events))
  <2>1. events' = Tail(events)
    BY <1>3 DEF FsmTurn
  <2>2. /\ OneTimeout' /\ (Fired' => Fired)
        /\ Head(events) = "Timeout" => Fired /\ ~Fired'
        /\ OnItsWay({"QuorumSafeMode"})' => OnItsWay({"QuorumSafeMode"})
        /\ Head(events) = "QuorumSafeMode" => OnItsWay({"QuorumSafeMode"})
    BY <1>0, <1>1, <1>3, <2>1, TakesEvent
  <2>3. events \in Seq(Event)
    BY <1>0 DEF TypeOK
  <2>4. PICK e \in Event : e = Head(events)
    BY <1>3, <2>3, ChannelTypes
  <2>5. /\ Transits(e)
        /\ e = "Timeout" => Fired /\ ~Fired'
        /\ e = "QuorumSafeMode" => OnItsWay({"QuorumSafeMode"})
    BY <1>3, <2>2, <2>4
  <2> QED BY <1>1, <2>2, <2>5, DisarmTransits DEF Connected
<1>4. CASE FsmTurn /\ events # << >> /\ PipeSame
  BY <1>0, <1>4, DisarmIgnores
<1>5. CASE FsmUnblocked /\ UNCHANGED events /\ PipeSame
  BY <1>1, <1>5, DisarmSame
<1> QED BY <1>2, <1>3, <1>4, <1>5, RunFsmSends

\* Every step of a machine that is and stays connected.
LEMMA DisarmStep ==
  ASSUME Prompt = TRUE, PipeInv, EnteredInv, DisarmInv, Connected, Connected', [Next]_vars
  PROVE  DisarmInv'
<1>0. TypeOK
  BY DEF PipeInv
<1>1. CASE RunFsm
  BY <1>1, DisarmRunFsm
<1>2. CASE TakeActions
  BY <1>2, TakeActionsTakes, DisarmTakes DEF timerVars
<1>3. CASE HandleAction
  <2>1. CASE /\ Head(doing) \in Arming /\ outbox' = << StartsTimer >>
             /\ session'.state = "SafeMode" => Head(doing) = Do("OnEntrySafeMode")
    BY <1>3, <2>1, DisarmStarts
  <2>2. CASE Head(doing) \in Stopping /\ outbox' = << StopsTimer >> /\ session' = session
    <3>1. PICK x : x = "Start"
      OBVIOUS
    <3>2. x # "Timeout" /\ x # "QuorumSafeMode" /\ Head(doing) \notin Arming
      BY <2>2, <3>1, ArmingAre
    <3> QED BY <1>3, <2>2, <3>2, DisarmPerforms
  <2>3. CASE /\ Head(doing) \notin Arming \cup Stopping
             /\ outbox' = << >> \/ \E e \in Answered : outbox' = << ToFsm(e) >>
             /\ session'.state = "SafeMode" => session.state = "SafeMode"
    <3>1. PICK x \in Answered : outbox' = << >> \/ outbox' = << ToFsm(x) >>
      BY <2>3 DEF Answered
    <3>2. x # "Timeout" /\ x # "QuorumSafeMode"
      BY <3>1 DEF Answered
    <3> QED BY <1>3, <2>3, <3>1, <3>2, DisarmPerforms
  <2> QED BY <1>0, <1>3, <2>1, <2>2, <2>3, ActionArms
<1>4. CASE HandleHandshake \/ HandleQueue \/ HandleQueueSafe \/ HandleConnection
  BY <1>0, <1>4, DisarmCommands
<1>5. CASE HandlerSend
  BY <1>0, <1>5, DisarmSend
<1>6. CASE Timer
  BY <1>0, <1>6, DisarmReceive, DisarmFire DEF Timer
<1>7. CASE TimerExpire
  BY <1>7, DisarmExpire
<1>8. CASE Crash
  BY <1>8, DisarmCrash
<1>9. CASE UNCHANGED vars \/ HubMessage \/ LinkEvent \/ TopologyChange
  <2>1. UNCHANGED << fsm, actions, held, doing, session, events, outbox, timer, timerCmds >>
    BY <1>9 DEF vars, HubMessage, LinkEvent, TopologyChange, Deliver, fsmVars, handlerVars, timerVars
  <2>2. PipeSame
    BY <2>1, Zenon DEF PipeSame, Pipe
  <2> QED BY <2>1, <2>2, DisarmSame
<1> QED BY <1>1, <1>2, <1>3, <1>4, <1>5, <1>6, <1>7, <1>8, <1>9 DEF Next, Handler, Environment

\* When nothing is on its way in the normal mode no action that starts the watchdog is pending
\* and its last command stopped it, so that a sleep still running has the StopTimer behind it.
LEMMA QuietDisarmed ==
  ASSUME PipeInv, DisarmInv, Quiet, fsm.global = "Normal"
  PROVE  \/ timer = "idle"
         \/ timer = "deaf" /\ timerCmds # << >> /\ timerCmds[Len(timerCmds)] = "StopTimer"
<1>1. /\ Pipe = << >> /\ doing = << >> /\ outbox = << >>
      /\ timer # "firing" /\ (timerCmds = << >> \/ timer = "deaf")
  BY JoinEmpty DEF Quiet, Pipe
<1>2. ~Pending(<< >>, << >>, Arming \cup Stopping, Stopping)
  BY NothingPending
<1>3. Calm
  BY <1>1, <1>2, Zenon DEF DisarmInv, NormalStops
<1>4. Low(timer, timerCmds)
  BY <1>1, <1>3 DEF Calm, Down
<1> QED BY <1>1, <1>4 DEF Low, Newest

\* As long as the broker of the edge brings no news (MaxLinkEvents = 0) and the tasks handle
\* what is on its way before a sleep of at least thirty seconds ends (Prompt): when nothing is
\* on its way in the normal mode the watchdog is disarmed, or it sleeps without listening with
\* the StopTimer of the balance behind it, whatever Timeout raced whatever quorum before.
THEOREM NormalDisarmedCorrect ==
  ASSUME Prompt = TRUE, MaxLinkEvents = 0
  PROVE  Spec => []NormalDisarmed
<1>1. LinkInv /\ link = "Unknown" => Connected
  BY NeverDisconnected DEF Connected
<1>2. Spec => []Connected
  BY <1>1, NoNews, PTL
<1>3. PipeInv /\ EnteredInv /\ DisarmInv /\ Connected /\ Connected' /\ [Next]_vars => DisarmInv'
  BY DisarmStep
<1>4. Spec => []DisarmInv
  BY <1>2, <1>3, DisarmInit, EnteredAlways, PTL DEF Spec
<1>5. PipeInv /\ DisarmInv => NormalDisarmed
  BY QuietDisarmed DEF NormalDisarmed
<1> QED BY <1>4, <1>5, PipeAlways, PTL

-----------------------------------------------------------------------------
(* The attempts *)

\* The entries of the repeated handshakes; one of them is still to be performed; the vectors
\* that have more to do than such an entry.
RepeatEntries == { OnEntry("OnEntryQuorum", q) : q \in Repeats }
Repeating     == ~Done(Pipe, doing, RepeatEntries)
Crowded       == { v \in Busy(RepeatEntries) : Len(v) # 1 }

\* Of the vectors p on their way and of what is left of the one in hand, d: there is one such
\* entry at most, alone in its vector.
Single(p, d) == /\ Before(p, Busy(RepeatEntries), Busy(RepeatEntries)) /\ NoneIn(p, Crowded)
                /\ NoneIn(d, RepeatEntries) \/ (Len(d) = 1 /\ NoneIn(p, Busy(RepeatEntries)))

\* An answer that the quorum was not reached is on its way to run_fsm, to a check or to a count.
Refusal == ToFsm("NotApproveQuorum")
Refused == ~NoneIn(events, {"NotApproveQuorum"}) \/ ~NoneIn(outbox, {Refusal})

\* A Timeout is on its way, or the machine waits for the answer to the check it led to.
Due == Fired \/ fsm.quorum \in Checks

\* The inductive invariant: a Timeout, the check it leads to and the repetition that this leads
\* to follow each other, one at a time, and an answer that the check may take was given while
\* attempts were left.
Unsent     == NoneIn(outbox, {ToFsm("Timeout")})
OneAtATime == (Fired => fsm.quorum \notin Checks) /\ (Due => ~Repeating)
Allowed    == /\ (Due /\ Refused) \/ Repeating => session.attempts <= MaxAttempts
              /\ session.attempts <= MaxAttempts + 1
RepeatInv  == OneTimeout /\ Unsent /\ Single(Pipe, doing) /\ OneAtATime /\ Allowed

\* A check comes from a Timeout; a repetition comes alone, from a refusal of a check.
LEMMA StepRepeats ==
  ASSUME NEW s \in FsmState, Hierarchical(s), NEW e \in Event, NEW t \in Step(s, e)
  PROVE  /\ t.to.quorum \in Checks => e = "Timeout"
         /\ \/ NoneIn(t.acts, RepeatEntries)
            \/ /\ s.quorum \in Checks /\ e = "NotApproveQuorum"
               /\ t.to.quorum \notin Checks /\ Len(t.acts) = 1
<1> DEFINE u == t.to
           v == t.acts
           Good == /\ u.quorum \in Checks => e = "Timeout"
                   /\ \/ NoneIn(v, RepeatEntries)
                      \/ s.quorum \in Checks /\ e = "NotApproveQuorum" /\ u.quorum \notin Checks /\ Len(v) = 1
<1>1. Stays(s, e, u, v) \/ Moves(s, e, u, v)
  BY TransitionIs
<1>2. /\ \A a : a \notin RepeatEntries => NoneIn(<< a >>, RepeatEntries)
      /\ \A a, b : a \notin RepeatEntries /\ b \notin RepeatEntries => NoneIn(<< a, b >>, RepeatEntries)
      /\ \A a, b, c : a \notin RepeatEntries /\ b \notin RepeatEntries /\ c \notin RepeatEntries
           => NoneIn(<< a, b, c >>, RepeatEntries)
      /\ NoneIn(<< >>, RepeatEntries)
  BY DEF NoneIn
<1>3. /\ \A a : Do(a) \notin RepeatEntries
      /\ \A b : OnEntry("OnEntryBalance", b) \notin RepeatEntries
      /\ \A p : OnEntry("OnEntryPhase", p) \notin RepeatEntries
      /\ \A q \in Checks : OnEntry("OnEntryQuorum", q) \notin RepeatEntries
  BY DEF RepeatEntries, Do, OnEntry, Repeats, Checks, None
<1>4. /\ \A g : Global(g).quorum \notin Checks
      /\ \A b : Balance(b).quorum \notin Checks
      /\ \A p : Phase(p).quorum \notin Checks
      /\ \A q \in Repeats : Quorum(q).quorum \notin Checks
  BY DEF Global, Balance, Phase, Quorum, Checks, Repeats, None
<1> HIDE DEF u, v
<1>5. Stays(s, e, u, v) => Good
  BY <1>2, <1>3, <1>4 DEF Stays
<1>6. ToInit(s, e, u, v) => Good
  BY <1>2, <1>3, <1>4 DEF ToInit
<1>7. ToInHandshake(s, e, u, v) => Good
  BY <1>2, <1>3, <1>4 DEF ToInHandshake
<1>8. ToSafeMode(s, e, u, v) => Good
  BY <1>2, <1>3, <1>4 DEF ToSafeMode
<1>9. ToCheck(s, e, u, v) => Good
  BY <1>2, <1>3, <1>4 DEF ToCheck
<1>10. ToRepeat(s, e, u, v) => Good
  <2> SUFFICES ASSUME ToRepeat(s, e, u, v) PROVE Good
    OBVIOUS
  <2>1. PICK q \in Repeats : /\ s.quorum \in Checks /\ e = "NotApproveQuorum"
                             /\ u = Quorum(q) /\ v = << OnEntry("OnEntryQuorum", q) >>
    BY DEF ToRepeat
  <2>2. \A a : Len(<< a >>) = 1
    OBVIOUS
  <2>3. Len(v) = 1
    BY <2>1, <2>2, Zenon
  <2> QED BY <1>4, <2>1, <2>3
<1>11. ToAlert(s, e, u, v) => Good
  BY <1>2, <1>3, <1>4 DEF ToAlert
<1>12. ToNextPhase(s, e, u, v) => Good
  BY <1>2, <1>3, <1>4 DEF ToNextPhase
<1>13. ToOutHandshake(s, e, u, v) => Good
  BY <1>2, <1>3, <1>4 DEF ToOutHandshake
<1>14. ToNormal(s, e, u, v) => Good
  BY <1>2, <1>3, <1>4 DEF ToNormal
<1>15. ToDisconnected(s, e, u, v) => Good
  BY <1>2, <1>3, <1>4 DEF ToDisconnected
<1> QED BY <1>1, <1>5, <1>6, <1>7, <1>8, <1>9, <1>10, <1>11, <1>12, <1>13, <1>14, <1>15 DEF Moves, u, v

\* run_fsm sends one more vector.
LEMMA SingleSent ==
  ASSUME NEW p \in Seq(Seq(Action)), NEW d \in Seq(Action), NEW v \in Seq(Action), Single(p, d),
         NoneIn(v, RepeatEntries) \/ (Done(p, d, RepeatEntries) /\ Len(v) = 1)
  PROVE  Single(Append(p, v), d)
<1> DEFINE V == Seq(Action)
           B == Busy(RepeatEntries)
<1>1. p \in Seq(V) /\ v \in V
  OBVIOUS
<1>2. v \notin Crowded
  BY DEF Crowded, Busy
<1>3. NoneIn(v, RepeatEntries) => v \notin B
  BY DEF Busy
<1>4. Before(p, B, B) /\ NoneIn(p, Crowded) /\ (NoneIn(d, RepeatEntries) \/ (Len(d) = 1 /\ NoneIn(p, B)))
  BY DEF Single
<1>5. v \notin B \/ NoneIn(p, B)
  BY <1>3 DEF Done
<1> HIDE DEF V, B
<1>6. Before(Append(p, v), B, B)
  BY <1>1, <1>4, <1>5, BeforeOfAppend
<1>7. NoneIn(Append(p, v), Crowded)
  BY <1>1, <1>2, <1>4, LastOfAppend
<1>8. v \notin B /\ NoneIn(p, B) => NoneIn(Append(p, v), B)
  BY <1>1, LastOfAppend
<1>9. NoneIn(d, RepeatEntries) \/ (Len(d) = 1 /\ NoneIn(Append(p, v), B))
  BY <1>3, <1>4, <1>8 DEF Done, B
<1> QED BY <1>6, <1>7, <1>9 DEF Single, B

\* The handler takes the next vector.
LEMMA SingleTaken ==
  ASSUME NEW p \in Seq(Seq(Action)), p # << >>, Single(p, << >>)
  PROVE  Single(Tail(p), Head(p))
<1> DEFINE V == Seq(Action)
           B == Busy(RepeatEntries)
<1>1. p \in Seq(V)
  OBVIOUS
<1>2. Before(p, B, B) /\ NoneIn(p, Crowded)
  BY DEF Single
<1> HIDE DEF V, B
<1>3. Head(p) \in V
  BY <1>1, TailElements
<1>4. Before(Tail(p), B, B) /\ (Head(p) \in B => NoneIn(Tail(p), B))
  BY <1>1, <1>2, BeforeOfTail
<1>5. NoneIn(Tail(p), Crowded) /\ Head(p) \notin Crowded
  BY <1>1, <1>2, LastOfTail
<1>6. NoneIn(Head(p), RepeatEntries) \/ Head(p) \in B
  BY <1>3 DEF B, V, Busy
<1>7. Head(p) \in B => Len(Head(p)) = 1
  BY <1>5 DEF Crowded, B
<1> QED BY <1>4, <1>5, <1>6, <1>7 DEF Single, B

\* The handler performs the next action: when it is such an entry, there is none left.
LEMMA SinglePerformed ==
  ASSUME NEW p, NEW d \in Seq(Action), d # << >>, Single(p, d)
  PROVE  /\ Single(p, Tail(d))
         /\ Head(d) \in RepeatEntries => Done(p, Tail(d), RepeatEntries) /\ ~Done(p, d, RepeatEntries)
<1>1. /\ NoneIn(d, RepeatEntries) => NoneIn(Tail(d), RepeatEntries) /\ Head(d) \notin RepeatEntries
      /\ Len(d) = 1 => Tail(d) = << >>
  <2>1. NoneIn(d, RepeatEntries) => NoneIn(Tail(d), RepeatEntries) /\ Head(d) \notin RepeatEntries
    BY LastOfTail
  <2>2. Len(d) = 1 => Tail(d) = << >>
    BY TailElements, EmptyLength
  <2> QED BY <2>1, <2>2
<1>2. NoneIn(<< >>, RepeatEntries)
  BY LastOfEmpty
<1>3. NoneIn(d, RepeatEntries) \/ (Len(d) = 1 /\ NoneIn(p, Busy(RepeatEntries)))
  BY DEF Single
<1>4. NoneIn(Tail(d), RepeatEntries)
  BY <1>1, <1>2, <1>3
<1> QED BY <1>1, <1>3, <1>4 DEF Single, Done

\* Of what the handler does only the phases and the repetitions have to do with the attempts.
LEMMA AttemptsKept ==
  ASSUME TypeOK, Handler, ~EnterPhase, ~EnterRepeatHandshake
  PROVE  session'.attempts = session.attempts
<1>1. session \in [state : StateOfSession, epoch : Nat, attempts : Nat,
                   votes : [Hubs -> Nat], empty : SUBSET Hubs]
  BY DEF TypeOK
<1>2. CASE HandleHandshake
  BY <1>1, <1>2 DEF HandleHandshake
<1>3. CASE HandleQueue \/ HandleQueueSafe
  BY <1>1, <1>3 DEF HandleQueue, HandleQueueSafe, CountEmpty
<1>4. CASE HandleConnection \/ HandlerSend
  BY <1>4 DEF HandleConnection, HandlerSend
<1>5. CASE HandleAction
  <2>1. EnterInitBalanceMode => session'.attempts = session.attempts
    BY <1>1 DEF EnterInitBalanceMode
  <2>2. EnterHandshake => session'.attempts = session.attempts
    BY <1>1 DEF EnterHandshake
  <2>3. EnterCheckQuorum \/ EnterSafeMode => session'.attempts = session.attempts
    BY <1>1 DEF EnterCheckQuorum, EnterSafeMode
  <2>4. EnterNormal \/ EnterDisconnected \/ CalculateQuorum \/ StopTimer \/ StopHeartbeats \/ SkipAction
          => session' = session
    BY DEF EnterNormal, EnterDisconnected, CalculateQuorum, StopTimer, StopHeartbeats, SkipAction
  <2> QED BY <1>5, <2>1, <2>2, <2>3, <2>4 DEF HandleAction
<1> QED BY <1>2, <1>3, <1>4, <1>5 DEF Handler

\* The handler has no Timeout to send, and a refusal only when a check or a count of its own
\* finds attempts left.
LEMMA HandlerRefuses ==
  ASSUME TypeOK, Handler, Unsent
  PROVE  /\ Unsent'
         /\ \/ NoneIn(outbox, {Refusal}) => NoneIn(outbox', {Refusal})
            \/ session.attempts <= MaxAttempts /\ (EnterCheckQuorum \/ CalculateQuorum)
<1>0. session.attempts \in Nat /\ outbox \in Seq(Message) /\ MaxAttempts \in Nat
  BY BoundsAssumption DEF TypeOK
<1>1. ASSUME NEW S
      PROVE  /\ NoneIn(<< >>, S)
             /\ \A m : m \notin S => NoneIn(<< m >>, S)
             /\ \A m, n : m \notin S /\ n \notin S => NoneIn(<< m, n >>, S)
  BY DEF NoneIn
<1>2. /\ \A e : e # "NotApproveQuorum" => ToFsm(e) \notin {Refusal}
      /\ \A e : e # "Timeout" => ToFsm(e) \notin {ToFsm("Timeout")}
      /\ \A c : ToTimer(c) \notin {Refusal} /\ ToTimer(c) \notin {ToFsm("Timeout")}
  BY DEF Refusal, ToFsm, ToTimer
<1> DEFINE Good == Unsent' /\ NoneIn(outbox', {Refusal})
<1>3. ASSUME NEW e, e \notin {"NotApproveQuorum", "Timeout"}, outbox' = << ToFsm(e) >> PROVE Good
  <2>1. NoneIn(<< ToFsm(e) >>, {Refusal}) /\ NoneIn(<< ToFsm(e) >>, {ToFsm("Timeout")})
    BY <1>1, <1>2, <1>3
  <2> QED BY <1>3, <2>1 DEF Unsent
<1>4. ASSUME NEW e, NEW c, e \notin {"NotApproveQuorum", "Timeout"}, outbox' = << ToFsm(e), ToTimer(c) >> PROVE Good
  <2>1. NoneIn(<< ToFsm(e), ToTimer(c) >>, {Refusal}) /\ NoneIn(<< ToFsm(e), ToTimer(c) >>, {ToFsm("Timeout")})
    BY <1>1, <1>2, <1>4
  <2> QED BY <1>4, <2>1 DEF Unsent
<1>5. ASSUME NEW c, outbox' = << ToTimer(c) >> PROVE Good
  <2>1. NoneIn(<< ToTimer(c) >>, {Refusal}) /\ NoneIn(<< ToTimer(c) >>, {ToFsm("Timeout")})
    BY <1>1, <1>2
  <2> QED BY <1>5, <2>1 DEF Unsent
<1>6. outbox' = << >> => Good
  <2>1. NoneIn(<< >>, {Refusal}) /\ NoneIn(<< >>, {ToFsm("Timeout")})
    BY <1>1
  <2> QED BY <2>1 DEF Unsent
<1>7. outbox' = outbox => Unsent'
  BY DEF Unsent
<1> HIDE DEF Good
<1>8. CASE HandleAction /\ ~EnterCheckQuorum /\ ~CalculateQuorum
  <2>1. EnterInitBalanceMode => Good
    <3>1. EnterInitBalanceMode => \E e \in {"BalanceEpochOk", "BalanceEpochNotOk"} : outbox' = << ToFsm(e) >>
      BY DEF EnterInitBalanceMode
    <3> QED BY <1>3, <3>1
  <2>2. EnterHandshake => outbox' = << ToTimer("InitTimer") >>
    BY DEF EnterHandshake
  <2>3. EnterRepeatHandshake => outbox' = << ToTimer("InitTimer") >>
    BY DEF EnterRepeatHandshake, RepeatHandshake
  <2>4. EnterPhase => outbox' = << ToTimer("InitTimer") >>
    BY DEF EnterPhase
  <2>5. EnterSafeMode => outbox' = << ToTimer("InitTimer") >>
    BY DEF EnterSafeMode
  <2>6. StopTimer => outbox' = << ToTimer("StopTimer") >>
    BY DEF StopTimer
  <2>7. EnterNormal \/ EnterDisconnected \/ StopHeartbeats \/ SkipAction => outbox' = << >>
    BY DEF EnterNormal, EnterDisconnected, StopHeartbeats, SkipAction, Perform
  <2>8. Good
    BY <1>5, <1>6, <1>8, <2>1, <2>2, <2>3, <2>4, <2>5, <2>6, <2>7 DEF HandleAction
  <2> QED BY <2>8 DEF Good
<1>9. CASE EnterCheckQuorum \/ CalculateQuorum
  <2>1. PICK x : x = QuorumAlgorithm(session)
    OBVIOUS
  <2>2. outbox' = << ToFsm(x) >>
    BY <1>9, <2>1 DEF EnterCheckQuorum, CalculateQuorum
  <2>3. x \in {"ApproveQuorum", "NotApproveQuorum", "NotApproveNotAttempts"}
    BY <1>0, <2>1, QuorumAnswers
  <2>4. CASE x = "NotApproveQuorum"
    <3>1. session.attempts <= MaxAttempts
      BY <1>0, <2>1, <2>4 DEF QuorumAlgorithm
    <3>2. NoneIn(<< ToFsm(x) >>, {ToFsm("Timeout")})
      BY <1>1, <1>2, <2>4
    <3>3. Unsent'
      BY <2>2, <3>2 DEF Unsent
    <3> QED BY <1>9, <3>1, <3>3
  <2>5. CASE x # "NotApproveQuorum"
    <3>1. Good
      BY <1>3, <2>2, <2>3, <2>5
    <3> QED BY <3>1 DEF Good
  <2> QED BY <2>4, <2>5
<1>10. CASE HandlerSend
  <2>1. outbox # << >> /\ outbox' = Tail(outbox)
    BY <1>10 DEF HandlerSend
  <2>2. \A S : NoneIn(outbox, S) => NoneIn(Tail(outbox), S)
    BY <1>0, <2>1, LastOfTail
  <2> QED BY <2>1, <2>2 DEF Unsent
<1>11. CASE HandleHandshake \/ HandleQueue \/ HandleQueueSafe \/ HandleConnection
  <2>1. HandleHandshake => outbox' = << ToFsm("NewMessageHandshake") >> \/ outbox' = outbox
    BY DEF HandleHandshake
  <2>2. HandleQueue => \/ outbox' = << ToFsm("QuorumPhase"), ToTimer("StopTimer") >> \/ outbox' = << >> \/ outbox' = outbox
    BY DEF HandleQueue, CountEmpty
  <2>3. HandleQueueSafe => \/ outbox' = << ToFsm("QuorumSafeMode"), ToTimer("StopTimer") >> \/ outbox' = << >> \/ outbox' = outbox
    BY DEF HandleQueueSafe, CountEmpty
  <2>4. HandleConnection => \E k \in {"LocalConnected", "LocalDisconnected"} : outbox' = << ToFsm(k) >>
    BY DEF HandleConnection, TakeCommand
  <2>5. Good \/ outbox' = outbox
    BY <1>3, <1>4, <1>6, <1>11, <2>1, <2>2, <2>3, <2>4
  <2> QED BY <1>7, <2>5 DEF Good
<1> QED BY <1>8, <1>9, <1>10, <1>11 DEF Handler

\* Nothing happens to the machine, to the vectors and to the attempts.
LEMMA RepeatStill ==
  ASSUME RepeatInv, PipeSame, session'.attempts = session.attempts, OneTimeout', Unsent', Fired' => Fired,
         Refused' => Refused \/ session.attempts <= MaxAttempts
  PROVE  RepeatInv'
<1>1. PICK p, d : p = Pipe /\ d = doing
  OBVIOUS
<1>2. Pipe' = p /\ doing' = d /\ fsm' = fsm
  BY <1>1 DEF PipeSame
<1>3. Repeating' = Repeating
  BY <1>1, <1>2, Zenon DEF Repeating
<1>4. Single(Pipe, doing)'
  <2>1. Single(p, d)
    BY <1>1, Zenon DEF RepeatInv
  <2> QED BY <1>2, <2>1, Zenon DEF Single
<1>5. Due' => Due
  BY <1>2 DEF Due
<1>6. OneAtATime'
  BY <1>2, <1>3, <1>5 DEF RepeatInv, OneAtATime
<1>7. Allowed'
  BY <1>3, <1>5 DEF RepeatInv, Allowed
<1> QED BY <1>4, <1>6, <1>7 DEF RepeatInv

\* run_fsm makes a transition.
LEMMA RepeatTransits ==
  ASSUME PipeInv, RepeatInv, NEW e \in Event, Transits(e), UNCHANGED << session, outbox >>,
         OneTimeout', Fired' => Fired, e = "Timeout" => Fired /\ ~Fired',
         Refused' => Refused, e = "NotApproveQuorum" => Refused
  PROVE  RepeatInv'
<1>0. Pipe \in Seq(Seq(Action)) /\ doing \in Seq(Action) /\ fsm \in FsmState /\ Hierarchical(fsm)
  BY PipeTyped
<1>1. PICK t \in Step(fsm, e) : fsm' = t.to /\ Pipe' = Append(Pipe, t.acts) /\ doing' = doing
  BY DEF Transits
<1>2. PICK v \in Seq(Action) : v = t.acts
  BY <1>0, StepWellformed DEF Wellformed
<1>3. /\ fsm'.quorum \in Checks => e = "Timeout"
      /\ \/ NoneIn(v, RepeatEntries)
         \/ fsm.quorum \in Checks /\ e = "NotApproveQuorum" /\ fsm'.quorum \notin Checks /\ Len(v) = 1
  BY <1>0, <1>1, <1>2, StepRepeats
<1>4. PICK p \in Seq(Seq(Action)), d \in Seq(Action) : p = Pipe /\ d = doing
  BY <1>0
<1>5. Pipe' = Append(p, v) /\ doing' = d
  BY <1>1, <1>2, <1>4
<1>6. Single(p, d) /\ (Due => Done(p, d, RepeatEntries)) /\ Repeating = ~Done(p, d, RepeatEntries)
  BY <1>4, Zenon DEF RepeatInv, OneAtATime, Repeating
<1>7. fsm.quorum \in Checks => Due /\ ~Fired
  BY DEF RepeatInv, OneAtATime, Due
<1>8. Single(Append(p, v), d)
  BY <1>3, <1>6, <1>7, SingleSent
<1>9. NoneIn(v, RepeatEntries) /\ Done(p, d, RepeatEntries) => Done(Append(p, v), d, RepeatEntries)
  BY SendKeeps
<1>10. Repeating' = ~Done(Append(p, v), d, RepeatEntries)
  BY <1>5, Zenon DEF Repeating
<1>11. Unsent'
  BY DEF RepeatInv, Unsent
<1>12. Single(Pipe, doing)'
  BY <1>5, <1>8, Zenon DEF Single
<1>13. CASE NoneIn(v, RepeatEntries)
  <2>1. Repeating' => Repeating
    BY <1>6, <1>9, <1>10, <1>13
  <2>2. Due' => Due
    BY <1>3 DEF Due
  <2>3. Fired' => fsm'.quorum \notin Checks
    BY <1>3
  <2>4. OneAtATime'
    BY <2>1, <2>2, <2>3 DEF RepeatInv, OneAtATime
  <2>5. Allowed'
    BY <2>1, <2>2 DEF RepeatInv, Allowed
  <2> QED BY <1>11, <1>12, <2>4, <2>5 DEF RepeatInv
<1>14. CASE fsm.quorum \in Checks /\ e = "NotApproveQuorum" /\ fsm'.quorum \notin Checks
  <2>1. ~Due'
    BY <1>7, <1>14 DEF Due
  <2>2. session.attempts <= MaxAttempts
    BY <1>7, <1>14 DEF RepeatInv, Allowed
  <2>3. OneAtATime'
    BY <2>1 DEF OneAtATime, Due
  <2>4. Allowed'
    BY <2>2 DEF RepeatInv, Allowed
  <2> QED BY <1>11, <1>12, <2>3, <2>4 DEF RepeatInv
<1> QED BY <1>3, <1>13, <1>14

\* run_fsm receives an event, or sends its vector.
LEMMA RepeatRunFsm ==
  ASSUME PipeInv, RepeatInv, RunFsm
  PROVE  RepeatInv'
<1>0. TypeOK /\ OneTimeout /\ Unsent /\ events \in Seq(Event)
  BY DEF PipeInv, RepeatInv, TypeOK
<1>1. UNCHANGED << session, outbox, timer >>
  BY DEF RunFsm, FsmStart, FsmTurn, FsmUnblocked, handlerVars, timerVars
<1>2. Unsent'
  BY <1>0, <1>1 DEF Unsent
<1>3. CASE UNCHANGED events
  <2>1. OneTimeout' /\ Fired' = Fired /\ Refused' = Refused
    BY <1>0, <1>1, <1>3 DEF OneTimeout, Fired, Refused
  <2>2. Transits("Start") => RepeatInv'
    <3>1. PICK e \in Event : e = "Start"
      BY DEF Event
    <3>2. e # "Timeout" /\ e # "NotApproveQuorum"
      BY <3>1
    <3>3. Transits(e) => RepeatInv'
      BY <1>1, <2>1, <3>2, RepeatTransits
    <3> QED BY <3>1, <3>3
  <2>3. PipeSame => RepeatInv'
    BY <1>1, <1>2, <2>1, RepeatStill
  <2>4. ~(FsmTurn /\ events # << >>)
    <3>1. events # << >> => Tail(events) # events
      BY <1>0, TailElements
    <3> QED BY <1>3, <3>1 DEF FsmTurn
  <2> QED BY <2>2, <2>3, <2>4, RunFsmSends
<1>4. CASE FsmTurn /\ events # << >>
  <2>1. events' = Tail(events)
    BY <1>4 DEF FsmTurn
  <2>2. OneTimeout' /\ (Fired' => Fired) /\ (Head(events) = "Timeout" => Fired /\ ~Fired')
    BY <1>0, <1>1, <1>4, <2>1, TakesEvent
  <2>3. /\ NoneIn(events, {"NotApproveQuorum"}) => NoneIn(events', {"NotApproveQuorum"})
        /\ Head(events) = "NotApproveQuorum" => ~NoneIn(events, {"NotApproveQuorum"})
    <3>1. NoneIn(events, {"NotApproveQuorum"})
            => NoneIn(Tail(events), {"NotApproveQuorum"}) /\ Head(events) \notin {"NotApproveQuorum"}
      BY <1>0, <1>4, LastOfTail
    <3> QED BY <2>1, <3>1
  <2>4. (Refused' => Refused) /\ (Head(events) = "NotApproveQuorum" => Refused)
    BY <1>1, <2>3 DEF Refused
  <2>5. Transits(Head(events)) => RepeatInv'
    <3>1. PICK e \in Event : e = Head(events)
      BY <1>0, <1>4, ChannelTypes
    <3>2. /\ e = "Timeout" => Fired /\ ~Fired'
          /\ e = "NotApproveQuorum" => Refused
      BY <2>2, <2>4, <3>1
    <3>3. Transits(e) => RepeatInv'
      BY <1>1, <2>2, <2>4, <3>2, RepeatTransits
    <3> QED BY <3>1, <3>3
  <2>6. PipeSame => RepeatInv'
    BY <1>1, <1>2, <2>2, <2>4, RepeatStill
  <2>7. Transits(Head(events)) \/ PipeSame \/ fsm.global = "Start"
    BY RunFsmSends
  <2>8. fsm.global # "Start"
    BY <1>4 DEF FsmTurn
  <2> QED BY <2>5, <2>6, <2>7, <2>8
<1> QED BY <1>3, <1>4, RunFsmSends

\* The handler takes the next vector.
LEMMA RepeatTakes ==
  ASSUME PipeInv, RepeatInv, TakeActions
  PROVE  RepeatInv'
<1>0. Pipe \in Seq(Seq(Action))
  BY PipeTyped
<1>1. /\ fsm' = fsm /\ Pipe # << >> /\ doing = << >> /\ doing' = Head(Pipe) /\ Pipe' = Tail(Pipe)
      /\ UNCHANGED << events, outbox, session, timer >>
  BY TakeActionsTakes DEF TakesVector, timerVars
<1>2. PICK p \in Seq(Seq(Action)) : p = Pipe
  BY <1>0
<1>3. p # << >> /\ doing' = Head(p) /\ Pipe' = Tail(p)
  BY <1>1, <1>2
<1>4. Single(p, << >>) /\ Repeating = ~Done(p, << >>, RepeatEntries)
  BY <1>1, <1>2, Zenon DEF RepeatInv, Repeating
<1>5. Single(Tail(p), Head(p)) /\ (Done(p, << >>, RepeatEntries) => Done(Tail(p), Head(p), RepeatEntries))
  BY <1>3, <1>4, SingleTaken, TakeKeeps
<1>6. Single(Pipe, doing)'
  BY <1>3, <1>5, Zenon DEF Single
<1>7. Repeating' => Repeating
  BY <1>3, <1>4, <1>5, Zenon DEF Repeating
<1>8. OneTimeout' /\ Unsent' /\ Fired' = Fired /\ Refused' = Refused
  BY <1>1 DEF RepeatInv, OneTimeout, Unsent, Fired, Refused
<1>9. Due' = Due
  BY <1>1, <1>8 DEF Due
<1>10. OneAtATime' /\ Allowed'
  BY <1>1, <1>7, <1>8, <1>9 DEF RepeatInv, OneAtATime, Allowed
<1> QED BY <1>6, <1>8, <1>10 DEF RepeatInv

\* The handler performs an action: a repetition uses one of the attempts that were left.
LEMMA RepeatPerforms ==
  ASSUME PipeInv, RepeatInv, HandleAction
  PROVE  RepeatInv'
<1>0. /\ TypeOK /\ Unsent /\ doing \in Seq(Action)
      /\ session \in [state : StateOfSession, epoch : Nat, attempts : Nat,
                      votes : [Hubs -> Nat], empty : SUBSET Hubs]
      /\ MaxAttempts \in Nat
  BY BoundsAssumption DEF PipeInv, RepeatInv, TypeOK
<1>1. PICK a : Perform(a)
  BY HandleActionPerforms
<1>2. /\ doing # << >> /\ doing' = Tail(doing) /\ outbox = << >> /\ fsm' = fsm /\ Pipe' = Pipe
      /\ UNCHANGED << events, timer >>
  BY <1>1, PerformTakes DEF timerVars
<1>3. PICK p, d : p = Pipe /\ d = doing /\ d \in Seq(Action)
  BY <1>0
<1>4. d # << >> /\ doing' = Tail(d) /\ Pipe' = p
  BY <1>2, <1>3
<1>5. Single(p, d) /\ Repeating = ~Done(p, d, RepeatEntries)
  BY <1>3, Zenon DEF RepeatInv, Repeating
<1>6. /\ Single(p, Tail(d))
      /\ Head(d) \in RepeatEntries => Done(p, Tail(d), RepeatEntries) /\ ~Done(p, d, RepeatEntries)
      /\ Done(p, d, RepeatEntries) => Done(p, Tail(d), RepeatEntries)
  BY <1>3, <1>4, <1>5, SinglePerformed, PerformKeeps
<1>7. Single(Pipe, doing)'
  BY <1>4, <1>6, Zenon DEF Single
<1>8. (Repeating' => Repeating) /\ (Head(doing) \in RepeatEntries => Repeating /\ ~Repeating')
  BY <1>3, <1>4, <1>5, <1>6, Zenon DEF Repeating
<1>9. OneTimeout' /\ Fired' = Fired /\ Due' = Due
  BY <1>2 DEF RepeatInv, OneTimeout, Fired, Due
<1>10. OneAtATime'
  BY <1>2, <1>8, <1>9 DEF RepeatInv, OneAtATime
<1>11. /\ Unsent'
       /\ \/ NoneIn(outbox, {Refusal}) => NoneIn(outbox', {Refusal})
          \/ session.attempts <= MaxAttempts /\ (EnterCheckQuorum \/ CalculateQuorum)
  BY <1>0, HandlerRefuses DEF Handler
<1>12. CASE EnterRepeatHandshake
  <2>1. Head(doing) \in RepeatEntries /\ session'.attempts = session.attempts + 1
    BY <1>0, <1>12 DEF EnterRepeatHandshake, RepeatHandshake, Perform, RepeatEntries, Repeats
  <2>2. session.attempts <= MaxAttempts /\ ~Due' /\ ~Repeating'
    BY <1>8, <1>9, <2>1 DEF RepeatInv, Allowed, OneAtATime
  <2>3. session'.attempts <= MaxAttempts + 1
    BY <1>0, <2>1, <2>2
  <2>4. Allowed'
    BY <2>2, <2>3 DEF Allowed
  <2> QED BY <1>7, <1>9, <1>10, <1>11, <2>4 DEF RepeatInv
<1>13. CASE EnterPhase
  <2>1. session'.attempts = 0
    BY <1>0, <1>13 DEF EnterPhase
  <2>2. session'.attempts <= MaxAttempts /\ session'.attempts <= MaxAttempts + 1
    BY <1>0, <2>1
  <2>3. Allowed'
    BY <2>2 DEF Allowed
  <2> QED BY <1>7, <1>9, <1>10, <1>11, <2>3 DEF RepeatInv
<1>14. CASE ~EnterRepeatHandshake /\ ~EnterPhase
  <2>3. session'.attempts = session.attempts
    BY <1>0, <1>14, AttemptsKept DEF Handler
  <2>4. Refused' => Refused \/ session.attempts <= MaxAttempts
    BY <1>2, <1>11 DEF Refused
  <2>5. Allowed'
    BY <1>8, <1>9, <2>3, <2>4 DEF RepeatInv, Allowed
  <2> QED BY <1>7, <1>9, <1>10, <1>11, <2>5 DEF RepeatInv
<1> QED BY <1>12, <1>13, <1>14

\* The handler takes a command, or sends its next message.
LEMMA RepeatAnswers ==
  ASSUME PipeInv, RepeatInv, Handler, ~HandleAction
  PROVE  RepeatInv'
<1>0. TypeOK /\ Unsent /\ OneTimeout /\ events \in Seq(Event) /\ outbox \in Seq(Message)
  BY DEF PipeInv, RepeatInv, TypeOK
<1>3. PipeSame
  BY DEF Handler, HandlerSend, HandleHandshake, HandleQueue, HandleQueueSafe, HandleConnection, TakeCommand, fsmVars,
         PipeSame, Pipe
<1>4. session'.attempts = session.attempts
  BY <1>0, AttemptsKept DEF HandleAction
<1>5. Unsent' /\ (NoneIn(outbox, {Refusal}) => NoneIn(outbox', {Refusal}))
  <2>1. ~EnterCheckQuorum /\ ~CalculateQuorum
    BY DEF HandleAction
  <2> QED BY <1>0, <2>1, HandlerRefuses
<1>6. CASE HandlerSend
  <2>1. outbox # << >> /\ outbox' = Tail(outbox) /\ timer' = timer
    BY <1>6 DEF HandlerSend
  <2>2. PICK m \in Message : m = Head(outbox)
    BY <1>0, <2>1, ChannelTypes
  <2>3. events' = events \/ (m.to = "fsm" /\ m.msg \in Event /\ events' = Append(events, m.msg))
    BY <1>6, <2>2, MessageTypes DEF HandlerSend
  <2>4. CASE events' = events
    <3>1. OneTimeout' /\ Fired' = Fired
      BY <1>0, <2>1, <2>4 DEF OneTimeout, Fired
    <3>2. Refused' => Refused
      BY <1>5, <2>4 DEF Refused
    <3> QED BY <1>3, <1>4, <1>5, <3>1, <3>2, RepeatStill
  <2>5. CASE m.to = "fsm" /\ m.msg \in Event /\ events' = Append(events, m.msg)
    <3>1. PICK x \in Event : x = m.msg /\ events' = Append(events, x)
      BY <2>5
    <3>2. m = ToFsm(x)
      BY <2>2, <2>5, <3>1 DEF Message, ToFsm
    <3>3. ASSUME NEW S, NoneIn(outbox, S) PROVE Head(outbox) \notin S
      BY <1>0, <2>1, <3>3, LastOfTail
    <3>4. x # "Timeout" /\ (x = "NotApproveQuorum" => ~NoneIn(outbox, {Refusal}))
      BY <1>0, <2>2, <3>2, <3>3 DEF Unsent, Refusal
    <3>5. \A e : x # e /\ NoneIn(events, {e}) => NoneIn(events', {e})
      <4>1. \A e : x # e => x \notin {e}
        OBVIOUS
      <4>2. \A e : x # e /\ NoneIn(events, {e}) => NoneIn(Append(events, x), {e})
        BY <1>0, <4>1, LastOfAppend
      <4> QED BY <3>1, <4>2, Zenon
    <3>6. \A i \in DOMAIN events' : events'[i] = "Timeout" => i \in DOMAIN events /\ events[i] = "Timeout"
      <4>1. \A i \in DOMAIN Append(events, x) : Append(events, x)[i] = "Timeout" => i \in DOMAIN events /\ events[i] = "Timeout"
        BY <1>0, <3>4, AppendElements
      <4> QED BY <3>1, <4>1, Zenon
    <3>7. OneTimeout' /\ (Fired' => Fired)
      BY <1>0, <2>1, <3>4, <3>5, <3>6 DEF OneTimeout, Fired
    <3>8. Refused' => Refused
      BY <1>5, <3>4, <3>5 DEF Refused
    <3> QED BY <1>3, <1>4, <1>5, <3>7, <3>8, RepeatStill
  <2> QED BY <2>3, <2>4, <2>5
<1>7. CASE HandleHandshake \/ HandleQueue \/ HandleQueueSafe \/ HandleConnection
  <2>1. UNCHANGED << events, timer >>
    BY <1>7 DEF HandleHandshake, HandleQueue, HandleQueueSafe, HandleConnection, TakeCommand, timerVars
  <2>2. OneTimeout' /\ Fired' = Fired
    BY <1>0, <2>1 DEF OneTimeout, Fired
  <2>3. Refused' => Refused
    BY <1>5, <2>1 DEF Refused
  <2> QED BY <1>3, <1>4, <1>5, <2>2, <2>3, RepeatStill
<1> QED BY <1>6, <1>7 DEF Handler

\* The watchdog sends its Timeout, or a sleep ends: when nothing is on its way the machine is in
\* no check and no refusal is left from an earlier one.
LEMMA RepeatTimes ==
  ASSUME Prompt = TRUE, PipeInv, EnteredInv, RepeatInv, Timer \/ TimerExpire
  PROVE  RepeatInv'
<1>0. TypeOK /\ Unsent /\ OneTimeout /\ events \in Seq(Event) /\ "Timeout" \in Event
  BY DEF PipeInv, RepeatInv, TypeOK, Event
<1>1. UNCHANGED << session, outbox >> /\ PipeSame
  <2>1. UNCHANGED << session, outbox, fsm, held, actions, doing >>
    BY DEF Timer, TimerReceive, TimerFire, TimerExpire, fsmVars, handlerVars
  <2> QED BY <2>1 DEF PipeSame, Pipe
<1>2. Unsent'
  BY <1>0, <1>1 DEF Unsent
<1>3. CASE TimerReceive
  <2>1. events' = events /\ timer' # "firing"
    <3>1. Head(timerCmds) \in TimerCommand
      BY <1>0, <1>3, ChannelTypes DEF TypeOK, TimerReceive
    <3> QED BY <1>3, <3>1 DEF TimerReceive, Listening, Received, TimerCommand
  <2>2. OneTimeout' /\ (Fired' => Fired) /\ Refused' = Refused
    BY <1>0, <1>1, <2>1 DEF OneTimeout, Fired, Refused
  <2> QED BY <1>1, <1>2, <2>2, RepeatStill
<1>4. CASE TimerFire
  <2>1. timer = "firing" /\ timer' = "idle" /\ events' = Append(events, "Timeout")
    BY <1>4 DEF TimerFire
  <2>2. Fired /\ NoneIn(events, {"Timeout"})
    BY <1>0, <2>1 DEF Fired, OneTimeout
  <2>3. \A i \in DOMAIN Append(events, "Timeout") : Append(events, "Timeout")[i] = "Timeout" => i = Len(events) + 1
    BY <1>0, <2>2, AppendElements DEF NoneIn
  <2>4. OneTimeout'
    BY <2>1, <2>3 DEF OneTimeout
  <2>5. NoneIn(events, {"NotApproveQuorum"}) => NoneIn(events', {"NotApproveQuorum"})
    <3>1. "Timeout" \notin {"NotApproveQuorum"}
      OBVIOUS
    <3>2. NoneIn(events, {"NotApproveQuorum"}) => NoneIn(Append(events, "Timeout"), {"NotApproveQuorum"})
      BY <1>0, <3>1, LastOfAppend
    <3> QED BY <2>1, <3>2
  <2>6. Refused' => Refused
    BY <1>1, <2>5 DEF Refused
  <2> QED BY <1>1, <1>2, <2>2, <2>4, <2>6, RepeatStill
<1>5. CASE TimerExpire
  <2>1. Quiet /\ timer' = "firing" /\ events' = events
    BY <1>5 DEF TimerExpire
  <2>2. events = << >> /\ outbox = << >> /\ Pipe = << >> /\ doing = << >>
    BY <2>1, JoinEmpty DEF Quiet, Pipe
  <2>3. fsm.quorum \notin Checks
    BY <2>1, QuietSettled DEF Asked
  <2>4. fsm' = fsm /\ Pipe' = << >> /\ doing' = << >> /\ events' = << >> /\ outbox' = << >>
    BY <1>1, <2>1, <2>2 DEF PipeSame
  <2>5. \A S : NoneIn(<< >>, S)
    BY LastOfEmpty
  <2>6. OneTimeout' /\ ~Refused'
    BY <2>4, <2>5 DEF OneTimeout, Refused
  <2>7. ~Repeating'
    <3>1. Done(<< >>, << >>, RepeatEntries)
      BY NothingPending
    <3> QED BY <2>4, <3>1, Zenon DEF Repeating
  <2>8. Single(Pipe, doing)'
    <3>1. Single(Pipe, doing)
      BY DEF RepeatInv
    <3>2. Single(<< >>, << >>)
      BY <2>2, <3>1, Zenon
    <3> QED BY <2>4, <3>2, Zenon DEF Single
  <2>9. OneAtATime'
    BY <2>3, <2>4, <2>7 DEF OneAtATime
  <2>10. Allowed'
    BY <1>1, <2>6, <2>7 DEF RepeatInv, Allowed
  <2> QED BY <1>2, <2>6, <2>8, <2>9, <2>10 DEF RepeatInv
<1> QED BY <1>3, <1>4, <1>5 DEF Timer

\* The tasks start, or start again.
Starting == /\ fsm = NewFsmState /\ session = NewSession /\ timer = "idle"
            /\ events = << >> /\ held = << >> /\ actions = << >> /\ doing = << >> /\ outbox = << >>

LEMMA RepeatFresh == Starting => RepeatInv
<1> SUFFICES ASSUME Starting PROVE RepeatInv
  OBVIOUS
<1> USE DEF Starting
<1>1. Pipe = << >> /\ fsm.quorum \notin Checks
  BY JoinEmpty DEF Pipe, NewFsmState, Checks, None
<1>2. (\A S : NoneIn(<< >>, S)) /\ Done(<< >>, << >>, RepeatEntries)
  BY LastOfEmpty, NothingPending
<1>3. ~Repeating
  BY <1>1, <1>2, Zenon DEF Repeating
<1>4. OneTimeout /\ Unsent /\ ~Fired
  BY <1>2 DEF OneTimeout, Unsent, Fired
<1>5. Single(<< >>, << >>)
  <2>1. \A X, Y : Before(<< >>, X, Y)
    BY DEF Before
  <2> QED BY <1>2, <2>1 DEF Single
<1>6. Single(Pipe, doing)
  BY <1>1, <1>5, Zenon
<1>7. OneAtATime
  BY <1>1, <1>4, <1>3 DEF OneAtATime
<1>8. Allowed
  <2>1. session.attempts = 0 /\ MaxAttempts \in Nat
    BY BoundsAssumption DEF NewSession
  <2> QED BY <2>1 DEF Allowed
<1> QED BY <1>4, <1>6, <1>7, <1>8 DEF RepeatInv

\* Every step.
LEMMA RepeatStep ==
  ASSUME Prompt = TRUE, PipeInv, EnteredInv, RepeatInv, [Next]_vars
  PROVE  RepeatInv'
<1>1. CASE RunFsm
  BY <1>1, RepeatRunFsm
<1>2. CASE TakeActions
  BY <1>2, RepeatTakes
<1>3. CASE Handler
  BY <1>3, RepeatPerforms, RepeatAnswers
<1>4. CASE Timer \/ TimerExpire
  BY <1>4, RepeatTimes
<1>5. CASE Crash
  <2>1. Starting'
    BY <1>5 DEF Crash, Starting, NewFsmState, NewSession
  <2> QED BY <2>1, RepeatFresh, PTL
<1>6. CASE UNCHANGED vars \/ HubMessage \/ LinkEvent \/ TopologyChange
  <2>1. UNCHANGED << fsm, actions, held, doing, session, events, outbox, timer >>
    BY <1>6 DEF vars, HubMessage, LinkEvent, TopologyChange, Deliver, fsmVars, handlerVars, timerVars
  <2>2. PipeSame
    BY <2>1, Zenon DEF PipeSame, Pipe
  <2>3. OneTimeout' /\ Unsent' /\ Fired' = Fired /\ Refused' = Refused
    BY <2>1 DEF RepeatInv, OneTimeout, Unsent, Fired, Refused
  <2> QED BY <2>1, <2>2, <2>3, RepeatStill
<1> QED BY <1>1, <1>2, <1>3, <1>4, <1>5, <1>6 DEF Next, Environment

\* As long as the tasks handle what is on its way before a sleep of at least thirty seconds ends
\* (Prompt): a handshake is repeated at most MaxAttempts + 1 times before a phase is entered,
\* whatever balances the broker and a restart cut, and though the answer to a count that a late
\* vote asked for may be taken by the check that a Timeout leads to.
THEOREM RepeatsBoundedCorrect ==
  ASSUME Prompt = TRUE
  PROVE  Spec => []RepeatsBounded
<1>1. Init => RepeatInv
  BY RepeatFresh DEF Init, Starting
<1>2. PipeInv /\ EnteredInv /\ RepeatInv /\ [Next]_vars => RepeatInv'
  BY RepeatStep
<1>3. RepeatInv => RepeatsBounded
  BY DEF RepeatInv, Allowed, RepeatsBounded
<1> QED BY <1>1, <1>2, <1>3, EnteredAlways, PTL DEF Spec
=============================================================================
