----------------------------- MODULE FsmDomain -----------------------------
(***************************************************************************)
(* The hierarchical state machine of the edge, as the pure function it is  *)
(* in src/third_layer/fsm/domain.rs: a state and an event give a new state *)
(* and the actions the runtime has to execute, or no transition at all.    *)
(***************************************************************************)
EXTENDS Sequences

None == "None"

StateGlobal         == {"Start", "BalanceMode", "Normal", "SafeMode", "Disconnected"}
SubStateBalanceMode == {"InitBalanceMode", "InHandshake", "Quorum", "Phase", "OutHandshake"}
SubStateQuorum      == {"CheckQuorumIn", "CheckQuorumOut",
                        "RepeatHandshakeIn", "RepeatHandshakeOut"}
SubStatePhase       == {"Alert", "Data", "Monitor"}

FsmState == [global  : StateGlobal,
             balance : SubStateBalanceMode \cup {None},
             quorum  : SubStateQuorum \cup {None},
             phase   : SubStatePhase \cup {None}]

\* The events the machine is fed with (InitTimer and StopTimer, of the same
\* enumeration, are only ever sent to the watchdog).
Event == {"Start", "Timeout", "BalanceEpochOk", "BalanceEpochNotOk",
          "ApproveQuorum", "NotApproveQuorum", "NotApproveNotAttempts",
          "QuorumPhase", "QuorumSafeMode", "NewMessageHandshake",
          "LocalDisconnected", "LocalConnected"}

\* An action is its variant and, for the OnEntry variants, the sub-state entered.
Action == [act : {"OnEntryBalance", "OnEntryQuorum", "OnEntryPhase", "OnEntryNormal",
                  "OnEntrySafeMode", "OnEntryDisconnected", "StopTimer", "CalculateQuorum",
                  "StopSendHeartbeatMessagePhase", "StopSendHeartbeatMessageSafeMode",
                  "StopSendHeartbeatMessageNormal"},
           sub : SubStateBalanceMode \cup SubStateQuorum \cup SubStatePhase \cup {None}]

Do(a)          == [act |-> a, sub |-> None]
OnEntry(a, s)  == [act |-> a, sub |-> s]
StopTimerOnly  == << Do("StopTimer") >>

\* Transition: a set with the one transition, or empty when it is invalid.
Valid(s, as) == { [to |-> s, acts |-> as] }
Invalid      == {}

NewFsmState == [global |-> "Start", balance |-> None, quorum |-> None, phase |-> None]
----------------------------------------------------------------------------
StepStart(s, e) ==
  IF e = "Start"
  THEN Valid([s EXCEPT !.global = "BalanceMode", !.balance = "InitBalanceMode"], << >>)
  ELSE Invalid

\* Mutants: quorum is left set; the timer is left running.
ApproveIn_KeepsQuorum(s)  == Valid([s EXCEPT !.balance = "Phase", !.phase = "Alert"], StopTimerOnly)
ApproveOut_KeepsTimer(s) ==
  Valid([s EXCEPT !.global = "Normal", !.balance = None, !.quorum = None], << >>)

\* Where the machine goes when the handshake in hand is approved: into the first
\* phase (in), or out of the balance mode (out).
ApproveIn(s)  == Valid([s EXCEPT !.balance = "Phase", !.phase = "Alert", !.quorum = None],
                       StopTimerOnly)
ApproveOut(s) == Valid([s EXCEPT !.global = "Normal", !.balance = None, !.quorum = None],
                       StopTimerOnly)

StepInitBalanceMode(s, e) ==
  CASE e = "BalanceEpochOk"    -> Valid([s EXCEPT !.balance = "InHandshake"], << >>)
    [] e = "BalanceEpochNotOk" -> Valid([s EXCEPT !.global = "SafeMode", !.balance = None], << >>)
    [] OTHER -> Invalid

StepInHandshake(s, e) ==
  CASE e = "Timeout"             -> Valid([s EXCEPT !.balance = "Quorum",
                                                    !.quorum = "CheckQuorumIn"], << >>)
    [] e = "NewMessageHandshake" -> Valid(s, << Do("CalculateQuorum") >>)
    [] e = "ApproveQuorum"       -> ApproveIn(s)
    [] e = "NotApproveQuorum"    -> Valid(s, << >>)
    [] OTHER -> Invalid

StepOutHandshake(s, e) ==
  CASE e = "Timeout"             -> Valid([s EXCEPT !.balance = "Quorum",
                                                    !.quorum = "CheckQuorumOut"], << >>)
    [] e = "NewMessageHandshake" -> Valid(s, << Do("CalculateQuorum") >>)
    [] e = "ApproveQuorum"       -> ApproveOut(s)
    [] e = "NotApproveQuorum"    -> Valid(s, << >>)
    [] OTHER -> Invalid

\* In and Out only differ in what an approval leads to and in where they loop.
StepCheckQuorum(s, e, repeat, approved) ==
  CASE e = "NotApproveQuorum"      -> Valid([s EXCEPT !.quorum = repeat], << >>)
    [] e = "ApproveQuorum"         -> approved
    [] e = "NotApproveNotAttempts" -> Valid([s EXCEPT !.global = "SafeMode", !.balance = None,
                                                      !.quorum = None], << >>)
    [] OTHER -> Invalid

StepRepeatHandshake(s, e, check, approved) ==
  CASE e = "Timeout"             -> Valid([s EXCEPT !.quorum = check], << >>)
    [] e = "NewMessageHandshake" -> Valid(s, << Do("CalculateQuorum") >>)
    [] e = "ApproveQuorum"       -> approved
    [] e = "NotApproveQuorum"    -> Valid(s, << >>)
    [] OTHER -> Invalid

StepQuorum(s, e) ==
  CASE s.quorum = "CheckQuorumIn"      -> StepCheckQuorum(s, e, "RepeatHandshakeIn", ApproveIn(s))
    [] s.quorum = "CheckQuorumOut"     -> StepCheckQuorum(s, e, "RepeatHandshakeOut", ApproveOut(s))
    [] s.quorum = "RepeatHandshakeIn"  -> StepRepeatHandshake(s, e, "CheckQuorumIn", ApproveIn(s))
    [] s.quorum = "RepeatHandshakeOut" -> StepRepeatHandshake(s, e, "CheckQuorumOut", ApproveOut(s))
    [] OTHER -> Invalid

StepPhase(s, e) ==
  IF e \notin {"Timeout", "QuorumPhase"} THEN Invalid
  ELSE CASE s.phase = "Alert"   -> Valid([s EXCEPT !.phase = "Data"], StopTimerOnly)
         [] s.phase = "Data"    -> Valid([s EXCEPT !.phase = "Monitor"], StopTimerOnly)
         [] s.phase = "Monitor" -> Valid([s EXCEPT !.balance = "OutHandshake", !.phase = None],
                                         << Do("StopSendHeartbeatMessagePhase"), Do("StopTimer") >>)
         [] OTHER -> Invalid

StepBalanceMode(s, e) ==
  CASE e = "LocalDisconnected" ->
         Valid([global |-> "Disconnected", balance |-> None, quorum |-> None, phase |-> None],
               << Do("StopSendHeartbeatMessagePhase"), Do("StopTimer") >>)
    [] e # "LocalDisconnected" /\ s.balance = "InitBalanceMode" -> StepInitBalanceMode(s, e)
    [] e # "LocalDisconnected" /\ s.balance = "InHandshake"     -> StepInHandshake(s, e)
    [] e # "LocalDisconnected" /\ s.balance = "Quorum"          -> StepQuorum(s, e)
    [] e # "LocalDisconnected" /\ s.balance = "Phase"           -> StepPhase(s, e)
    [] e # "LocalDisconnected" /\ s.balance = "OutHandshake"    -> StepOutHandshake(s, e)
    [] OTHER -> Invalid

\* Mutant: the normal mode does not listen to the connection.
StepNormal_Deaf(s, e) == Invalid

StepNormal(s, e) ==
  IF e = "LocalDisconnected"
  THEN Valid([s EXCEPT !.global = "Disconnected"], << Do("StopSendHeartbeatMessageNormal") >>)
  ELSE Invalid

StepDisconnected(s, e) ==
  IF e = "LocalConnected"
  THEN Valid([s EXCEPT !.global = "BalanceMode", !.balance = "InitBalanceMode"], << >>)
  ELSE Invalid

StepSafeMode(s, e) ==
  CASE e = "LocalDisconnected" ->
         Valid([s EXCEPT !.global = "Disconnected"], << Do("StopSendHeartbeatMessageSafeMode") >>)
    [] e \in {"Timeout", "QuorumSafeMode"} ->
         Valid([s EXCEPT !.global = "Normal"], << Do("StopSendHeartbeatMessageSafeMode") >>)
    [] OTHER -> Invalid

StepInner(s, e) ==
  CASE s.global = "Start"        -> StepStart(s, e)
    [] s.global = "BalanceMode"  -> StepBalanceMode(s, e)
    [] s.global = "SafeMode"     -> StepSafeMode(s, e)
    [] s.global = "Normal"       -> StepNormal(s, e)
    [] s.global = "Disconnected" -> StepDisconnected(s, e)
----------------------------------------------------------------------------
When(cond, a) == IF cond THEN << a >> ELSE << >>

\* compute_on_entry: the entry actions, in the order the code pushes them.
ComputeOnEntry(old, new) ==
     When(old.balance # new.balance /\ new.balance # None, OnEntry("OnEntryBalance", new.balance))
  \o When(old.quorum # new.quorum /\ new.quorum # None, OnEntry("OnEntryQuorum", new.quorum))
  \o When(old.global # new.global /\ new.global = "Normal", Do("OnEntryNormal"))
  \o When(old.global # new.global /\ new.global = "SafeMode", Do("OnEntrySafeMode"))
  \o When(old.global # new.global /\ new.global = "Disconnected", Do("OnEntryDisconnected"))
  \o When(old.phase # new.phase /\ new.phase # None, OnEntry("OnEntryPhase", new.phase))

\* Mutant: the entry actions are executed before those of the transition.
Step_EntryFirst(s, e) ==
  { [to |-> t.to, acts |-> ComputeOnEntry(s, t.to) \o t.acts] : t \in StepInner(s, e) }

Step(s, e) ==
  { [to |-> t.to, acts |-> t.acts \o ComputeOnEntry(s, t.to)] : t \in StepInner(s, e) }

\* "If a parent state is not active, its children must be None": the hierarchy the
\* four fields of FsmState are documented to keep.
Hierarchical(s) ==
  /\ (s.balance # None) = (s.global = "BalanceMode")
  /\ (s.quorum # None)  = (s.balance = "Quorum")
  /\ (s.phase # None)   = (s.balance = "Phase")
============================================================================
