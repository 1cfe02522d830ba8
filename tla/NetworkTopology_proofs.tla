----------------------- MODULE NetworkTopology_proofs -----------------------
(***************************************************************************)
(* Theorems about the topology, for every set of networks and hubs, every  *)
(* capacity and every number of commands, outages, crashes and faults.     *)
(***************************************************************************)
EXTENDS NetworkTopology, SequenceLemmas

-----------------------------------------------------------------------------
(* The steps of a command *)

\* Each step is of the type of steps; those that follow a failure are so too.
LEMMA StepTypes ==
  ASSUME NEW n \in Networks
  PROVE  /\ \A c \in MqttServiceCommand : ToMqtt(c) \in PlainStep
         /\ \A w \in Activity \cup {"nothing"} : NetworkAck(n, w) \in PlainStep
         /\ LinkageAck \in PlainStep /\ Config \in PlainStep /\ Run \in PlainStep
         /\ \A f \in {"active", "paused"} :
              InsertNetwork(n, f) \in Statement /\ UpsertNetwork(n, f) \in Statement
         /\ DeleteNetwork(n) \in Statement /\ DeleteHubs(n) \in Statement
         /\ \A h \in Row : InsertHub(h, n) \in Statement
         /\ \A st \in Statement, rest \in Seq(PlainStep) : Sql(st, rest) \in RetryStep
         /\ \A st \in Statement, rest \in Seq(RetryStep) : Sql(st, rest) \in Step
BY DEF ToMqtt, NetworkAck, LinkageAck, Config, Run, InsertNetwork, UpsertNetwork, DeleteNetwork,
       DeleteHubs, InsertHub, Statement, Sql, PlainStep, RetryStep, SqlStep, Step, Activity

\* A list of the steps of one type is a list of the steps of a wider one.
LEMMA Widen ==
  /\ \A q \in Seq(PlainStep) : q \in Seq(RetryStep) /\ q \in Seq(Step)
  /\ \A q \in Seq(RetryStep) : q \in Seq(Step)
<1>1. PlainStep \subseteq RetryStep /\ RetryStep \subseteq Step
  BY DEF RetryStep, Step
<1> QED BY <1>1, SeqMonotonic

\* A statement that the rest follows in any case.
LEMMA RegardlessIs ==
  ASSUME NEW st \in Statement, NEW rest \in Seq(PlainStep)
  PROVE  /\ Regardless(st, rest) \in Seq(Step) /\ Regardless(st, rest) \in Seq(RetryStep)
         /\ Len(Regardless(st, rest)) = Len(rest) + 1
         /\ Regardless(st, rest)[1] = Sql(st, rest)
         /\ \A i \in DOMAIN rest :
              i + 1 \in DOMAIN Regardless(st, rest) /\ Regardless(st, rest)[i + 1] = rest[i]
         /\ \A i \in DOMAIN Regardless(st, rest) : i = 1 \/ i - 1 \in DOMAIN rest
<1>1. PICK x : x = Sql(st, rest)
  OBVIOUS
<1>2. x \in RetryStep /\ rest \in Seq(RetryStep)
  BY <1>1, Widen DEF Sql, RetryStep, SqlStep
<1> DEFINE e == << x >> \o rest
<1>3. /\ e \in Seq(RetryStep) /\ Len(e) = Len(rest) + 1 /\ e[1] = x
      /\ \A i \in DOMAIN rest : i + 1 \in DOMAIN e /\ e[i + 1] = rest[i]
      /\ \A i \in DOMAIN e : i = 1 \/ i - 1 \in DOMAIN rest
  BY <1>2, ConsElements
<1>4. Regardless(st, rest) = e
  BY <1>1 DEF Regardless
<1> HIDE DEF e
<1>5. e \in Seq(Step)
  BY <1>3, Widen
<1> QED BY <1>1, <1>3, <1>4, <1>5

\* A list of steps with one of a kind.
Has(steps, what) == \E i \in DOMAIN steps : steps[i].do = what

\* What is to be done for a network that is inserted or changed: the statement, the message to
\* the client, the ack.
LEMMA ChangeStepsAre ==
  ASSUME NEW n \in Networks, NEW f \in {"active", "paused"}, NEW q,
         q = InsertSteps(n, f) \/ q = UpdateSteps(n, f)
  PROVE  /\ q \in Seq(Step) /\ Len(q) = 3 /\ q[1].do = "sql"
         /\ q = InsertSteps(n, f) => q[1].stmt = InsertNetwork(n, f)
         /\ q = UpdateSteps(n, f) => q[1].stmt = UpsertNetwork(n, f)
         /\ q[2] = ToMqtt("NetworksUpdated") /\ q[3] = NetworkAck(n, f)
         /\ ~Has(q[1].otherwise, "run")
         /\ \A j \in DOMAIN q[1].otherwise :
              q[1].otherwise[j] \in {ToMqtt("NetworksUpdated"), NetworkAck(n, f)}
<1> DEFINE rest == << ToMqtt("NetworksUpdated"), NetworkAck(n, f) >>
<1>1. rest \in Seq(PlainStep) /\ Len(rest) = 2 /\ DOMAIN rest = 1 .. 2
  BY StepTypes DEF MqttServiceCommand, Activity
<1>2. rest[1] = ToMqtt("NetworksUpdated") /\ rest[2] = NetworkAck(n, f)
  OBVIOUS
<1>3. \A st \in Statement : Regardless(st, rest) \in Seq(Step) /\ Regardless(st, rest)[1] = Sql(st, rest)
  BY <1>1, RegardlessIs
<1>4. /\ InsertNetwork(n, f) \in Statement /\ InsertSteps(n, f) = Regardless(InsertNetwork(n, f), rest)
      /\ UpsertNetwork(n, f) \in Statement /\ UpdateSteps(n, f) = Regardless(UpsertNetwork(n, f), rest)
  BY StepTypes DEF InsertSteps, UpdateSteps
<1>5. PICK st \in Statement : q = Regardless(st, rest)
  BY <1>4
<1> HIDE DEF rest
<1>6. /\ q \in Seq(Step) /\ Len(q) = 3 /\ q[1].do = "sql" /\ q[1].otherwise = rest
      /\ q[2] = rest[1] /\ q[3] = rest[2]
  <2>1. /\ q \in Seq(Step) /\ Len(q) = Len(rest) + 1 /\ q[1] = Sql(st, rest)
        /\ \A i \in DOMAIN rest : q[i + 1] = rest[i]
    BY <1>1, <1>5, RegardlessIs
  <2> QED BY <2>1, <1>1 DEF Sql
<1>7. /\ InsertSteps(n, f)[1].stmt = InsertNetwork(n, f)
      /\ UpdateSteps(n, f)[1].stmt = UpsertNetwork(n, f)
  <2>1. \A x \in Statement : Sql(x, rest).stmt = x
    BY DEF Sql
  <2>2. \A x \in Statement : Regardless(x, rest)[1].stmt = x
    BY <1>3, <2>1, Zenon
  <2> QED BY <2>2, <1>4, Zenon
<1>8. ~Has(rest, "run")
  <2>1. rest[1].do # "run" /\ rest[2].do # "run"
    BY <1>2 DEF ToMqtt, NetworkAck
  <2> QED BY <2>1, <1>1 DEF Has
<1>9. \A j \in DOMAIN rest : rest[j] \in {ToMqtt("NetworksUpdated"), NetworkAck(n, f)}
  BY <1>1, <1>2
<1> QED BY <1>2, <1>6, <1>7, <1>8, <1>9

\* What is left to do when one of the first two DELETEs fails: the DELETE of the hubs, and an
\* ack that says that the network was not deleted.
Failed(q, n) ==
  \A j \in DOMAIN q :
    \/ q[j] = NetworkAck(n, "nothing")
    \/ q[j].do = "sql" /\ q[j].stmt = DeleteHubs(n) /\ q[j].otherwise = << NetworkAck(n, "nothing") >>

\* For a network that is deleted: the two DELETEs, the second DELETE of its hubs, the message,
\* the ack.
LEMMA DeleteStepsAre ==
  ASSUME NEW n \in Networks, NEW q, q = DeleteSteps(n)
  PROVE  /\ q \in Seq(Step) /\ Len(q) = 5
         /\ q[1].do = "sql" /\ q[1].stmt = DeleteNetwork(n)
         /\ \A i \in {2, 3} : q[i].do = "sql" /\ q[i].stmt = DeleteHubs(n)
         /\ q[4] = ToMqtt("NetworksUpdated") /\ q[5] = NetworkAck(n, "absent")
         /\ \A i \in 1 .. 3 : ~Has(q[i].otherwise, "run")
         /\ \A i \in 1 .. 2 : Failed(q[i].otherwise, n)
         /\ q[3].otherwise = << ToMqtt("NetworksUpdated"), NetworkAck(n, "absent") >>
<1> DEFINE told   == << NetworkAck(n, "nothing") >>
           failed == Regardless(DeleteHubs(n), told)
           rest   == << ToMqtt("NetworksUpdated"), NetworkAck(n, "absent") >>
           again  == Regardless(DeleteHubs(n), rest)
           x      == Sql(DeleteNetwork(n), failed)
           y      == Sql(DeleteHubs(n), failed)
           delete == << x, y >>
           e      == delete \o again
<1>1. q = e
  BY DEF DeleteSteps
<1>2. told \in Seq(PlainStep) /\ Len(told) = 1 /\ DOMAIN told = {1} /\ told[1] = NetworkAck(n, "nothing")
  BY StepTypes
<1>3. /\ rest \in Seq(PlainStep) /\ Len(rest) = 2 /\ DOMAIN rest = 1 .. 2
      /\ rest[1] = ToMqtt("NetworksUpdated") /\ rest[2] = NetworkAck(n, "absent")
  BY StepTypes DEF MqttServiceCommand, Activity
<1>4. DeleteNetwork(n) \in Statement /\ DeleteHubs(n) \in Statement
  BY StepTypes
<1> HIDE DEF told, rest
<1>5. failed \in Seq(RetryStep) /\ ~Has(failed, "run") /\ Failed(failed, n)
  <2>1. /\ failed \in Seq(RetryStep) /\ Len(failed) = Len(told) + 1 /\ failed[1] = Sql(DeleteHubs(n), told)
        /\ \A i \in DOMAIN told : failed[i + 1] = told[i]
    BY <1>2, <1>4, RegardlessIs
  <2>2. failed[2] = NetworkAck(n, "nothing") /\ Len(failed) = 2
    BY <1>2, <2>1
  <2>3. failed[1].do # "run" /\ failed[2].do # "run"
    BY <2>1, <2>2 DEF Sql, NetworkAck
  <2>4. \A i \in DOMAIN failed : i = 1 \/ i = 2
    <3>1. DOMAIN failed = 1 .. 2
      BY <2>1, <2>2, LenProperties
    <3> QED BY <3>1
  <2>5. Failed(failed, n)
    <3>1. failed[1].do = "sql" /\ failed[1].stmt = DeleteHubs(n) /\ failed[1].otherwise = told
      BY <2>1 DEF Sql
    <3>2. told = << NetworkAck(n, "nothing") >>
      BY DEF told
    <3> QED BY <3>1, <3>2, <2>2, <2>4, Zenon DEF Failed
  <2> QED BY <2>1, <2>3, <2>4, <2>5 DEF Has
<1>6. /\ again \in Seq(Step) /\ Len(again) = 3 /\ again[1] = Sql(DeleteHubs(n), rest)
      /\ again[2] = rest[1] /\ again[3] = rest[2]
  <2>1. /\ again \in Seq(Step) /\ Len(again) = Len(rest) + 1 /\ again[1] = Sql(DeleteHubs(n), rest)
        /\ \A i \in DOMAIN rest : again[i + 1] = rest[i]
    BY <1>3, <1>4, RegardlessIs
  <2> QED BY <2>1, <1>3
<1> HIDE DEF failed, again
<1>7. x \in Step /\ y \in Step
  BY <1>4, <1>5 DEF Sql, Step, SqlStep
<1>8. /\ x.do = "sql" /\ x.stmt = DeleteNetwork(n) /\ y.do = "sql" /\ y.stmt = DeleteHubs(n)
      /\ again[1].do = "sql" /\ again[1].stmt = DeleteHubs(n)
      /\ x.otherwise = failed /\ y.otherwise = failed /\ again[1].otherwise = rest
  BY <1>6 DEF Sql
<1> HIDE DEF x, y
<1>9. delete \in Seq(Step) /\ Len(delete) = 2 /\ delete[1] = x /\ delete[2] = y
  BY <1>7
<1> HIDE DEF delete
<1>10. /\ e \in Seq(Step) /\ Len(e) = 5
       /\ \A i \in 1 .. 5 : e[i] = IF i <= 2 THEN delete[i] ELSE again[i - 2]
  <2>1. /\ delete \o again \in Seq(Step) /\ Len(delete \o again) = Len(delete) + Len(again)
        /\ \A i \in 1 .. Len(delete) + Len(again) :
             (delete \o again)[i] = IF i <= Len(delete) THEN delete[i] ELSE again[i - Len(delete)]
    BY <1>6, <1>9, ConcatProperties
  <2>2. Len(delete) = 2 /\ Len(again) = 3
    BY <1>6, <1>9
  <2> HIDE DEF e
  <2> QED BY <2>1, <2>2 DEF e
<1> HIDE DEF e
<1>11. e[1] = x /\ e[2] = y /\ e[3] = again[1] /\ e[4] = again[2] /\ e[5] = again[3]
  BY <1>9, <1>10
<1>12. ~Has(rest, "run")
  <2>1. rest[1].do # "run" /\ rest[2].do # "run"
    BY <1>3 DEF ToMqtt, NetworkAck
  <2> QED BY <2>1, <1>3 DEF Has
<1>13. \A i \in 1 .. 3 : ~Has(e[i].otherwise, "run")
  BY <1>5, <1>8, <1>11, <1>12
<1>14. /\ \A i \in 1 .. 2 : Failed(e[i].otherwise, n)
       /\ e[3].otherwise = << ToMqtt("NetworksUpdated"), NetworkAck(n, "absent") >>
  BY <1>5, <1>8, <1>11 DEF rest
<1> QED BY <1>1, <1>3, <1>6, <1>8, <1>10, <1>11, <1>13, <1>14

\* For a hub: the INSERT, whether it works or not the Run if it is the first, and the ack.
LEMMA LinkageStepsAre ==
  ASSUME NEW h \in Hubs, NEW n \in Networks, NEW q, q = LinkageSteps(h, n)
  PROVE  /\ q \in Seq(Step) /\ 2 \in DOMAIN q
         /\ q[1].do = "sql" /\ q[1].stmt = InsertHub(h, n)
         /\ \A i \in DOMAIN q : i = 1 \/ q[i] \in {Run, LinkageAck}
         /\ NoHubs => q[2] = Run
         /\ NoHubs => 1 \in DOMAIN q[1].otherwise /\ q[1].otherwise[1] = Run
         /\ \A i \in DOMAIN q[1].otherwise : q[1].otherwise[i] \in {Run, LinkageAck}
         /\ ~NoHubs => \A i \in DOMAIN q : q[i].do # "run"
<1> DEFINE rest == IF NoHubs THEN << Run, LinkageAck >> ELSE << LinkageAck >>
<1>1. Run \in PlainStep /\ LinkageAck \in PlainStep
  BY StepTypes
<1>2. /\ rest \in Seq(PlainStep) /\ 1 \in DOMAIN rest
      /\ \A i \in DOMAIN rest : rest[i] \in {Run, LinkageAck}
      /\ NoHubs => rest[1] = Run
      /\ ~NoHubs => \A i \in DOMAIN rest : rest[i] = LinkageAck
  <2>1. CASE NoHubs
    BY <1>1, <2>1
  <2>2. CASE ~NoHubs
    BY <1>1, <2>2
  <2> QED BY <2>1, <2>2
<1>3. q = Regardless(InsertHub(h, n), rest)
  BY DEF LinkageSteps
<1> HIDE DEF rest
<1>4. InsertHub(h, n) \in Statement
  BY StepTypes DEF Row
<1>5. /\ q \in Seq(Step) /\ q[1] = Sql(InsertHub(h, n), rest)
      /\ \A i \in DOMAIN rest : i + 1 \in DOMAIN q /\ q[i + 1] = rest[i]
      /\ \A i \in DOMAIN q : i = 1 \/ i - 1 \in DOMAIN rest
  BY <1>2, <1>3, <1>4, RegardlessIs
<1>6. q[1].do = "sql" /\ q[1].stmt = InsertHub(h, n) /\ q[1].otherwise = rest
  BY <1>5 DEF Sql
<1>7. \A i \in DOMAIN q : i = 1 \/ (i - 1 \in DOMAIN rest /\ q[i] = rest[i - 1])
  BY <1>2, <1>5
<1>8. 2 \in DOMAIN q /\ q[2] = rest[1]
  BY <1>2, <1>5
<1>9. \A i \in DOMAIN q : i = 1 \/ q[i] \in {Run, LinkageAck}
  BY <1>2, <1>7
<1>10. ~NoHubs => \A i \in DOMAIN q : i = 1 \/ q[i] = LinkageAck
  BY <1>2, <1>7
<1>11. q[1].do # "run" /\ LinkageAck.do # "run"
  BY <1>6 DEF LinkageAck
<1>12. ~NoHubs => \A i \in DOMAIN q : q[i].do # "run"
  BY <1>10, <1>11
<1> QED BY <1>2, <1>5, <1>6, <1>8, <1>9, <1>12

\* The other lists of steps.
LEMMA ShortStepsAre ==
  /\ << Load >> \in Seq(Step) /\ << LinkageAck >> \in Seq(Step)
  /\ << ToMqtt("NetworksReady") >> \in Seq(Step) /\ << ToMqtt("NetworksReady"), Run >> \in Seq(Step)
<1>1. Load \in Step /\ LinkageAck \in Step /\ Run \in Step /\ ToMqtt("NetworksReady") \in Step
  BY DEF Load, LinkageAck, Run, ToMqtt, Step, RetryStep, PlainStep, MqttServiceCommand
<1> QED BY <1>1

\* For the settings of a hub: the INSERT, and in any case what the hub is told.
LEMMA SettingsStepsAre ==
  ASSUME NEW h \in Row, NEW n \in Networks, NEW q, q = Regardless(InsertHub(h, n), << Config >>)
  PROVE  /\ q \in Seq(Step) /\ Len(q) = 2
         /\ q[1].do = "sql" /\ q[1].stmt = InsertHub(h, n) /\ q[2] = Config
         /\ q[1].otherwise = << Config >>
<1> DEFINE rest == << Config >>
<1>1. rest \in Seq(PlainStep) /\ Len(rest) = 1 /\ 1 \in DOMAIN rest /\ rest[1] = Config
  BY StepTypes
<1>2. InsertHub(h, n) \in Statement
  BY StepTypes
<1>3. q = Regardless(InsertHub(h, n), rest)
  OBVIOUS
<1> HIDE DEF rest
<1>4. q \in Seq(Step) /\ Len(q) = 2 /\ q[1] = Sql(InsertHub(h, n), rest) /\ q[2] = Config
  <2> DEFINE e == Regardless(InsertHub(h, n), rest)
  <2>1. /\ e \in Seq(Step) /\ Len(e) = Len(rest) + 1 /\ e[1] = Sql(InsertHub(h, n), rest)
        /\ \A i \in DOMAIN rest : e[i + 1] = rest[i]
    BY <1>1, <1>2, RegardlessIs, Zenon
  <2>2. q = e
    BY <1>3
  <2> HIDE DEF e
  <2> QED BY <2>1, <2>2, <1>1
<1>5. q[1].do = "sql" /\ q[1].stmt = InsertHub(h, n) /\ q[1].otherwise = rest
  BY <1>4 DEF Sql
<1> QED BY <1>4, <1>5 DEF rest
-----------------------------------------------------------------------------
(* The types *)

LEMMA Bounds ==
  /\ InboxCap \in Nat /\ RunCap \in Nat /\ CmdCap \in Nat /\ EventCap \in Nat /\ MaxOutages \in Nat
  /\ MaxCommands \in Nat /\ MaxCrashes \in Nat /\ MaxFaults \in Nat
BY TopologyAssumption, MqttAssumption

\* What was spent stays below the bounds.
LEMMA SpentType ==
  ASSUME TypeOK,
         \/ spent.commands < MaxCommands /\ spent' = [spent EXCEPT !.commands = @ + 1]
         \/ spent.crashes < MaxCrashes /\ spent' = [spent EXCEPT !.crashes = @ + 1]
         \/ spent.faults < MaxFaults /\ spent' = [spent EXCEPT !.faults = @ + 1]
  PROVE  spent' \in [commands : 0 .. MaxCommands, crashes : 0 .. MaxCrashes, faults : 0 .. MaxFaults]
<1>1. spent \in [commands : 0 .. MaxCommands, crashes : 0 .. MaxCrashes, faults : 0 .. MaxFaults]
  BY DEF TypeOK
<1> QED BY <1>1, Bounds

\* A statement leaves the tables well typed.
LEMMA EffectType ==
  ASSUME TypeOK, NEW st \in Statement, Effect(st)
  PROVE  dbNet' \in [Networks -> Activity] /\ dbHub' \in [Row -> Networks \cup {"none"}]
<1>1. CASE st.sql \in {"insert network", "upsert network"}
  <2>1. st.net \in Networks /\ st.flag \in Activity
    BY <1>1 DEF Statement, Activity
  <2> QED BY <1>1, <2>1 DEF Effect, TypeOK
<1>2. CASE st.sql = "delete network"
  <2>1. st.net \in Networks /\ "absent" \in Activity
    BY <1>2 DEF Statement, Activity
  <2> QED BY <1>2, <2>1 DEF Effect, TypeOK
<1>3. CASE st.sql = "delete hubs"
  BY <1>3 DEF Effect, TypeOK
<1>4. CASE st.sql = "insert hub"
  <2>1. st.net \in Networks /\ st.hub \in Row
    BY <1>4 DEF Statement
  <2> QED BY <1>4, <2>1 DEF Effect, TypeOK
<1> QED BY <1>1, <1>2, <1>3, <1>4 DEF Statement

\* A step that is not a statement or the load.
LEMMA PlainKinds ==
  ASSUME NEW s \in PlainStep
  PROVE  s.do \in {"mqtt", "ack", "linkage ack", "config", "run"}
<1>1. CASE s \in [do : {"mqtt"}, cmd : MqttServiceCommand]
  BY <1>1
<1>2. CASE s \in [do : {"ack"}, net : Networks, what : Activity \cup {"nothing"}]
  BY <1>2
<1>3. CASE s \in [do : {"linkage ack", "config", "run"}]
  BY <1>3
<1> QED BY <1>1, <1>2, <1>3 DEF PlainStep

\* What a step is made of.
LEMMA StepParts ==
  ASSUME NEW s \in Step
  PROVE  /\ s.do \in {"sql", "mqtt", "ack", "linkage ack", "config", "run", "load"}
         /\ s.do = "sql" => s.stmt \in Statement /\ s.otherwise \in Seq(Step) /\ s.otherwise \in Seq(RetryStep)
         /\ s.do = "mqtt" => s.cmd \in MqttServiceCommand
         /\ s.do = "ack" => s.net \in Networks /\ s.what \in Activity \cup {"nothing"}
<1>1. CASE s \in PlainStep \cup {Load}
  <2>1. CASE s \in [do : {"mqtt"}, cmd : MqttServiceCommand]
    BY <2>1
  <2>2. CASE s \in [do : {"ack"}, net : Networks, what : Activity \cup {"nothing"}]
    BY <2>2
  <2>3. CASE s \in [do : {"linkage ack", "config", "run"}]
    BY <2>3
  <2>4. CASE s = Load
    BY <2>4 DEF Load
  <2> QED BY <1>1, <2>1, <2>2, <2>3, <2>4 DEF PlainStep
<1>2. CASE s \in SqlStep(PlainStep) \cup SqlStep(RetryStep)
  BY <1>2, Widen DEF SqlStep
<1> QED BY <1>1, <1>2 DEF Step, RetryStep

\* The step in hand, and those behind it.
LEMMA StepInHand ==
  ASSUME TypeOK, todo # << >>
  PROVE  /\ Head(todo) \in Step /\ Head(todo) = todo[1] /\ Tail(todo) \in Seq(Step)
         /\ Head(todo).do = "sql" => Head(todo).stmt \in Statement /\ Head(todo).otherwise \in Seq(Step)
<1>1. todo \in Seq(Step)
  BY DEF TypeOK
<1>2. Head(todo) \in Step /\ Head(todo) = todo[1] /\ Tail(todo) \in Seq(Step)
  BY <1>1, TailElements
<1> QED BY <1>2, StepParts

\* A command, taken from the inbox.
LEMMA CommandInHand ==
  ASSUME TypeOK, inbox # << >>
  PROVE  /\ Head(inbox) \in Command /\ Tail(inbox) \in Seq(Command) /\ Len(Tail(inbox)) <= InboxCap
         /\ Head(inbox).net \in Networks
         /\ Head(inbox).name = "Net" => Head(inbox).active \in BOOLEAN /\ Head(inbox).delete \in BOOLEAN
         /\ Head(inbox).name = "LinkageReq" => Head(inbox).hub \in Hubs
<1>1. inbox \in Seq(Command) /\ Len(inbox) <= InboxCap /\ InboxCap \in Nat
  BY Bounds DEF TypeOK
<1>2. /\ Head(inbox) \in Command /\ Tail(inbox) \in Seq(Command)
      /\ Len(Tail(inbox)) = Len(inbox) - 1 /\ Len(inbox) \in Nat
  BY <1>1, TailElements
<1> QED BY <1>1, <1>2 DEF Command, Net, LinkageReq, SettingsServer

\* TakeNetwork and TakeLinkage leave steps to do.
LEMMA NetworkType ==
  ASSUME TypeOK, NEW c \in Command, c.net \in Networks, Network(c)
  PROVE  networks' \in [Networks -> Activity] /\ todo' \in Seq(Step)
<1>1. Flag(c.active) \in {"active", "paused"} /\ "absent" \in Activity /\ {"active", "paused"} \subseteq Activity
  BY DEF Flag, Activity
<1>2. networks \in [Networks -> Activity] /\ todo \in Seq(Step)
  BY DEF TypeOK, MqttTypeOK
<1>3. /\ DeleteSteps(c.net) \in Seq(Step)
      /\ InsertSteps(c.net, Flag(c.active)) \in Seq(Step)
      /\ UpdateSteps(c.net, Flag(c.active)) \in Seq(Step)
  BY <1>1, DeleteStepsAre, ChangeStepsAre
<1> QED BY <1>1, <1>2, <1>3 DEF Network

\* The commands keep the types.
LEMMA TakeType ==
  ASSUME TypeOK, TakeNetwork \/ TakeLinkage \/ TakeSettings
  PROVE  TypeOK'
<1> DEFINE c == Head(inbox)
<1>1. inbox # << >>
  BY DEF TakeNetwork, TakeLinkage, TakeSettings
<1>2. /\ c \in Command /\ c.net \in Networks /\ (c.name = "LinkageReq" => c.hub \in Hubs)
      /\ Tail(inbox) \in Seq(Command) /\ Len(Tail(inbox)) <= InboxCap
  BY <1>1, CommandInHand
<1>3. CASE TakeNetwork
  <2>1. networks' \in [Networks -> Activity] /\ todo' \in Seq(Step)
    BY <1>2, <1>3, NetworkType DEF TakeNetwork
  <2>2. acked' \in [Networks -> Activity \cup {"nothing"}]
    BY <1>2, <1>3 DEF TakeNetwork, TypeOK
  <2> QED BY <1>2, <1>3, <2>1, <2>2 DEF TakeNetwork, TypeOK, MqttTypeOK, mqttVars, db, fsmVars
<1>4. CASE TakeLinkage
  <2>1. todo' \in Seq(Step)
    BY <1>2, <1>4, LinkageStepsAre, ShortStepsAre DEF TakeLinkage
  <2>2. hubs' \in [Networks -> SUBSET Row]
    BY <1>2, <1>4 DEF TakeLinkage, TypeOK, Row
  <2> QED BY <1>2, <1>4, <2>1, <2>2 DEF TakeLinkage, TypeOK, MqttTypeOK, mqttVars, db, fsmVars
<1>5. CASE TakeSettings
  <2>1. todo' \in Seq(Step)
    BY <1>2, <1>5, SettingsStepsAre DEF TakeSettings, Row
  <2> QED BY <1>2, <1>5, <2>1 DEF TakeSettings, TypeOK, MqttTypeOK, mqttVars, memory, db, fsmVars
<1> QED BY <1>3, <1>4, <1>5

\* The steps do.
LEMMA StepType ==
  ASSUME TypeOK, Execute \/ ExecuteFails \/ TellMqtt \/ Answer \/ SendRun
  PROVE  TypeOK'
<1> DEFINE s == Head(todo)
<1>1. todo # << >>
  BY DEF Execute, ExecuteFails, TellMqtt, Answer, SendRun
<1>2. s \in Step /\ Tail(todo) \in Seq(Step)
  BY <1>1, StepInHand
<1>3. CASE Execute
  <2>1. dbNet' \in [Networks -> Activity] /\ dbHub' \in [Row -> Networks \cup {"none"}]
    BY <1>2, <1>3, StepParts, EffectType DEF Execute
  <2> QED BY <1>2, <1>3, <2>1 DEF Execute, TypeOK, MqttTypeOK, mqttVars, memory, fsmVars
<1>4. CASE ExecuteFails
  <2>1. s.otherwise \in Seq(Step)
    BY <1>2, <1>4, StepParts DEF ExecuteFails
  <2>2. spent' \in [commands : 0 .. MaxCommands, crashes : 0 .. MaxCrashes, faults : 0 .. MaxFaults]
    BY <1>4, SpentType DEF ExecuteFails, Fault
  <2> QED BY <1>4, <2>1, <2>2 DEF ExecuteFails, TypeOK, MqttTypeOK, mqttVars, memory, db, fsmVars
<1>5. CASE TellMqtt
  <2>1. s.cmd \in MqttServiceCommand
    BY <1>2, <1>5, StepParts DEF TellMqtt
  <2>2. netCmds' \in Seq(MqttServiceCommand)
    BY <1>5, <2>1 DEF TellMqtt, TypeOK, MqttTypeOK
  <2> QED BY <1>2, <1>5, <2>2 DEF TellMqtt, TypeOK, MqttTypeOK, memory, db, fsmVars
<1>6. CASE Answer
  <2>1. acked' \in [Networks -> Activity \cup {"nothing"}]
    BY <1>2, <1>6, StepParts DEF Answer, TypeOK
  <2> QED BY <1>2, <1>6, <2>1 DEF Answer, TypeOK, MqttTypeOK, mqttVars, memory, db, fsmVars
<1>7. CASE SendRun
  <2>1. runs' \in 0 .. RunCap
    BY <1>7, Bounds DEF SendRun, TypeOK
  <2> QED BY <1>2, <1>7, <2>1 DEF SendRun, TypeOK, MqttTypeOK, mqttVars, memory, db
<1> QED BY <1>3, <1>4, <1>5, <1>6, <1>7

\* So do the load, the runtime of the FSM, and what the server, the hubs and a crash do.
LEMMA OtherType ==
  ASSUME TypeOK,
         \/ LoadMemory \/ LoadFails \/ ForwardRun \/ CreateRuntime \/ DeliverLink
         \/ ServerNetwork \/ ServerSettings \/ HubLinkage \/ Crash
  PROVE  TypeOK'
<1>1. CASE LoadMemory \/ LoadFails
  <2>1. << >> \in Seq(Step)
    OBVIOUS
  <2>2. todo' \in Seq(Step)
    BY <1>1, <2>1, ShortStepsAre DEF LoadMemory, LoadFails
  <2>3. networks' \in [Networks -> Activity] /\ hubs' \in [Networks -> SUBSET Row]
    BY <1>1 DEF LoadMemory, LoadFails, memory, Remembered, TypeOK, MqttTypeOK
  <2>4. spent' \in [commands : 0 .. MaxCommands, crashes : 0 .. MaxCrashes, faults : 0 .. MaxFaults]
    BY <1>1, SpentType DEF LoadMemory, LoadFails, Fault, TypeOK
  <2> QED BY <1>1, <2>2, <2>3, <2>4 DEF LoadMemory, LoadFails, TypeOK, MqttTypeOK, mqttVars, db, fsmVars
<1>2. CASE ForwardRun
  BY <1>2, Bounds DEF ForwardRun, TypeOK, MqttTypeOK, mqttVars, memory, db
<1>3. CASE CreateRuntime
  BY <1>3, Bounds DEF CreateRuntime, TypeOK, MqttTypeOK, mqttVars, memory, db
<1>4. CASE DeliverLink
  <2>1. Head(linkEvents) \in LinkEvent /\ Tail(linkEvents) \in Seq(LinkEvent)
    BY <1>4 DEF DeliverLink, TypeOK, MqttTypeOK
  <2> QED BY <1>4, <2>1 DEF DeliverLink, TypeOK, MqttTypeOK, memory, db
<1>5. CASE ServerNetwork \/ ServerSettings \/ HubLinkage
  <2>1. PICK c \in Command : Deliver(c)
    BY <1>5 DEF ServerNetwork, ServerSettings, HubLinkage, Command
  <2>2. inbox' \in Seq(Command) /\ Len(inbox') <= InboxCap
    BY <2>1, AppendElements, Bounds DEF Deliver, TypeOK
  <2>3. spent' \in [commands : 0 .. MaxCommands, crashes : 0 .. MaxCrashes, faults : 0 .. MaxFaults]
    BY <2>1, SpentType DEF Deliver
  <2> QED BY <2>1, <2>2, <2>3 DEF Deliver, TypeOK, MqttTypeOK, mqttVars, memory, db, fsmVars
<1>6. CASE Crash
  <2>1. todo' \in Seq(Step) /\ inbox' \in Seq(Command) /\ Len(inbox') <= InboxCap
    BY <1>6, ShortStepsAre, Bounds DEF Crash
  <2>2. spent' \in [commands : 0 .. MaxCommands, crashes : 0 .. MaxCrashes, faults : 0 .. MaxFaults]
    BY <1>6, SpentType DEF Crash
  <2>3. MqttTypeOK'
    BY <1>6 DEF Crash, MqttRestart, TypeOK, MqttTypeOK, StateClient, Activity
  <2>4. runs' \in 0 .. RunCap /\ starting' \in 0 .. RunCap
    BY <1>6, Bounds DEF Crash
  <2>5. hubs' \in [Networks -> SUBSET Row] /\ runtime' = FALSE /\ fsmLink' = "Unknown"
    BY <1>6 DEF Crash
  <2> QED BY <1>6, <2>1, <2>2, <2>3, <2>4, <2>5 DEF Crash, TypeOK, db
<1> QED BY <1>1, <1>2, <1>3, <1>4, <1>5, <1>6

\* The client keeps its types, whatever the broker does.
LEMMA MqttType ==
  ASSUME MqttTypeOK, Mqtt \/ Broker, UNCHANGED networks
  PROVE  MqttTypeOK'
<1> USE DEF StateClient, LinkEvent
<1>1. Known \subseteq Topic /\ Linkage \in Topic
  BY DEF Known, Topic
<1>2. CASE Wait
  <2>1. netCmds' \in Seq(MqttServiceCommand)
    BY <1>2 DEF Wait, MqttTypeOK
  <2>2. client' \in [state : StateClient, link : {"none", "up", "broken"}]
    BY <1>2 DEF Wait, MqttTypeOK
  <2> QED BY <1>2, <2>1, <2>2 DEF Wait, MqttTypeOK
<1>3. CASE Initialize
  <2>1. subs' \subseteq Topic /\ requests' \in Seq(Request)
    BY <1>1, <1>3 DEF Initialize, CollectSubscriptions, Request
  <2> QED BY <1>3, <2>1 DEF Initialize, MqttTypeOK
<1>4. CASE TakeNetCommand
  <2>1. netCmds' \in Seq(MqttServiceCommand)
    BY <1>4 DEF TakeNetCommand, MqttTypeOK
  <2>2. CASE UpdateSubscriptions
    <3>1. [add |-> Known \ subs, drop |-> subs \ Known] \in Request
      BY <1>1 DEF Request, MqttTypeOK
    <3>2. requests' \in Seq(Request) /\ subs' \subseteq Topic
      BY <1>1, <2>2, <3>1 DEF UpdateSubscriptions, MqttTypeOK
    <3> QED BY <1>4, <2>1, <3>2 DEF TakeNetCommand, MqttTypeOK
  <2>3. CASE UNCHANGED << subs, requests >>
    BY <1>4, <2>1, <2>3 DEF TakeNetCommand, MqttTypeOK
  <2> QED BY <1>4, <2>2, <2>3 DEF TakeNetCommand
<1>5. CASE Connect
  BY <1>5 DEF Connect, MqttTypeOK
<1>6. CASE SendRequest
  <2>1. Head(requests) \in Request /\ Tail(requests) \in Seq(Request)
    BY <1>6 DEF SendRequest, MqttTypeOK
  <2>2. session' \subseteq Topic
    BY <1>6, <2>1 DEF SendRequest, Request, MqttTypeOK
  <2> QED BY <1>6, <2>1, <2>2 DEF SendRequest, MqttTypeOK
<1>7. CASE PollError
  BY <1>7 DEF PollError, MqttTypeOK
<1>8. CASE Recover
  BY <1>8 DEF Recover, MqttTypeOK
<1>9. CASE BrokerDown
  <2>1. client' \in [state : StateClient, link : {"none", "up", "broken"}]
    BY <1>9 DEF BrokerDown, MqttTypeOK
  <2>2. outages' \in 0 .. MaxOutages
    BY <1>9, Bounds DEF BrokerDown, MqttTypeOK
  <2> QED BY <1>9, <2>1, <2>2 DEF BrokerDown, MqttTypeOK
<1>10. CASE BrokerUp
  BY <1>10 DEF BrokerUp, MqttTypeOK
<1>11. CASE InitializeFails
  BY <1>11, MqttAssumption DEF InitializeFails, MqttTypeOK
<1> QED BY <1>2, <1>3, <1>4, <1>5, <1>6, <1>7, <1>8, <1>9, <1>10, <1>11 DEF Mqtt, Broker

\* The types are kept by every step.
LEMMA TypeInduction ==
  ASSUME TypeOK, [Next]_vars
  PROVE  TypeOK'
<1>1. CASE Service \/ CreateRuntime \/ DeliverLink \/ Environment
  BY <1>1, TakeType, StepType, OtherType DEF Service, Environment
<1>2. CASE (Mqtt \/ Broker) /\ UNCHANGED topologyVars
  <2>1. UNCHANGED networks
    BY <1>2 DEF Mqtt, Broker, Wait, Initialize, TakeNetCommand, Connect, SendRequest, PollError,
                Recover, BrokerDown, BrokerUp, InitializeFails
  <2>2. MqttTypeOK'
    BY <1>2, <2>1, MqttType DEF TypeOK
  <2> QED BY <1>2, <2>2 DEF TypeOK, topologyVars, db, fsmVars
<1>3. CASE UNCHANGED vars
  BY <1>3 DEF TypeOK, MqttTypeOK, vars, mqttVars, memory, db, fsmVars
<1> QED BY <1>1, <1>2, <1>3 DEF Next

LEMMA InitType == Init => TypeOK
<1> SUFFICES ASSUME Init PROVE TypeOK
  OBVIOUS
<1>1. MqttTypeOK
  BY MqttAssumption DEF Init, MqttInit, MqttTypeOK, StateClient, Activity
<1>2. todo \in Seq(Step) /\ inbox \in Seq(Command) /\ Len(inbox) <= InboxCap
  BY ShortStepsAre, Bounds DEF Init
<1>3. /\ runs \in 0 .. RunCap /\ starting \in 0 .. RunCap
      /\ spent \in [commands : 0 .. MaxCommands, crashes : 0 .. MaxCrashes, faults : 0 .. MaxFaults]
  BY Bounds DEF Init
<1> QED BY <1>1, <1>2, <1>3 DEF Init, TypeOK, Activity

\* The tables, the memory, the channels and what is left of a command stay what they should
\* be, and no channel is sent more than it holds.
THEOREM TypeCorrect == Spec => []TypeOK
<1>1. TypeOK /\ [Next]_vars => TypeOK'
  BY TypeInduction
<1> QED BY InitType, <1>1, PTL DEF Spec
-----------------------------------------------------------------------------
(* The invariants *)

\* A statement on the table network, and what it leaves there.
Changes(s)   == s.do = "sql" /\ s.stmt.sql \in {"insert network", "upsert network", "delete network"}
Result(stmt) == IF stmt.sql = "delete network" THEN "absent" ELSE stmt.flag

\* The load comes first, on a memory and a client that are those of a new process.
Loading ==
  /\ \A i \in DOMAIN todo : todo[i].do = "load" => i = 1
  /\ todo # << >> /\ todo[1].do = "load" =>
       /\ \A n \in Networks : networks[n] = "absent" /\ hubs[n] = {}
       /\ client.state = "Waiting" /\ netCmds = << >>

\* As long as no statement failed, a command has at most one change of the table left to do,
\* the first of its steps; it is the one that the memory is ahead of the database by, and the
\* network was not acked meanwhile.  With no change left the two agree, and the acks that
\* were sent, or will be, say what they say.
Durable ==
  /\ \A i \in DOMAIN todo : Changes(todo[i]) => i = 1
  /\ todo = << >> \/ ~(Changes(todo[1]) \/ todo[1].do = "load") => networks = dbNet
  /\ todo # << >> /\ Changes(todo[1]) =>
       LET st == todo[1].stmt
       IN  /\ networks = [dbNet EXCEPT ![st.net] = Result(st)]
           /\ acked[st.net] = "nothing"
           /\ st.sql = "insert network" => dbNet[st.net] = "absent"
  /\ \A i \in DOMAIN todo : todo[i].do = "ack" => networks[todo[i].net] = todo[i].what
  /\ \A n \in Networks : acked[n] # "nothing" => dbNet[n] = acked[n]

DurableInv == spent.faults = 0 => Durable

\* The topic of n is the broker's once it has had the requests that the client holds:
\* the last of them that says something about n asks for it, or none does and it has it.
Heard(n) ==
  \/ n \in session /\ \A i \in DOMAIN requests : n \notin requests[i].drop
  \/ \E i \in DOMAIN requests :
       n \in requests[i].add /\ \A j \in DOMAIN requests : j >= i => n \notin requests[j].drop

\* The client's record of its subscriptions is what the broker will have, and the session of
\* a client that is not connected is empty.
Subscribed ==
  /\ client.link # "up" => session = {}
  /\ client.state # "Work" => client.link = "none"
  /\ client.state = "Work" /\ client.link # "broken" =>
       \A n \in Networks : n \in subs <=> Heard(n)

\* As long as no statement failed, a client whose record is not the memory's has a
\* NetworksUpdated on the way.
Notified ==
  client.state = "Work" /\ subs \cap Networks # Known =>
    \/ \E i \in DOMAIN netCmds : netCmds[i] = "NetworksUpdated"
    \/ \E i \in DOMAIN todo : todo[i] = ToMqtt("NetworksUpdated")

NotifiedInv == spent.faults = 0 => Notified

\* Where there is a hub, the runtime is there or a Run on its way; a statement that fails
\* before the Run leads to it all the same, and to no other that could fail.
Started ==
  /\ (\E n \in Networks : hubs[n] # {}) => runtime \/ runs > 0 \/ starting > 0 \/ Has(todo, "run")
  /\ \A i \in DOMAIN todo : todo[i].do = "sql" =>
       /\ Has(todo, "run") => Has(todo[i].otherwise, "run")
       /\ ~(Has(todo[i].otherwise, "run") /\ Has(todo[i].otherwise, "sql"))

\* An ack that says that n was deleted; a statement that deletes it or its hubs, and without
\* which there is no such ack; one that brings back either.
SaysAbsent(s, n) == s.do = "ack" /\ s.net = n /\ s.what = "absent"
Promises(q, n)   == \E i \in DOMAIN q : SaysAbsent(q[i], n)
Deletes(s, n, what) ==
  s.do = "sql" /\ s.stmt.sql = what /\ s.stmt.net = n /\ ~Promises(s.otherwise, n)
Revives(s, n) ==
  /\ s.do = "sql" /\ s.stmt.net = n
  /\ \/ s.stmt.sql \in {"insert network", "upsert network"}
     \/ s.stmt.sql = "insert hub" /\ s.stmt.hub \in Hubs

\* No list that says that n was deleted brings it back, and a statement that may fail and
\* still lead to that ack is the last one before it.
Careful(q, n) ==
  /\ Promises(q, n) => \A i \in DOMAIN q : ~Revives(q[i], n)
  /\ \A i \in DOMAIN q : q[i].do = "sql" =>
       /\ \A j \in DOMAIN q[i].otherwise :
            /\ ~Revives(q[i].otherwise[j], n)
            /\ q[i].otherwise[j].do = "sql" => ~Promises(q[i].otherwise[j].otherwise, n)
       /\ Promises(q[i].otherwise, n) =>
            /\ \E k \in DOMAIN q : k > i /\ SaysAbsent(q[k], n)
            /\ \A k \in DOMAIN q : k > i => q[k].do # "sql"

Emptied(n) == \A h \in Hubs : dbHub[h] # n

\* A network that was acknowledged as deleted is nowhere, and nothing brings it back; before
\* an ack that is to say so, what it says is true or still to be made true.
Gone(n) ==
  /\ Careful(todo, n)
  /\ acked[n] = "absent" \/ Promises(todo, n) => networks[n] = "absent"
  /\ acked[n] = "absent" =>
       dbNet[n] = "absent" /\ Emptied(n) /\ \A i \in DOMAIN todo : ~Revives(todo[i], n)
  /\ Promises(todo, n) => dbNet[n] = "absent" \/ Deletes(todo[1], n, "delete network")
  /\ \A j \in DOMAIN todo : SaysAbsent(todo[j], n) =>
       Emptied(n) \/ \E i \in DOMAIN todo : i < j /\ Deletes(todo[i], n, "delete hubs")

GoneInv == \A n \in Networks : Gone(n)

IInv == TypeOK /\ Loading /\ DurableInv /\ Subscribed /\ NotifiedInv /\ Started /\ GoneInv
-----------------------------------------------------------------------------
(* The load *)

\* The first step is done; the others are those that are left.
LEMMA TodoTail ==
  ASSUME TypeOK, todo # << >>, todo' = Tail(todo)
  PROVE  /\ Head(todo) = todo[1] /\ 1 \in DOMAIN todo /\ todo[1] \in Step
         /\ \A i \in DOMAIN todo' : i + 1 \in DOMAIN todo /\ i + 1 # 1 /\ todo'[i] = todo[i + 1]
         /\ \A i \in DOMAIN todo : i = 1 \/ (i - 1 \in DOMAIN todo' /\ todo[i] = todo'[i - 1])
         /\ todo' # << >> => 1 \in DOMAIN todo'
<1>1. todo \in Seq(Step) /\ todo' \in Seq(Step)
  BY TailElements DEF TypeOK
<1>2. /\ Head(todo) = todo[1] /\ 1 \in DOMAIN todo /\ todo[1] \in Step
      /\ \A i \in DOMAIN todo' : i \in Nat \ {0} /\ i + 1 \in DOMAIN todo /\ todo'[i] = todo[i + 1]
      /\ \A i \in DOMAIN todo : i = 1 \/ (i - 1 \in DOMAIN todo' /\ todo[i] = todo'[i - 1])
  BY <1>1, TailElements
<1>3. todo' # << >> => 1 \in DOMAIN todo'
  BY <1>1, TailElements
<1> QED BY <1>2, <1>3

\* What the code may do after a failure does not load.
LEMMA NoLoadAgain ==
  ASSUME NEW q \in Seq(RetryStep), NEW i \in DOMAIN q
  PROVE  q[i] \in RetryStep /\ q[i].do # "load"
<1>1. q[i] \in RetryStep
  OBVIOUS
<1>2. CASE q[i] \in SqlStep(PlainStep)
  BY <1>2 DEF SqlStep
<1>3. CASE q[i] \in PlainStep
  BY <1>1, <1>3, PlainKinds
<1> QED BY <1>1, <1>2, <1>3 DEF RetryStep

\* The lists a command starts with.
LEMMA TakenSteps ==
  ASSUME TypeOK, TakeNetwork \/ TakeLinkage \/ TakeSettings
  PROVE  \A i \in DOMAIN todo' : i \in Nat \ {0} /\ todo'[i].do # "load"
<1> DEFINE c == Head(inbox)
<1>1. /\ c \in Command /\ c.net \in Networks /\ (c.name = "LinkageReq" => c.hub \in Hubs)
      /\ (c.name = "Net" => c.active \in BOOLEAN)
  BY CommandInHand DEF TakeNetwork, TakeLinkage, TakeSettings
<1>2. todo' \in Seq(Step)
  BY TakeType DEF TypeOK
<1>3. \A i \in DOMAIN todo' : i \in Nat \ {0}
  BY <1>2
<1>4. CASE TakeNetwork
  <2>1. Flag(c.active) \in {"active", "paused"}
    BY DEF Flag
  <2>2. CASE todo' = DeleteSteps(c.net)
    <3>1. /\ todo' \in Seq(Step) /\ Len(todo') = 5 /\ \A i \in 1 .. 3 : todo'[i].do = "sql"
          /\ todo'[4] = ToMqtt("NetworksUpdated") /\ todo'[5] = NetworkAck(c.net, "absent")
      BY <1>1, <2>2, DeleteStepsAre
    <3>2. DOMAIN todo' = 1 .. 5
      BY <3>1
    <3> QED BY <1>3, <3>1, <3>2 DEF ToMqtt, NetworkAck
  <2>3. CASE todo' = InsertSteps(c.net, Flag(c.active)) \/ todo' = UpdateSteps(c.net, Flag(c.active))
    <3>1. /\ todo' \in Seq(Step) /\ Len(todo') = 3 /\ todo'[1].do = "sql"
          /\ todo'[2] = ToMqtt("NetworksUpdated") /\ todo'[3] = NetworkAck(c.net, Flag(c.active))
      BY <1>1, <2>1, <2>3, ChangeStepsAre
    <3>2. DOMAIN todo' = 1 .. 3
      BY <3>1
    <3> QED BY <1>3, <3>1, <3>2 DEF ToMqtt, NetworkAck
  <2>4. CASE todo' = todo
    BY <1>4, <2>4 DEF TakeNetwork
  <2> QED BY <1>4, <2>2, <2>3, <2>4 DEF TakeNetwork, Network
<1>5. CASE TakeLinkage
  <2>1. CASE todo' = << LinkageAck >>
    <3>1. \A i \in DOMAIN todo' : todo'[i] = LinkageAck
      BY <2>1
    <3>2. LinkageAck.do # "load"
      BY DEF LinkageAck
    <3> QED BY <1>3, <3>1, <3>2
  <2>2. CASE todo' = LinkageSteps(c.hub, c.net)
    <3>1. todo'[1].do = "sql" /\ \A i \in DOMAIN todo' : i = 1 \/ todo'[i] \in {Run, LinkageAck}
      BY <1>1, <1>5, <2>2, LinkageStepsAre DEF TakeLinkage
    <3>2. Run.do # "load" /\ LinkageAck.do # "load"
      BY DEF Run, LinkageAck
    <3> QED BY <1>3, <3>1, <3>2
  <2> QED BY <1>5, <2>1, <2>2 DEF TakeLinkage
<1>6. CASE TakeSettings
  <2>1. todo' \in Seq(Step) /\ Len(todo') = 2 /\ todo'[1].do = "sql" /\ todo'[2] = Config
    BY <1>1, <1>6, SettingsStepsAre DEF TakeSettings, Row
  <2>2. DOMAIN todo' = 1 .. 2
    BY <2>1
  <2> QED BY <1>3, <2>1, <2>2 DEF Config
<1> QED BY <1>4, <1>5, <1>6

\* Only a new process loads.
LEMMA LoadingInduction ==
  ASSUME TypeOK, Loading, [Next]_vars
  PROVE  Loading'
<1>1. \A i \in DOMAIN todo : i \in Nat \ {0}
  BY DEF TypeOK
<1>2. CASE TakeNetwork \/ TakeLinkage \/ TakeSettings
  <2>1. \A i \in DOMAIN todo' : todo'[i].do # "load"
    BY <1>2, TakenSteps
  <2>2. todo' # << >> => 1 \in DOMAIN todo'
    BY <1>2, TakeType DEF TypeOK
  <2> QED BY <2>1, <2>2 DEF Loading
<1>3. CASE Execute \/ TellMqtt \/ Answer \/ SendRun
  <2>1. todo # << >> /\ todo' = Tail(todo)
    BY <1>3 DEF Execute, TellMqtt, Answer, SendRun
  <2>2. /\ \A i \in DOMAIN todo' : i + 1 \in DOMAIN todo /\ i + 1 # 1 /\ todo'[i] = todo[i + 1]
        /\ todo' # << >> => 1 \in DOMAIN todo'
    BY <2>1, TodoTail
  <2> QED BY <2>2 DEF Loading
<1>4. CASE ExecuteFails
  <2>1. todo' \in Seq(RetryStep)
    BY <1>4, StepInHand, StepParts DEF ExecuteFails
  <2>2. todo' # << >> => 1 \in DOMAIN todo'
    BY <2>1
  <2> QED BY <2>1, <2>2, NoLoadAgain DEF Loading
<1>5. CASE LoadMemory \/ LoadFails
  <2>1. todo' = << >> \/ todo' = << ToMqtt("NetworksReady") >> \/ todo' = << ToMqtt("NetworksReady"), Run >>
    BY <1>5 DEF LoadMemory, LoadFails
  <2>2. CASE todo' = << >>
    BY <2>2 DEF Loading
  <2>3. CASE todo' = << ToMqtt("NetworksReady") >>
    BY <2>3 DEF Loading, ToMqtt
  <2>4. CASE todo' = << ToMqtt("NetworksReady"), Run >>
    BY <2>4 DEF Loading, ToMqtt, Run
  <2> QED BY <2>1, <2>2, <2>3, <2>4
<1>6. CASE Crash
  <2>1. todo' = << Load >> /\ DOMAIN todo' = {1}
    BY <1>6 DEF Crash
  <2> QED BY <1>6, <2>1 DEF Crash, MqttRestart, Loading
<1>7. CASE /\ UNCHANGED << todo, networks, hubs, client, netCmds >>
  BY <1>7 DEF Loading
<1>8. CASE (Mqtt \/ Broker) /\ UNCHANGED topologyVars
  <2>1. UNCHANGED << todo, hubs, networks >>
    BY <1>8 DEF topologyVars, Mqtt, Broker, Wait, Initialize, TakeNetCommand, Connect, SendRequest, PollError,
                Recover, BrokerDown, BrokerUp, InitializeFails
  <2>2. client.state = "Waiting" /\ netCmds = << >> => client'.state = "Waiting" /\ netCmds' = << >>
    BY <1>8 DEF TypeOK, MqttTypeOK, Mqtt, Broker, Wait, Initialize, TakeNetCommand, Connect, SendRequest,
                PollError, Recover, BrokerDown, BrokerUp, InitializeFails
  <2> QED BY <2>1, <2>2 DEF Loading
<1>9. CASE ForwardRun \/ CreateRuntime \/ DeliverLink \/ ServerNetwork \/ ServerSettings \/ HubLinkage \/ UNCHANGED vars
  BY <1>7, <1>9 DEF ForwardRun, CreateRuntime, DeliverLink, ServerNetwork, ServerSettings, HubLinkage,
                    Deliver, vars, mqttVars, memory
<1> QED BY <1>2, <1>3, <1>4, <1>5, <1>6, <1>8, <1>9 DEF Next, Service, Environment
-----------------------------------------------------------------------------
(* The commands *)

\* A command about a network changes nothing, or it sets one network to another value: the
\* first step does so in the table, and of the others one tells the client and those that
\* answer the server say so.
NetworkSet(n, w) ==
  /\ networks[n] # w /\ networks' = [networks EXCEPT ![n] = w] /\ acked' = [acked EXCEPT ![n] = "nothing"]
  /\ todo' # << >> /\ Changes(todo'[1]) /\ todo'[1].stmt.net = n /\ Result(todo'[1].stmt) = w
  /\ todo'[1].stmt.sql = "insert network" => networks[n] = "absent"
  /\ \A i \in DOMAIN todo' :
       /\ Changes(todo'[i]) => i = 1
       /\ todo'[i].do = "ack" => todo'[i].net = n /\ todo'[i].what = w
       /\ todo'[i].do # "run"
       /\ todo'[i].do = "sql" => ~Has(todo'[i].otherwise, "run")
  /\ \E i \in DOMAIN todo' : todo'[i] = ToMqtt("NetworksUpdated")

LEMMA NetworkSteps ==
  ASSUME TypeOK, TakeNetwork
  PROVE  \/ todo' = << >> /\ UNCHANGED << networks, acked >>
         \/ \E n \in Networks, w \in Activity : NetworkSet(n, w)
<1>1. PICK c : c = Head(inbox)
  OBVIOUS
<1>2. PICK n : n = c.net
  OBVIOUS
<1>3. PICK f : f = Flag(c.active)
  OBVIOUS
<1>4. c \in Command /\ n \in Networks /\ f \in {"active", "paused"}
  BY <1>1, <1>2, <1>3, CommandInHand DEF TakeNetwork, Flag
<1>5. /\ todo = << >> /\ Network(c)
      /\ acked' = IF networks' = networks THEN acked ELSE [acked EXCEPT ![n] = "nothing"]
  BY <1>1, <1>2 DEF TakeNetwork
<1>6. networks \in [Networks -> Activity]
  BY DEF TypeOK, MqttTypeOK
<1>7. ToMqtt("NetworksUpdated").do = "mqtt"
  BY DEF ToMqtt
<1>8. \A w : NetworkAck(n, w).do = "ack" /\ NetworkAck(n, w).net = n /\ NetworkAck(n, w).what = w
  BY DEF NetworkAck
<1>9. CASE networks[n] # "absent" /\ networks' = [networks EXCEPT ![n] = "absent"] /\ todo' = DeleteSteps(n)
  <2>1. /\ todo' \in Seq(Step) /\ Len(todo') = 5
        /\ todo'[1].do = "sql" /\ todo'[1].stmt = DeleteNetwork(n)
        /\ todo'[2].do = "sql" /\ todo'[2].stmt = DeleteHubs(n)
        /\ todo'[3].do = "sql" /\ todo'[3].stmt = DeleteHubs(n)
        /\ todo'[4] = ToMqtt("NetworksUpdated") /\ todo'[5] = NetworkAck(n, "absent")
        /\ ~Has(todo'[1].otherwise, "run") /\ ~Has(todo'[2].otherwise, "run")
        /\ ~Has(todo'[3].otherwise, "run")
    BY <1>4, <1>9, DeleteStepsAre
  <2>2. DOMAIN todo' = 1 .. 5 /\ todo' # << >>
    <3>1. todo' \in Seq(Step) /\ Len(todo') = 5
      BY <2>1
    <3> QED BY <3>1, EmptyLength
  <2>3. /\ DeleteNetwork(n).sql = "delete network" /\ DeleteNetwork(n).net = n
        /\ DeleteHubs(n).sql = "delete hubs"
    BY DEF DeleteNetwork, DeleteHubs
  <2>4. Changes(todo'[1]) /\ ~Changes(todo'[2]) /\ ~Changes(todo'[3]) /\ ~Changes(todo'[4]) /\ ~Changes(todo'[5])
    BY <1>7, <1>8, <2>1, <2>3 DEF Changes
  <2>5. acked' = [acked EXCEPT ![n] = "nothing"]
    BY <1>4, <1>5, <1>6, <1>9
  <2>6. Result(todo'[1].stmt) = "absent" /\ todo'[1].stmt.net = n /\ todo'[1].stmt.sql # "insert network"
    BY <2>1, <2>3 DEF Result
  <2>7. \A i \in DOMAIN todo' :
       /\ Changes(todo'[i]) => i = 1
       /\ todo'[i].do = "ack" => todo'[i].net = n /\ todo'[i].what = "absent"
       /\ todo'[i].do # "run"
       /\ todo'[i].do = "sql" => ~Has(todo'[i].otherwise, "run")
    BY <1>7, <1>8, <2>1, <2>2, <2>4
  <2>8. 4 \in DOMAIN todo'
    BY <2>2
  <2>9. NetworkSet(n, "absent")
    BY <1>9, <2>1, <2>2, <2>4, <2>5, <2>6, <2>7, <2>8 DEF NetworkSet
  <2> QED BY <1>4, <2>9 DEF Activity
<1>10. CASE /\ networks[n] # f /\ networks' = [networks EXCEPT ![n] = f]
            /\ \/ todo' = UpdateSteps(n, f)
               \/ networks[n] = "absent" /\ todo' = InsertSteps(n, f)
  <2>1. /\ todo' \in Seq(Step) /\ Len(todo') = 3 /\ todo'[1].do = "sql"
        /\ todo'[2] = ToMqtt("NetworksUpdated") /\ todo'[3] = NetworkAck(n, f)
        /\ todo' = InsertSteps(n, f) => todo'[1].stmt = InsertNetwork(n, f)
        /\ todo' = UpdateSteps(n, f) => todo'[1].stmt = UpsertNetwork(n, f)
        /\ ~Has(todo'[1].otherwise, "run")
    BY <1>4, <1>10, ChangeStepsAre
  <2>2. DOMAIN todo' = 1 .. 3 /\ todo' # << >>
    BY <2>1, EmptyLength
  <2>3. /\ InsertNetwork(n, f).sql = "insert network" /\ InsertNetwork(n, f).net = n /\ InsertNetwork(n, f).flag = f
        /\ UpsertNetwork(n, f).sql = "upsert network" /\ UpsertNetwork(n, f).net = n /\ UpsertNetwork(n, f).flag = f
    BY DEF InsertNetwork, UpsertNetwork
  <2>4. Changes(todo'[1]) /\ ~Changes(todo'[2]) /\ ~Changes(todo'[3])
    BY <1>7, <1>8, <1>10, <2>1, <2>3 DEF Changes
  <2>5. acked' = [acked EXCEPT ![n] = "nothing"]
    BY <1>4, <1>5, <1>6, <1>10
  <2>6. /\ Result(todo'[1].stmt) = f /\ todo'[1].stmt.net = n
        /\ todo'[1].stmt.sql = "insert network" => networks[n] = "absent"
    BY <1>10, <2>1, <2>3 DEF Result
  <2>7. \A i \in DOMAIN todo' :
       /\ Changes(todo'[i]) => i = 1
       /\ todo'[i].do = "ack" => todo'[i].net = n /\ todo'[i].what = f
       /\ todo'[i].do # "run"
       /\ todo'[i].do = "sql" => ~Has(todo'[i].otherwise, "run")
    BY <1>7, <1>8, <2>1, <2>2, <2>4
  <2>8. 2 \in DOMAIN todo'
    BY <2>2
  <2>9. NetworkSet(n, f)
    BY <1>10, <2>1, <2>2, <2>4, <2>5, <2>6, <2>7, <2>8 DEF NetworkSet
  <2> QED BY <1>4, <2>9 DEF Activity
<1>11. CASE UNCHANGED << networks, todo >>
  BY <1>5, <1>11
<1>12. "absent" # f
  BY <1>4
<1> QED BY <1>2, <1>3, <1>5, <1>9, <1>10, <1>11, <1>12 DEF Network

\* A command about a hub does not touch the table network, and answers only the hub.
LEMMA HubSteps ==
  ASSUME TypeOK, TakeLinkage \/ TakeSettings
  PROVE  /\ \A i \in DOMAIN todo' : ~Changes(todo'[i]) /\ todo'[i].do # "ack"
         /\ UNCHANGED << networks, db, acked >>
         /\ todo' # << >> => 1 \in DOMAIN todo'
<1>1. PICK h, n : h = Head(inbox).hub /\ n = Head(inbox).net
  OBVIOUS
<1>2. n \in Networks /\ (TakeLinkage => h \in Hubs)
  BY <1>1, CommandInHand DEF TakeLinkage, TakeSettings
<1>3. \A x : InsertHub(x, n).sql = "insert hub"
  BY DEF InsertHub
<1>4. Run.do = "run" /\ LinkageAck.do = "linkage ack" /\ Config.do = "config"
  BY DEF Run, LinkageAck, Config
<1> DEFINE Quiet == \A i \in DOMAIN todo' : ~Changes(todo'[i]) /\ todo'[i].do # "ack"
<1>5. \/ todo' = << LinkageAck >> \/ (h \in Hubs /\ todo' = LinkageSteps(h, n))
      \/ todo' = Regardless(InsertHub(Nameless, n), << Config >>)
  BY <1>1, <1>2 DEF TakeLinkage, TakeSettings
<1>6. ASSUME todo' = << LinkageAck >> PROVE Quiet
  <2>1. \A i \in DOMAIN todo' : todo'[i] = LinkageAck
    BY <1>6
  <2> QED BY <1>4, <2>1 DEF Changes
<1>7. ASSUME h \in Hubs, todo' = LinkageSteps(h, n) PROVE Quiet
  <2>1. /\ todo'[1].do = "sql" /\ todo'[1].stmt = InsertHub(h, n)
        /\ \A i \in DOMAIN todo' : i = 1 \/ todo'[i] \in {Run, LinkageAck}
    BY <1>2, <1>7, LinkageStepsAre
  <2>2. ~Changes(todo'[1])
    BY <1>3, <2>1 DEF Changes
  <2>3. ~Changes(Run) /\ ~Changes(LinkageAck)
    BY <1>4 DEF Changes
  <2>4. ASSUME NEW i \in DOMAIN todo', todo'[i] \in {Run, LinkageAck}
        PROVE  ~Changes(todo'[i]) /\ todo'[i].do # "ack"
    BY <1>4, <2>3, <2>4
  <2> QED BY <2>1, <2>2, <2>4
<1>8. ASSUME todo' = Regardless(InsertHub(Nameless, n), << Config >>) PROVE Quiet
  <2>1. /\ todo' \in Seq(Step) /\ Len(todo') = 2
        /\ todo'[1].do = "sql" /\ todo'[1].stmt = InsertHub(Nameless, n) /\ todo'[2] = Config
    BY <1>2, <1>8, SettingsStepsAre DEF Row
  <2>2. DOMAIN todo' = 1 .. 2
    BY <2>1
  <2>3. ~Changes(todo'[1]) /\ ~Changes(todo'[2])
    BY <1>3, <1>4, <2>1 DEF Changes
  <2>4. \A i \in DOMAIN todo' : i = 1 \/ i = 2
    BY <2>2
  <2>5. todo'[1].do # "ack" /\ todo'[2].do # "ack"
    BY <1>4, <2>1
  <2> QED BY <2>3, <2>4, <2>5
<1>9. UNCHANGED << networks, db, acked >>
  BY DEF TakeLinkage, TakeSettings, memory
<1>10. todo' # << >> => 1 \in DOMAIN todo'
  BY TakeType DEF TypeOK
<1> QED BY <1>5, <1>6, <1>7, <1>8, <1>9, <1>10
-----------------------------------------------------------------------------
(* The acks and the database *)

\* A statement on the table network leaves there what it says; the others leave it alone.
LEMMA EffectIs ==
  ASSUME TypeOK, NEW s \in Step, s.do = "sql", Effect(s.stmt),
         Changes(s) /\ s.stmt.sql = "insert network" => dbNet[s.stmt.net] = "absent"
  PROVE  /\ Changes(s) => dbNet' = [dbNet EXCEPT ![s.stmt.net] = Result(s.stmt)]
         /\ ~Changes(s) => dbNet' = dbNet
<1>1. s.stmt \in Statement
  BY StepParts
<1>2. s.stmt.sql \in {"insert network", "upsert network", "delete network", "delete hubs", "insert hub"}
  BY <1>1 DEF Statement
<1> QED BY <1>2 DEF Effect, Changes, Result

\* A step that is not a statement is done.
LEMMA DurableTail ==
  ASSUME TypeOK, Loading, Durable, todo # << >>, todo' = Tail(todo),
         todo[1].do \notin {"sql", "load"}, UNCHANGED << networks, dbNet >>,
         UNCHANGED acked \/ (/\ todo[1].do = "ack"
                             /\ acked' = [acked EXCEPT ![todo[1].net] = todo[1].what])
  PROVE  Durable'
<1>1. /\ Head(todo) = todo[1] /\ 1 \in DOMAIN todo /\ todo[1] \in Step
      /\ \A i \in DOMAIN todo' : i + 1 \in DOMAIN todo /\ i + 1 # 1 /\ todo'[i] = todo[i + 1]
      /\ todo' # << >> => 1 \in DOMAIN todo'
  BY TodoTail
<1>2. networks = dbNet
  BY <1>1 DEF Durable, Changes
<1>3. \A i \in DOMAIN todo' : ~Changes(todo'[i]) /\ (todo'[i].do = "ack" => networks[todo'[i].net] = todo'[i].what)
  BY <1>1 DEF Durable
<1>4. ASSUME NEW n \in Networks, acked'[n] # "nothing"
      PROVE  dbNet'[n] = acked'[n]
  <2>1. acked \in [Networks -> Activity \cup {"nothing"}]
    BY DEF TypeOK
  <2>2. acked[n] # "nothing" => dbNet[n] = acked[n]
    BY DEF Durable
  <2>3. todo[1].do = "ack" => networks[todo[1].net] = todo[1].what
    BY <1>1 DEF Durable
  <2> QED BY <1>2, <1>4, <2>1, <2>2, <2>3
<1> QED BY <1>1, <1>2, <1>3, <1>4 DEF Durable

\* What the server was told, the memory and the database stay as Durable says.
LEMMA DurableInduction ==
  ASSUME TypeOK, Loading, DurableInv, [Next]_vars
  PROVE  DurableInv'
<1> SUFFICES ASSUME spent'.faults = 0 PROVE Durable'
  BY DEF DurableInv
<1>1. /\ networks \in [Networks -> Activity] /\ dbNet \in [Networks -> Activity]
      /\ acked \in [Networks -> Activity \cup {"nothing"}] /\ spent.faults \in Nat
  BY DEF TypeOK, MqttTypeOK
<1>2. ~ExecuteFails /\ ~LoadFails
  BY <1>1 DEF ExecuteFails, LoadFails, Fault, TypeOK
<1>3. spent'.faults = spent.faults
  BY <1>2 DEF TypeOK, Next, Service, Environment, TakeNetwork, TakeLinkage, TakeSettings, Execute, TellMqtt,
              Answer, SendRun, LoadMemory, ForwardRun, ServerNetwork, ServerSettings, HubLinkage, Deliver,
              Crash, CreateRuntime, DeliverLink, vars, topologyVars
<1>4. Durable
  BY <1>3 DEF DurableInv
<1>5. CASE TakeNetwork
  <2>1. todo = << >> /\ networks = dbNet /\ UNCHANGED dbNet
    BY <1>4, <1>5 DEF TakeNetwork, Durable, db
  <2>2. CASE todo' = << >> /\ UNCHANGED << networks, acked >>
    BY <1>4, <2>1, <2>2 DEF Durable
  <2>3. ASSUME NEW n \in Networks, NEW w \in Activity, NetworkSet(n, w)
        PROVE  Durable'
    <3>1. \A m \in Networks : acked'[m] # "nothing" => dbNet'[m] = acked'[m]
      BY <1>1, <1>4, <2>1, <2>3 DEF NetworkSet, Durable
    <3>2. networks' = [dbNet' EXCEPT ![n] = w] /\ networks'[n] = w /\ acked'[n] = "nothing"
      BY <1>1, <2>1, <2>3 DEF NetworkSet
    <3>3. \A i \in DOMAIN todo' : todo'[i].do = "ack" => networks'[todo'[i].net] = todo'[i].what
      BY <3>2, <2>3 DEF NetworkSet
    <3>4. todo' # << >> /\ Changes(todo'[1]) /\ todo'[1].stmt.net = n /\ Result(todo'[1].stmt) = w
      BY <2>3 DEF NetworkSet
    <3>5. todo'[1].stmt.sql = "insert network" => dbNet'[n] = "absent"
      BY <2>1, <2>3 DEF NetworkSet
    <3>6. \A i \in DOMAIN todo' : Changes(todo'[i]) => i = 1
      BY <2>3 DEF NetworkSet
    <3> QED BY <3>1, <3>2, <3>3, <3>4, <3>5, <3>6 DEF Durable
  <2> QED BY <1>5, <2>2, <2>3, NetworkSteps
<1>6. CASE TakeLinkage \/ TakeSettings
  <2>1. networks = dbNet
    BY <1>4, <1>6 DEF TakeLinkage, TakeSettings, Durable
  <2>2. /\ \A i \in DOMAIN todo' : ~Changes(todo'[i]) /\ todo'[i].do # "ack"
        /\ UNCHANGED << networks, dbNet, acked >>
        /\ todo' # << >> => 1 \in DOMAIN todo'
    BY <1>6, HubSteps DEF db
  <2> QED BY <1>4, <2>1, <2>2 DEF Durable
<1>7. CASE Execute
  <2>1. todo # << >> /\ todo' = Tail(todo) /\ UNCHANGED << networks, acked >>
    BY <1>7 DEF Execute, memory
  <2>2. /\ Head(todo) = todo[1] /\ 1 \in DOMAIN todo /\ todo[1] \in Step
        /\ \A i \in DOMAIN todo' : i + 1 \in DOMAIN todo /\ i + 1 # 1 /\ todo'[i] = todo[i + 1]
        /\ todo' # << >> => 1 \in DOMAIN todo'
    BY <2>1, TodoTail
  <2>3. PICK s \in Step : s = todo[1]
    BY <2>2
  <2>4. s.do = "sql" /\ Effect(s.stmt)
    BY <1>7, <2>2, <2>3 DEF Execute
  <2>5. /\ Changes(s) => dbNet' = [dbNet EXCEPT ![s.stmt.net] = Result(s.stmt)]
        /\ ~Changes(s) => dbNet' = dbNet
    BY <1>4, <2>1, <2>3, <2>4, EffectIs DEF Durable
  <2>6. networks' = dbNet'
    BY <1>4, <2>1, <2>3, <2>4, <2>5 DEF Durable
  <2>7. \A n \in Networks : acked[n] # "nothing" => dbNet'[n] = acked[n]
    BY <1>1, <1>4, <2>1, <2>3, <2>5 DEF Durable
  <2>8. \A i \in DOMAIN todo' : ~Changes(todo'[i]) /\ (todo'[i].do = "ack" => networks[todo'[i].net] = todo'[i].what)
    BY <1>4, <2>2, ZenonT(60) DEF Durable
  <2> QED BY <2>1, <2>2, <2>6, <2>7, <2>8 DEF Durable
<1>8. CASE TellMqtt \/ Answer \/ SendRun
  <2>1. /\ todo # << >> /\ todo' = Tail(todo) /\ UNCHANGED << networks, dbNet >>
        /\ Head(todo).do \notin {"sql", "load"}
        /\ UNCHANGED acked \/ (/\ Head(todo).do = "ack"
                               /\ acked' = [acked EXCEPT ![Head(todo).net] = Head(todo).what])
    BY <1>8 DEF TellMqtt, Answer, SendRun, mqttVars, memory, db
  <2>2. Head(todo) = todo[1]
    BY <2>1, TodoTail
  <2> QED BY <1>4, <2>1, <2>2, DurableTail
<1>9. CASE LoadMemory
  <2>1. todo # << >> /\ todo[1].do = "load" /\ UNCHANGED << dbNet, acked >>
    BY <1>9, StepInHand DEF LoadMemory, db
  <2>2. networks' = dbNet'
    <3>1. CASE \A n \in Networks : dbNet[n] = "absent"
      BY <1>1, <1>9, <2>1, <3>1 DEF LoadMemory, memory, Loading
    <3>2. CASE \E n \in Networks : dbNet[n] # "absent"
      BY <1>1, <1>9, <2>1, <3>2 DEF LoadMemory, Remembered
    <3> QED BY <3>1, <3>2
  <2>3. ToMqtt("NetworksReady").do = "mqtt" /\ Run.do = "run"
    BY DEF ToMqtt, Run
  <2>4. \A i \in DOMAIN todo' : todo'[i].do \in {"mqtt", "run"}
    BY <1>9, <2>3 DEF LoadMemory
  <2>5. \A n \in Networks : acked'[n] # "nothing" => dbNet'[n] = acked'[n]
    BY <1>4, <2>1 DEF Durable
  <2>6. todo' # << >> => 1 \in DOMAIN todo'
    BY <1>9 DEF LoadMemory
  <2> QED BY <2>2, <2>4, <2>5, <2>6 DEF Durable, Changes
<1>10. CASE Crash
  <2>1. todo' = << Load >> /\ UNCHANGED << dbNet, acked >>
    BY <1>10 DEF Crash, db
  <2>2. \A i \in DOMAIN todo' : todo'[i] = Load
    BY <2>1
  <2>3. todo'[1] = Load /\ Load.do = "load" /\ todo' # << >>
    BY <2>1 DEF Load
  <2>4. \A n \in Networks : acked'[n] # "nothing" => dbNet'[n] = acked'[n]
    BY <1>4, <2>1 DEF Durable
  <2> QED BY <2>2, <2>3, <2>4 DEF Durable, Changes
<1>11. CASE UNCHANGED << todo, networks, dbNet, acked >>
  BY <1>4, <1>11 DEF Durable, Changes
<1>12. CASE \/ ForwardRun \/ CreateRuntime \/ DeliverLink \/ ServerNetwork \/ ServerSettings \/ HubLinkage
            \/ UNCHANGED vars
  BY <1>11, <1>12 DEF ForwardRun, CreateRuntime, DeliverLink, ServerNetwork, ServerSettings, HubLinkage,
                      Deliver, vars, mqttVars, memory, db
<1>13. CASE (Mqtt \/ Broker) /\ UNCHANGED topologyVars
  BY <1>11, <1>13 DEF topologyVars, db, Mqtt, Broker, Wait, Initialize, TakeNetCommand, Connect, SendRequest,
                      PollError, Recover, BrokerDown, BrokerUp, InitializeFails
<1> QED BY <1>2, <1>5, <1>6, <1>7, <1>8, <1>9, <1>10, <1>12, <1>13 DEF Next, Service, Environment
-----------------------------------------------------------------------------
(* The deletions *)

\* A list that says of no network that it was deleted, whatever fails.
LEMMA CarefulWhen ==
  ASSUME NEW q, NEW n,
         \A i \in DOMAIN q : ~SaysAbsent(q[i], n),
         \A i \in DOMAIN q : q[i].do = "sql" =>
           \A j \in DOMAIN q[i].otherwise : q[i].otherwise[j].do # "sql" /\ ~SaysAbsent(q[i].otherwise[j], n)
  PROVE  Careful(q, n) /\ ~Promises(q, n)
BY DEF Careful, Promises, Revives

\* The lists of the commands about networks.
LEMMA NetworkIsCareful ==
  ASSUME NEW m \in Networks, NEW n \in Networks, NEW f \in {"active", "paused"}, NEW q,
         q = InsertSteps(m, f) \/ q = UpdateSteps(m, f)
  PROVE  Careful(q, n) /\ ~Promises(q, n) /\ \A i \in DOMAIN q : Revives(q[i], n) => n = m
<1>1. /\ q \in Seq(Step) /\ Len(q) = 3 /\ q[1].do = "sql"
      /\ q[1].stmt = InsertNetwork(m, f) \/ q[1].stmt = UpsertNetwork(m, f)
      /\ q[2] = ToMqtt("NetworksUpdated") /\ q[3] = NetworkAck(m, f)
      /\ \A j \in DOMAIN q[1].otherwise :
           q[1].otherwise[j] \in {ToMqtt("NetworksUpdated"), NetworkAck(m, f)}
  BY ChangeStepsAre
<1>2. \A i \in DOMAIN q : i = 1 \/ i = 2 \/ i = 3
  BY <1>1
<1>3. /\ ToMqtt("NetworksUpdated").do = "mqtt" /\ NetworkAck(m, f).do = "ack" /\ NetworkAck(m, f).what = f
      /\ InsertNetwork(m, f).net = m /\ UpsertNetwork(m, f).net = m
  BY DEF ToMqtt, NetworkAck, InsertNetwork, UpsertNetwork
<1>4. ~SaysAbsent(ToMqtt("NetworksUpdated"), n) /\ ~SaysAbsent(NetworkAck(m, f), n)
  BY <1>3 DEF SaysAbsent
<1>5. \A i \in DOMAIN q : ~SaysAbsent(q[i], n)
  BY <1>1, <1>2, <1>4 DEF SaysAbsent
<1>6. \A i \in DOMAIN q : q[i].do = "sql" =>
        \A j \in DOMAIN q[i].otherwise : q[i].otherwise[j].do # "sql" /\ ~SaysAbsent(q[i].otherwise[j], n)
  BY <1>1, <1>2, <1>3, <1>4
<1>7. \A i \in DOMAIN q : Revives(q[i], n) => n = m
  BY <1>1, <1>2, <1>3 DEF Revives
<1> QED BY <1>5, <1>6, <1>7, CarefulWhen

\* The list of a deletion: the hubs are gone before the ack says so, and where a failure
\* leads to no other ack than that, no statement follows.
LEMMA DeletionIsCareful ==
  ASSUME NEW m \in Networks, NEW n \in Networks, NEW q, q = DeleteSteps(m)
  PROVE  /\ Careful(q, n)
         /\ \A i \in DOMAIN q : ~Revives(q[i], n)
         /\ Promises(q, n) => n = m /\ Deletes(q[1], n, "delete network")
         /\ \A j \in DOMAIN q : SaysAbsent(q[j], n) =>
              \E i \in DOMAIN q : i < j /\ Deletes(q[i], n, "delete hubs")
<1>1. /\ q \in Seq(Step) /\ Len(q) = 5
      /\ q[1].do = "sql" /\ q[1].stmt = DeleteNetwork(m)
      /\ q[2].do = "sql" /\ q[2].stmt = DeleteHubs(m) /\ q[3].do = "sql" /\ q[3].stmt = DeleteHubs(m)
      /\ q[4] = ToMqtt("NetworksUpdated") /\ q[5] = NetworkAck(m, "absent")
      /\ Failed(q[1].otherwise, m) /\ Failed(q[2].otherwise, m)
      /\ q[3].otherwise = << ToMqtt("NetworksUpdated"), NetworkAck(m, "absent") >>
  BY DeleteStepsAre
<1>2. DOMAIN q = 1 .. 5 /\ \A i \in DOMAIN q : i = 1 \/ i = 2 \/ i = 3 \/ i = 4 \/ i = 5
  BY <1>1
<1>3. /\ ToMqtt("NetworksUpdated").do = "mqtt"
      /\ \A w : NetworkAck(m, w).do = "ack" /\ NetworkAck(m, w).net = m /\ NetworkAck(m, w).what = w
      /\ DeleteNetwork(m).net = m /\ DeleteNetwork(m).sql = "delete network"
      /\ DeleteHubs(m).net = m /\ DeleteHubs(m).sql = "delete hubs"
  BY DEF ToMqtt, NetworkAck, DeleteNetwork, DeleteHubs
<1>4. \A i \in DOMAIN q : ~Revives(q[i], n)
  <2>1. \A i \in DOMAIN q : q[i].do = "sql" => q[i].stmt = DeleteNetwork(m) \/ q[i].stmt = DeleteHubs(m)
    <3>1. q[4].do # "sql" /\ q[5].do # "sql"
      BY <1>1, <1>3
    <3> QED BY <1>1, <1>2, <3>1, ZenonT(60)
  <2>2. \A i \in DOMAIN q : q[i].do = "sql" => q[i].stmt.sql \in {"delete network", "delete hubs"}
    BY <1>3, <2>1
  <2> QED BY <2>2 DEF Revives
<1>5. ASSUME NEW o, Failed(o, m)
      PROVE  /\ ~Promises(o, n)
             /\ \A j \in DOMAIN o : /\ ~Revives(o[j], n)
                                    /\ o[j].do = "sql" => ~Promises(o[j].otherwise, n)
  <2>1. \A j \in DOMAIN o : ~SaysAbsent(o[j], n) /\ ~Revives(o[j], n)
    BY <1>3, <1>5 DEF Failed, SaysAbsent, Revives
  <2>2. ~Promises(<< NetworkAck(m, "nothing") >>, n)
    <3>1. \A i \in DOMAIN << NetworkAck(m, "nothing") >> :
            << NetworkAck(m, "nothing") >>[i] = NetworkAck(m, "nothing")
      OBVIOUS
    <3> QED BY <1>3, <3>1 DEF Promises, SaysAbsent
  <2>3. \A j \in DOMAIN o : o[j].do = "sql" => ~Promises(o[j].otherwise, n)
    BY <1>3, <1>5, <2>2 DEF Failed
  <2> QED BY <2>1, <2>3 DEF Promises
<1>6. \A j \in DOMAIN q[3].otherwise : q[3].otherwise[j].do # "sql"
  <2>1. \A j \in DOMAIN q[3].otherwise :
          q[3].otherwise[j] \in {ToMqtt("NetworksUpdated"), NetworkAck(m, "absent")}
    BY <1>1
  <2> QED BY <1>3, <2>1
<1>7. Promises(q[3].otherwise, n) => n = m
  <2>1. \A j \in DOMAIN q[3].otherwise :
          q[3].otherwise[j] \in {ToMqtt("NetworksUpdated"), NetworkAck(m, "absent")}
    BY <1>1
  <2>2. ~SaysAbsent(ToMqtt("NetworksUpdated"), n) /\ (SaysAbsent(NetworkAck(m, "absent"), n) => n = m)
    BY <1>3 DEF SaysAbsent
  <2> QED BY <2>1, <2>2, Zenon DEF Promises
<1>8. SaysAbsent(q[5], m) /\ \A j \in DOMAIN q : SaysAbsent(q[j], n) => j = 5 /\ n = m
  <2>1. SaysAbsent(q[5], m) /\ (SaysAbsent(q[5], n) => n = m)
    <3>1. q[5].do = "ack" /\ q[5].net = m /\ q[5].what = "absent"
      <4>1. q[5] = NetworkAck(m, "absent")
        BY <1>1
      <4> QED BY <4>1, <1>3
    <3> QED BY <3>1 DEF SaysAbsent
  <2>2. ~SaysAbsent(q[1], n) /\ ~SaysAbsent(q[2], n) /\ ~SaysAbsent(q[3], n)
    BY <1>1 DEF SaysAbsent
  <2>3. ~SaysAbsent(q[4], n)
    BY <1>1, <1>3 DEF SaysAbsent
  <2> QED BY <1>2, <2>1, <2>2, <2>3, Zenon
<1>9. Promises(q, n) <=> n = m
  BY <1>2, <1>8 DEF Promises
<1>10. Careful(q, n)
  <2>1. \A i \in DOMAIN q : q[i].do = "sql" => i = 1 \/ i = 2 \/ i = 3
    <3>1. q[4].do # "sql" /\ q[5].do # "sql"
      BY <1>1, <1>3
    <3> QED BY <1>2, <3>1, Zenon
  <2>2. ASSUME NEW i \in DOMAIN q, q[i].do = "sql"
        PROVE  /\ \A j \in DOMAIN q[i].otherwise :
                    /\ ~Revives(q[i].otherwise[j], n)
                    /\ q[i].otherwise[j].do = "sql" => ~Promises(q[i].otherwise[j].otherwise, n)
               /\ Promises(q[i].otherwise, n) => i = 3
    <3>1. CASE i = 1 \/ i = 2
      BY <1>1, <1>5, <3>1
    <3>2. CASE i = 3
      BY <1>6, <3>2 DEF Revives
    <3> QED BY <2>1, <2>2, <3>1, <3>2
  <2>3. \A k \in DOMAIN q : k > 3 => q[k].do # "sql"
    <3>1. q[4].do # "sql" /\ q[5].do # "sql"
      BY <1>1, <1>3
    <3> QED BY <1>2, <3>1
  <2>4. ASSUME NEW i \in DOMAIN q, q[i].do = "sql", Promises(q[i].otherwise, n)
        PROVE  /\ \E k \in DOMAIN q : k > i /\ SaysAbsent(q[k], n)
               /\ \A k \in DOMAIN q : k > i => q[k].do # "sql"
    <3>1. i = 3 /\ n = m /\ 5 \in DOMAIN q
      BY <1>2, <1>7, <2>2, <2>4
    <3> QED BY <1>8, <2>3, <3>1
  <2> QED BY <1>4, <2>2, <2>4 DEF Careful
<1>11. Promises(q, n) => n = m /\ Deletes(q[1], n, "delete network")
  BY <1>1, <1>3, <1>5, <1>9 DEF Deletes
<1>12. \A j \in DOMAIN q : SaysAbsent(q[j], n) => \E i \in DOMAIN q : i < j /\ Deletes(q[i], n, "delete hubs")
  <2>1. Deletes(q[2], m, "delete hubs") \/ n # m
    BY <1>1, <1>3, <1>5 DEF Deletes
  <2>2. 2 \in DOMAIN q /\ 2 < 5
    BY <1>2
  <2> QED BY <1>8, <2>1, <2>2, Zenon
<1> QED BY <1>4, <1>10, <1>11, <1>12

\* The lists of the commands about hubs.
LEMMA HubIsCareful ==
  ASSUME TypeOK, TakeLinkage \/ TakeSettings, NEW n \in Networks
  PROVE  /\ Careful(todo, n)' /\ ~Promises(todo, n)'
         /\ \A i \in DOMAIN todo' : Revives(todo'[i], n) => networks[n] # "absent"
<1>1. PICK h, m, q : h = Head(inbox).hub /\ m = Head(inbox).net /\ q = todo'
  OBVIOUS
<1>2. m \in Networks /\ (TakeLinkage => h \in Hubs)
  BY <1>1, CommandInHand DEF TakeLinkage, TakeSettings
<1>3. /\ Run.do = "run" /\ LinkageAck.do = "linkage ack" /\ Config.do = "config"
      /\ \A x : InsertHub(x, m).sql = "insert hub" /\ InsertHub(x, m).net = m /\ InsertHub(x, m).hub = x
  BY DEF Run, LinkageAck, Config, InsertHub
<1>4. \/ q = << LinkageAck >>
      \/ h \in Hubs /\ networks[m] # "absent" /\ q = LinkageSteps(h, m)
      \/ q = Regardless(InsertHub(Nameless, m), << Config >>)
  BY <1>1, <1>2 DEF TakeLinkage, TakeSettings, SearchHub
<1> DEFINE Plain == {Run, LinkageAck, Config}
<1>5. CASE q = << LinkageAck >>
  <2>1. \A i \in DOMAIN q : q[i] = LinkageAck
    BY <1>5
  <2>2. \A i \in DOMAIN q : q[i].do = "linkage ack"
    BY <1>3, <2>1
  <2>3. Careful(q, n) /\ ~Promises(q, n)
    BY <2>2, CarefulWhen DEF SaysAbsent
  <2> QED BY <1>1, <2>2, <2>3 DEF Revives
<1>6. ASSUME NEW x \in Row, q \in Seq(Step), q[1].do = "sql", q[1].stmt = InsertHub(x, m),
             \A i \in DOMAIN q : i = 1 \/ q[i] \in Plain,
             \A j \in DOMAIN q[1].otherwise : q[1].otherwise[j] \in Plain,
             x \in Hubs => networks[m] # "absent"
      PROVE  /\ Careful(q, n) /\ ~Promises(q, n)
             /\ \A i \in DOMAIN q : Revives(q[i], n) => networks[n] # "absent"
  <2>1. \A s \in Plain : s.do \in {"run", "linkage ack", "config"}
    BY <1>3
  <2>2. \A i \in DOMAIN q : ~SaysAbsent(q[i], n)
    BY <1>6, <2>1 DEF SaysAbsent
  <2>3. \A i \in DOMAIN q : q[i].do = "sql" => i = 1
    BY <1>6, <2>1
  <2>4. \A j \in DOMAIN q[1].otherwise : q[1].otherwise[j].do # "sql" /\ ~SaysAbsent(q[1].otherwise[j], n)
    BY <1>6, <2>1 DEF SaysAbsent
  <2>5. Careful(q, n) /\ ~Promises(q, n)
    BY <2>2, <2>3, <2>4, CarefulWhen
  <2>6. \A i \in DOMAIN q : Revives(q[i], n) => networks[n] # "absent"
    <3>1. \A i \in DOMAIN q : Revives(q[i], n) => i = 1
      BY <2>3 DEF Revives
    <3>2. Revives(q[1], n) => n = m /\ x \in Hubs
      <4>1. q[1].stmt.sql = "insert hub" /\ q[1].stmt.net = m /\ q[1].stmt.hub = x
        BY <1>3, <1>6, Zenon
      <4> QED BY <4>1 DEF Revives
    <3> QED BY <1>6, <3>1, <3>2
  <2> QED BY <2>5, <2>6
<1>7. CASE h \in Hubs /\ networks[m] # "absent" /\ q = LinkageSteps(h, m)
  <2>1. /\ q \in Seq(Step) /\ q[1].do = "sql" /\ q[1].stmt = InsertHub(h, m)
        /\ \A i \in DOMAIN q : i = 1 \/ q[i] \in {Run, LinkageAck}
        /\ \A i \in DOMAIN q[1].otherwise : q[1].otherwise[i] \in {Run, LinkageAck}
    BY <1>2, <1>7, LinkageStepsAre
  <2>2. h \in Row
    BY <1>7 DEF Row
  <2> QED BY <1>1, <1>6, <1>7, <2>1, <2>2
<1>8. CASE q = Regardless(InsertHub(Nameless, m), << Config >>)
  <2>1. Nameless \in Row /\ Nameless \notin Hubs
    BY TopologyAssumption DEF Row
  <2>2. /\ q \in Seq(Step) /\ Len(q) = 2
        /\ q[1].do = "sql" /\ q[1].stmt = InsertHub(Nameless, m) /\ q[2] = Config
        /\ q[1].otherwise = << Config >>
    BY <1>2, <1>8, <2>1, SettingsStepsAre
  <2>3. \A i \in DOMAIN q : i = 1 \/ q[i] = Config
    <3>1. DOMAIN q = 1 .. 2
      BY <2>2
    <3> QED BY <2>2, <3>1
  <2>4. \A j \in DOMAIN q[1].otherwise : q[1].otherwise[j] = Config
    BY <2>2
  <2> QED BY <1>1, <1>6, <2>1, <2>2, <2>3, <2>4
<1> QED BY <1>4, <1>5, <1>7, <1>8

\* A statement that does not bring a network back leaves it deleted, and without hubs; one
\* that deletes it, or its hubs, does.
LEMMA EffectOnGone ==
  ASSUME TypeOK, NEW n \in Networks, NEW s \in Step, s.do = "sql", Effect(s.stmt)
  PROVE  /\ ~Revives(s, n) /\ dbNet[n] = "absent" => dbNet'[n] = "absent"
         /\ ~Revives(s, n) /\ Emptied(n) => Emptied(n)'
         /\ Deletes(s, n, "delete network") => dbNet'[n] = "absent"
         /\ Deletes(s, n, "delete hubs") => Emptied(n)'
<1>1. s.stmt \in Statement
  BY StepParts
<1>2. dbNet \in [Networks -> Activity] /\ dbHub \in [Row -> Networks \cup {"none"}] /\ Hubs \subseteq Row
  BY DEF TypeOK, Row
<1>3. s.stmt.sql \in {"insert network", "upsert network", "delete network", "delete hubs", "insert hub"}
  BY <1>1 DEF Statement
<1>4. CASE s.stmt.sql \in {"insert network", "upsert network"}
  BY <1>2, <1>4 DEF Effect, Revives, Deletes, Emptied
<1>5. CASE s.stmt.sql = "delete network"
  BY <1>2, <1>5 DEF Effect, Revives, Deletes, Emptied
<1>6. CASE s.stmt.sql = "delete hubs"
  <2>1. n # "none"
    BY TopologyAssumption
  <2> QED BY <1>2, <1>6, <2>1 DEF Effect, Revives, Deletes, Emptied
<1>7. CASE s.stmt.sql = "insert hub"
  BY <1>2, <1>7 DEF Effect, Revives, Deletes, Emptied
<1> QED BY <1>3, <1>4, <1>5, <1>6, <1>7

\* What is left after the first step is as careful as before.
LEMMA CarefulTail ==
  ASSUME TypeOK, NEW n \in Networks, Careful(todo, n), todo # << >>, todo' = Tail(todo)
  PROVE  /\ Careful(todo, n)' /\ (Promises(todo, n)' => Promises(todo, n))
         /\ \A i \in DOMAIN todo' : i + 1 \in DOMAIN todo /\ i \in Nat /\ todo'[i] = todo[i + 1]
         /\ \A i \in DOMAIN todo : i = 1 \/ (i - 1 \in DOMAIN todo' /\ i \in Nat /\ todo[i] = todo'[i - 1])
<1>1. /\ \A i \in DOMAIN todo' : i + 1 \in DOMAIN todo /\ todo'[i] = todo[i + 1]
      /\ \A i \in DOMAIN todo : i = 1 \/ (i - 1 \in DOMAIN todo' /\ todo[i] = todo'[i - 1])
  BY TodoTail
<1>2. (\A i \in DOMAIN todo' : i \in Nat \ {0}) /\ (\A i \in DOMAIN todo : i \in Nat \ {0})
  <2>1. todo \in Seq(Step) /\ Tail(todo) \in Seq(Step)
    BY StepInHand DEF TypeOK
  <2> QED BY <2>1
<1>3. Promises(todo, n)' => Promises(todo, n)
  BY <1>1 DEF Promises
<1>4. ASSUME NEW i \in DOMAIN todo', todo'[i].do = "sql"
      PROVE  /\ \A j \in DOMAIN todo'[i].otherwise :
                  /\ ~Revives(todo'[i].otherwise[j], n)
                  /\ todo'[i].otherwise[j].do = "sql" => ~Promises(todo'[i].otherwise[j].otherwise, n)
             /\ Promises(todo'[i].otherwise, n) =>
                  /\ \E k \in DOMAIN todo' : k > i /\ SaysAbsent(todo'[k], n)
                  /\ \A k \in DOMAIN todo' : k > i => todo'[k].do # "sql"
  <2>1. i + 1 \in DOMAIN todo /\ todo'[i] = todo[i + 1] /\ i \in Nat \ {0}
    BY <1>1, <1>2
  <2>2. /\ \A j \in DOMAIN todo[i + 1].otherwise :
             /\ ~Revives(todo[i + 1].otherwise[j], n)
             /\ todo[i + 1].otherwise[j].do = "sql" => ~Promises(todo[i + 1].otherwise[j].otherwise, n)
        /\ Promises(todo[i + 1].otherwise, n) =>
             /\ \E k \in DOMAIN todo : k > i + 1 /\ SaysAbsent(todo[k], n)
             /\ \A k \in DOMAIN todo : k > i + 1 => todo[k].do # "sql"
    BY <1>4, <2>1 DEF Careful
  <2>3. ASSUME Promises(todo'[i].otherwise, n)
        PROVE  \E k \in DOMAIN todo' : k > i /\ SaysAbsent(todo'[k], n)
    <3>1. PICK k \in DOMAIN todo : k > i + 1 /\ SaysAbsent(todo[k], n)
      BY <2>1, <2>2, <2>3
    <3>2. k - 1 \in DOMAIN todo' /\ todo[k] = todo'[k - 1] /\ k - 1 > i
      BY <1>1, <1>2, <2>1, <3>1
    <3> QED BY <3>1, <3>2
  <2>4. ASSUME Promises(todo'[i].otherwise, n), NEW k \in DOMAIN todo', k > i
        PROVE  todo'[k].do # "sql"
    <3>1. k + 1 \in DOMAIN todo /\ todo'[k] = todo[k + 1] /\ k + 1 > i + 1
      BY <1>1, <1>2, <2>1, <2>4
    <3> QED BY <2>1, <2>2, <2>4, <3>1
  <2> QED BY <2>1, <2>2, <2>3, <2>4
<1>5. Promises(todo, n)' => \A i \in DOMAIN todo' : ~Revives(todo'[i], n)
  BY <1>1, <1>3 DEF Careful
<1> QED BY <1>1, <1>2, <1>3, <1>4, <1>5 DEF Careful

\* Of two places, each moved to the front by one, the earlier stays the earlier.
LEMMA EarlierBy1 == \A i, j \in Nat : i < j + 1 => i - 1 < j
OBVIOUS

\* The statement in hand works.
LEMMA GoneExecute ==
  ASSUME TypeOK, NEW n \in Networks, Gone(n), Execute
  PROVE  Gone(n)'
<1>1. PICK s \in Step : s = todo[1] /\ s.do = "sql" /\ Effect(s.stmt)
  BY StepInHand DEF Execute
<1>2. todo # << >> /\ todo' = Tail(todo) /\ UNCHANGED << networks, acked >> /\ 1 \in DOMAIN todo
  BY TodoTail DEF Execute, memory
<1>3. /\ Careful(todo, n)' /\ (Promises(todo, n)' => Promises(todo, n))
      /\ \A i \in DOMAIN todo' : i + 1 \in DOMAIN todo /\ i \in Nat /\ todo'[i] = todo[i + 1]
      /\ \A i \in DOMAIN todo : i = 1 \/ (i - 1 \in DOMAIN todo' /\ i \in Nat /\ todo[i] = todo'[i - 1])
  BY <1>2, CarefulTail DEF Gone
<1>4. /\ ~Revives(s, n) /\ dbNet[n] = "absent" => dbNet'[n] = "absent"
      /\ ~Revives(s, n) /\ Emptied(n) => Emptied(n)'
      /\ Deletes(s, n, "delete network") => dbNet'[n] = "absent"
      /\ Deletes(s, n, "delete hubs") => Emptied(n)'
  BY <1>1, EffectOnGone
<1>5. acked'[n] = "absent" =>
        dbNet'[n] = "absent" /\ Emptied(n)' /\ \A i \in DOMAIN todo' : ~Revives(todo'[i], n)
  BY <1>1, <1>2, <1>3, <1>4 DEF Gone
<1>6. ASSUME Promises(todo, n)' PROVE dbNet'[n] = "absent"
  <2>1. Promises(todo, n) /\ ~Revives(s, n)
    BY <1>1, <1>2, <1>3, <1>6 DEF Gone, Careful
  <2> QED BY <1>1, <1>4, <2>1 DEF Gone
<1>7. ASSUME NEW j \in DOMAIN todo', SaysAbsent(todo'[j], n)
      PROVE  Emptied(n)' \/ \E i \in DOMAIN todo' : i < j /\ Deletes(todo'[i], n, "delete hubs")
  <2>1. j + 1 \in DOMAIN todo /\ SaysAbsent(todo[j + 1], n) /\ j \in Nat
    BY <1>3, <1>7
  <2>2. ~Revives(s, n)
    BY <1>1, <1>2, <2>1 DEF Gone, Careful, Promises
  <2>3. CASE Emptied(n)
    BY <1>4, <2>2, <2>3
  <2>4. ASSUME NEW i \in DOMAIN todo, i < j + 1, Deletes(todo[i], n, "delete hubs")
        PROVE  Emptied(n)' \/ \E k \in DOMAIN todo' : k < j /\ Deletes(todo'[k], n, "delete hubs")
    <3>1. CASE i = 1
      BY <1>1, <1>4, <2>4, <3>1
    <3>2. CASE i # 1
      <4>1. i - 1 \in DOMAIN todo' /\ i \in Nat /\ todo[i] = todo'[i - 1]
        BY <1>3, <3>2
      <4>2. i - 1 < j
        BY <2>1, <2>4, <4>1, EarlierBy1, Zenon
      <4> QED BY <2>4, <4>1, <4>2, Zenon
    <3> QED BY <3>1, <3>2
  <2> QED BY <2>1, <2>3, <2>4 DEF Gone
<1>8. acked'[n] = "absent" \/ Promises(todo, n)' => networks'[n] = "absent"
  BY <1>2, <1>3 DEF Gone
<1> QED BY <1>3, <1>5, <1>6, <1>7, <1>8 DEF Gone

\* It fails.
LEMMA GoneFails ==
  ASSUME TypeOK, NEW n \in Networks, Gone(n), ExecuteFails
  PROVE  Gone(n)'
<1>1. PICK s \in Step : s = todo[1] /\ s.do = "sql" /\ s = Head(todo)
  BY StepInHand DEF ExecuteFails
<1>2. todo' = s.otherwise /\ UNCHANGED << networks, dbNet, dbHub, acked >> /\ 1 \in DOMAIN todo
  BY <1>1, StepInHand DEF ExecuteFails, memory, db, TypeOK
<1>3. /\ todo' \in Seq(RetryStep)
      /\ \A j \in DOMAIN todo' :
           /\ ~Revives(todo'[j], n)
           /\ todo'[j].do = "sql" => ~Promises(todo'[j].otherwise, n)
  BY <1>1, <1>2, StepParts DEF Gone, Careful
<1>4. ASSUME NEW i \in DOMAIN todo', todo'[i].do = "sql", NEW j \in DOMAIN todo'[i].otherwise
      PROVE  ~Revives(todo'[i].otherwise[j], n) /\ todo'[i].otherwise[j].do # "sql"
  <2>1. todo'[i] \in RetryStep
    BY <1>3
  <2>2. todo'[i] \notin PlainStep
    BY <1>4, PlainKinds
  <2>3. todo'[i].otherwise \in Seq(PlainStep)
    BY <2>1, <2>2 DEF RetryStep, SqlStep
  <2>4. todo'[i].otherwise[j].do # "sql"
    <3>1. PICK t \in PlainStep : t = todo'[i].otherwise[j]
      BY <1>4, <2>3
    <3>2. t.do # "sql"
      BY PlainKinds
    <3> QED BY <3>1, <3>2
  <2> QED BY <2>4 DEF Revives
<1>5. Careful(todo, n)'
  BY <1>3, <1>4 DEF Careful
<1>6. ASSUME Promises(todo, n)'
      PROVE  Promises(todo, n) /\ dbNet[n] = "absent" /\ Emptied(n)
  <2>1. Promises(s.otherwise, n)
    BY <1>2, <1>6 DEF Promises
  <2>2. PICK k \in DOMAIN todo : k > 1 /\ SaysAbsent(todo[k], n)
    BY <1>1, <1>2, <2>1 DEF Gone, Careful
  <2>3. \A i \in DOMAIN todo : i > 1 => todo[i].do # "sql"
    BY <1>1, <1>2, <2>1 DEF Gone, Careful
  <2>4. ~Deletes(s, n, "delete network") /\ ~Deletes(s, n, "delete hubs")
    BY <2>1 DEF Deletes
  <2>5. \A i \in DOMAIN todo : i = 1 \/ i > 1
    BY DEF TypeOK
  <2>6. \A i \in DOMAIN todo : ~Deletes(todo[i], n, "delete hubs")
    BY <1>1, <2>3, <2>4, <2>5 DEF Deletes
  <2>7. Promises(todo, n)
    BY <2>2 DEF Promises
  <2> QED BY <1>1, <2>2, <2>4, <2>6, <2>7 DEF Gone
<1>7. Emptied(n)' <=> Emptied(n)
  BY <1>2 DEF Emptied
<1>8. \A j \in DOMAIN todo' : SaysAbsent(todo'[j], n) => Promises(todo, n)'
  BY DEF Promises
<1> QED BY <1>2, <1>3, <1>5, <1>6, <1>7, <1>8 DEF Gone

\* Another step is done.
LEMMA GoneTail ==
  ASSUME TypeOK, NEW n \in Networks, Gone(n), TellMqtt \/ Answer \/ SendRun
  PROVE  Gone(n)'
<1>1. /\ todo # << >> /\ todo' = Tail(todo) /\ UNCHANGED << networks, dbNet, dbHub >>
      /\ Head(todo).do # "sql"
      /\ UNCHANGED acked \/ (/\ Head(todo).do = "ack"
                             /\ acked' = [acked EXCEPT ![Head(todo).net] = Head(todo).what])
  BY DEF TellMqtt, Answer, SendRun, mqttVars, memory, db
<1>2. PICK s \in Step : s = todo[1] /\ s = Head(todo)
  BY <1>1, StepInHand
<1>3. /\ Careful(todo, n)' /\ (Promises(todo, n)' => Promises(todo, n))
      /\ \A i \in DOMAIN todo' : i + 1 \in DOMAIN todo /\ i \in Nat /\ todo'[i] = todo[i + 1]
      /\ \A i \in DOMAIN todo : i = 1 \/ (i - 1 \in DOMAIN todo' /\ i \in Nat /\ todo[i] = todo'[i - 1])
  BY <1>1, CarefulTail DEF Gone
<1>4. 1 \in DOMAIN todo /\ \A i \in DOMAIN todo : ~(i < 1)
  BY <1>1, TodoTail DEF TypeOK
<1>5. acked'[n] = "absent" => acked[n] = "absent" \/ SaysAbsent(s, n)
  BY <1>1, <1>2 DEF SaysAbsent, TypeOK
<1>6. SaysAbsent(s, n) => Promises(todo, n) /\ Emptied(n)
  BY <1>2, <1>4 DEF Promises, Gone
<1>7. ~Deletes(todo[1], n, "delete network") /\ ~Deletes(todo[1], n, "delete hubs")
  BY <1>1, <1>2 DEF Deletes
<1>8. Emptied(n)' <=> Emptied(n)
  BY <1>1 DEF Emptied
<1>9. acked'[n] = "absent" => dbNet'[n] = "absent" /\ Emptied(n)' /\ networks'[n] = "absent"
  BY <1>1, <1>5, <1>6, <1>7, <1>8 DEF Gone
<1>10. acked'[n] = "absent" => \A i \in DOMAIN todo' : ~Revives(todo'[i], n)
  BY <1>3, <1>5, <1>6 DEF Gone, Careful
<1>11. Promises(todo, n)' => dbNet'[n] = "absent" /\ networks'[n] = "absent"
  BY <1>1, <1>3, <1>7 DEF Gone
<1>12. ASSUME NEW j \in DOMAIN todo', SaysAbsent(todo'[j], n)
       PROVE  Emptied(n)' \/ \E i \in DOMAIN todo' : i < j /\ Deletes(todo'[i], n, "delete hubs")
  <2>1. j + 1 \in DOMAIN todo /\ SaysAbsent(todo[j + 1], n) /\ j \in Nat
    BY <1>3, <1>12
  <2>2. ASSUME NEW i \in DOMAIN todo, i < j + 1, Deletes(todo[i], n, "delete hubs")
        PROVE  \E k \in DOMAIN todo' : k < j /\ Deletes(todo'[k], n, "delete hubs")
    <3>1. i - 1 \in DOMAIN todo' /\ i \in Nat /\ todo[i] = todo'[i - 1]
      BY <1>3, <1>7, <2>2
    <3>2. i - 1 < j
      BY <2>1, <2>2, <3>1, EarlierBy1, Zenon
    <3> QED BY <2>2, <3>1, <3>2, Zenon
  <2> QED BY <1>8, <2>1, <2>2 DEF Gone
<1> QED BY <1>3, <1>9, <1>10, <1>11, <1>12 DEF Gone

\* What was acknowledged as deleted stays so.
LEMMA GoneInduction ==
  ASSUME TypeOK, Loading, NEW n \in Networks, Gone(n), [Next]_vars
  PROVE  Gone(n)'
<1>1. networks \in [Networks -> Activity] /\ acked \in [Networks -> Activity \cup {"nothing"}]
  BY DEF TypeOK, MqttTypeOK
<1>2. CASE TakeNetwork
  <2>1. todo = << >> /\ UNCHANGED << dbNet, dbHub >> /\ Network(Head(inbox))
    BY <1>2 DEF TakeNetwork, db
  <2>2. PICK c \in Command : c = Head(inbox) /\ c.net \in Networks /\ c.active \in BOOLEAN
    BY <1>2, CommandInHand DEF TakeNetwork
  <2>3. PICK m \in Networks, f \in {"active", "paused"} : m = c.net /\ f = Flag(c.active)
    BY <2>2 DEF Flag
  <2>4. acked' = IF networks' = networks THEN acked ELSE [acked EXCEPT ![m] = "nothing"]
    BY <1>2, <2>2, <2>3 DEF TakeNetwork
  <2>5. Emptied(n)' <=> Emptied(n)
    BY <2>1 DEF Emptied
  <2>6. CASE UNCHANGED << networks, todo >>
    BY <2>1, <2>4, <2>5, <2>6 DEF Gone, Careful, Promises
  <2>7. CASE /\ networks[m] # "absent" /\ networks' = [networks EXCEPT ![m] = "absent"]
             /\ todo' = DeleteSteps(m)
    <3>1. networks' # networks /\ acked' = [acked EXCEPT ![m] = "nothing"]
      BY <1>1, <2>4, <2>7
    <3>2. PICK q : q = todo' /\ q = DeleteSteps(m)
      BY <2>7
    <3>3. /\ Careful(q, n) /\ \A i \in DOMAIN q : ~Revives(q[i], n)
          /\ Promises(q, n) => n = m /\ Deletes(q[1], n, "delete network")
          /\ \A j \in DOMAIN q : SaysAbsent(q[j], n) =>
               \E i \in DOMAIN q : i < j /\ Deletes(q[i], n, "delete hubs")
      BY <3>2, DeletionIsCareful
    <3>4. acked'[n] = "absent" => acked[n] = "absent" /\ n # m
      BY <1>1, <3>1
    <3>5. acked'[n] = "absent" \/ Promises(q, n) => networks'[n] = "absent"
      BY <1>1, <2>7, <3>3, <3>4 DEF Gone
    <3> QED BY <2>1, <2>5, <3>2, <3>3, <3>4, <3>5 DEF Gone
  <2>8. CASE /\ networks[m] # f /\ networks' = [networks EXCEPT ![m] = f]
             /\ todo' = InsertSteps(m, f) \/ todo' = UpdateSteps(m, f)
    <3>1. networks' # networks /\ acked' = [acked EXCEPT ![m] = "nothing"]
      BY <1>1, <2>4, <2>8
    <3>2. PICK q : q = todo'
      OBVIOUS
    <3>3. Careful(q, n) /\ ~Promises(q, n) /\ \A i \in DOMAIN q : Revives(q[i], n) => n = m
      BY <2>8, <3>2, NetworkIsCareful
    <3>4. acked'[n] = "absent" => acked[n] = "absent" /\ n # m
      BY <1>1, <3>1
    <3>5. acked'[n] = "absent" => networks'[n] = "absent"
      BY <1>1, <2>8, <3>4 DEF Gone
    <3>6. \A j \in DOMAIN q : ~SaysAbsent(q[j], n)
      BY <3>3 DEF Promises
    <3> QED BY <2>1, <2>5, <3>2, <3>3, <3>4, <3>5, <3>6 DEF Gone
  <2>9. "absent" # f
    BY <2>3
  <2> QED BY <2>1, <2>2, <2>3, <2>6, <2>7, <2>8, <2>9 DEF Network
<1>3. CASE TakeLinkage \/ TakeSettings
  <2>1. UNCHANGED << networks, dbNet, dbHub, acked >>
    BY <1>3 DEF TakeLinkage, TakeSettings, memory, db
  <2>2. PICK q : q = todo'
    OBVIOUS
  <2>3. /\ Careful(q, n) /\ ~Promises(q, n)
        /\ \A i \in DOMAIN q : Revives(q[i], n) => networks[n] # "absent"
    BY <1>3, <2>2, HubIsCareful
  <2>4. Emptied(n)' <=> Emptied(n)
    BY <2>1 DEF Emptied
  <2>5. \A j \in DOMAIN q : ~SaysAbsent(q[j], n)
    BY <2>3 DEF Promises
  <2> QED BY <2>1, <2>2, <2>3, <2>4, <2>5 DEF Gone
<1>4. CASE Execute
  BY <1>4, GoneExecute
<1>5. CASE ExecuteFails
  BY <1>5, GoneFails
<1>6. CASE TellMqtt \/ Answer \/ SendRun
  BY <1>6, GoneTail
<1>7. CASE LoadMemory \/ LoadFails \/ Crash
  <2>1. UNCHANGED << dbNet, dbHub, acked >>
    BY <1>7 DEF LoadMemory, LoadFails, Crash, db
  <2>2. ToMqtt("NetworksReady").do = "mqtt" /\ Run.do = "run" /\ Load.do = "load"
    BY DEF ToMqtt, Run, Load
  <2>3. \/ todo' = << >> \/ todo' = << ToMqtt("NetworksReady") >>
        \/ todo' = << ToMqtt("NetworksReady"), Run >> \/ todo' = << Load >>
    BY <1>7 DEF LoadMemory, LoadFails, Crash
  <2>4. \A i \in DOMAIN todo' : todo'[i].do \in {"mqtt", "run", "load"}
    BY <2>2, <2>3
  <2>5. PICK q : q = todo'
    OBVIOUS
  <2>6. Careful(q, n) /\ ~Promises(q, n) /\ \A j \in DOMAIN q : ~SaysAbsent(q[j], n) /\ ~Revives(q[j], n)
    BY <2>4, <2>5 DEF Careful, Promises, SaysAbsent, Revives
  <2>7. acked[n] = "absent" => networks'[n] = "absent"
    BY <1>1, <1>7 DEF LoadMemory, LoadFails, Crash, memory, Remembered, Gone
  <2>8. Emptied(n)' <=> Emptied(n)
    BY <2>1 DEF Emptied
  <2> QED BY <2>1, <2>5, <2>6, <2>7, <2>8 DEF Gone
<1>8. CASE UNCHANGED << todo, networks, dbNet, dbHub, acked >>
  BY <1>8 DEF Gone, Promises, Emptied
<1>9. CASE \/ ForwardRun \/ CreateRuntime \/ DeliverLink \/ ServerNetwork \/ ServerSettings \/ HubLinkage
           \/ UNCHANGED vars
  BY <1>8, <1>9 DEF ForwardRun, CreateRuntime, DeliverLink, ServerNetwork, ServerSettings, HubLinkage,
                    Deliver, vars, mqttVars, memory, db
<1>10. CASE (Mqtt \/ Broker) /\ UNCHANGED topologyVars
  BY <1>8, <1>10 DEF topologyVars, db, Mqtt, Broker, Wait, Initialize, TakeNetCommand, Connect, SendRequest,
                     PollError, Recover, BrokerDown, BrokerUp, InitializeFails
<1> QED BY <1>2, <1>3, <1>4, <1>5, <1>6, <1>7, <1>9, <1>10 DEF Next, Service, Environment
-----------------------------------------------------------------------------
(* The subscriptions *)

\* A request goes out: what the broker will have of a network is what it was to have.
LEMMA HeardSent ==
  ASSUME TypeOK, SendRequest, NEW n \in Networks
  PROVE  Heard(n)' <=> Heard(n)
<1>1. PICK r : r = requests[1]
  OBVIOUS
<1>2. /\ requests \in Seq(Request) /\ requests # << >> /\ requests' = Tail(requests)
      /\ session' = (session \cup Head(requests).add) \ Head(requests).drop
  BY DEF SendRequest, TypeOK, MqttTypeOK
<1>3. /\ Head(requests) = r /\ 1 \in DOMAIN requests /\ DOMAIN requests \subseteq Nat \ {0}
      /\ \A i \in DOMAIN requests' : i \in Nat \ {0} /\ i + 1 \in DOMAIN requests /\ requests'[i] = requests[i + 1]
      /\ \A i \in DOMAIN requests : i = 1 \/ (i - 1 \in DOMAIN requests' /\ requests[i] = requests'[i - 1])
  BY <1>1, <1>2, TailElements
<1>4. n \in session' <=> (n \in session \/ n \in r.add) /\ n \notin r.drop
  BY <1>2, <1>3
<1> DEFINE Undropped    == \A i \in DOMAIN requests : n \notin requests[i].drop
           Restored     == \E i \in DOMAIN requests :
                             n \in requests[i].add /\ \A j \in DOMAIN requests : j >= i => n \notin requests[j].drop
<1>5. Undropped <=> n \notin r.drop /\ Undropped'
  BY <1>1, <1>3
<1>6. Restored => Restored' \/ (n \in r.add /\ n \notin r.drop /\ Undropped')
  <2> SUFFICES ASSUME NEW i \in DOMAIN requests, n \in requests[i].add,
                      \A j \in DOMAIN requests : j >= i => n \notin requests[j].drop
               PROVE  Restored' \/ (n \in r.add /\ n \notin r.drop /\ Undropped')
    OBVIOUS
  <2>1. CASE i = 1
    <3>1. \A j \in DOMAIN requests : j >= 1
      BY <1>3
    <3> QED BY <1>1, <1>3, <1>5, <2>1, <3>1
  <2>2. CASE i # 1
    <3>1. i - 1 \in DOMAIN requests' /\ n \in requests'[i - 1].add
      BY <1>3, <2>2
    <3>2. \A j \in DOMAIN requests' : j >= i - 1 => n \notin requests'[j].drop
      BY <1>3
    <3> QED BY <3>1, <3>2
  <2> QED BY <2>1, <2>2
<1>7. Restored' => Restored
  <2> SUFFICES ASSUME NEW i \in DOMAIN requests', n \in requests'[i].add,
                      \A j \in DOMAIN requests' : j >= i => n \notin requests'[j].drop
               PROVE  Restored
    OBVIOUS
  <2>1. i + 1 \in DOMAIN requests /\ n \in requests[i + 1].add
    BY <1>3
  <2>2. \A j \in DOMAIN requests : j >= i + 1 => n \notin requests[j].drop
    BY <1>3
  <2> QED BY <2>1, <2>2
<1>8. n \in r.add /\ n \notin r.drop /\ Undropped' => Restored
  BY <1>1, <1>3, <1>5
<1> QED BY <1>4, <1>5, <1>6, <1>7, <1>8 DEF Heard

\* A request for the topics that are missing, and against those that are too many.
LEMMA HeardUpdated ==
  ASSUME TypeOK, UpdateSubscriptions, UNCHANGED session, \A n \in Networks : n \in subs <=> Heard(n),
         NEW n \in Networks
  PROVE  n \in subs' <=> Heard(n)'
<1>1. CASE Known = subs
  BY <1>1 DEF UpdateSubscriptions, Heard
<1>2. CASE Known # subs
  <2>1. PICK r : r = [add |-> Known \ subs, drop |-> subs \ Known]
    OBVIOUS
  <2>2. r \in Request /\ requests \in Seq(Request)
    BY <2>1 DEF Request, Topic, Known, TypeOK, MqttTypeOK
  <2>3. requests' = Append(requests, r) /\ subs' = Known
    BY <1>2, <2>1 DEF UpdateSubscriptions
  <2>4. PICK k : k = Len(requests) + 1
    OBVIOUS
  <2>5. /\ k \in DOMAIN requests' /\ requests'[k] = r
        /\ \A i \in DOMAIN requests : i \in DOMAIN requests' /\ requests'[i] = requests[i] /\ i < k
        /\ \A i \in DOMAIN requests' : i = k \/ i \in DOMAIN requests
    <3>1. \A i \in DOMAIN requests : i < k
      BY <2>2, <2>4
    <3> QED BY <2>2, <2>3, <2>4, <3>1, AppendElements
  <2>6. k \in Nat
    BY <2>2, <2>4
  <2>7. CASE n \in subs /\ n \notin Known
    BY <2>1, <2>3, <2>5, <2>6, <2>7 DEF Heard
  <2>8. CASE n \notin subs /\ n \in Known
    <3>1. \A j \in DOMAIN requests' : j >= k => j = k
      BY <2>2, <2>5, <2>6
    <3>2. n \in requests'[k].add /\ n \notin requests'[k].drop
      BY <2>1, <2>5, <2>8
    <3>3. \A j \in DOMAIN requests' : j >= k => n \notin requests'[j].drop
      BY <3>1, <3>2
    <3> QED BY <2>3, <2>5, <2>8, <3>2, <3>3 DEF Heard
  <2>9. CASE n \in subs <=> n \in Known
    <3>1. n \notin r.add /\ n \notin r.drop
      BY <2>1, <2>9
    <3>2. Heard(n) <=> Heard(n)'
      BY <2>5, <3>1 DEF Heard
    <3> QED BY <2>3, <2>9, <3>2
  <2> QED BY <2>7, <2>8, <2>9
<1> QED BY <1>1, <1>2

LEMMA SubscribedInduction ==
  ASSUME TypeOK, Subscribed, [Next]_vars
  PROVE  Subscribed'
<1>1. /\ client \in [state : StateClient, link : {"none", "up", "broken"}]
      /\ subs \subseteq Topic /\ session \subseteq Topic
  BY DEF TypeOK, MqttTypeOK
<1>2. CASE UNCHANGED << client, subs, requests, session >>
  BY <1>2 DEF Subscribed, Heard
<1>3. CASE Crash
  BY <1>3 DEF Crash, MqttRestart, Subscribed
<1>4. CASE Wait \/ Recover \/ InitializeFails
  BY <1>1, <1>4 DEF Wait, Recover, InitializeFails, Subscribed
<1>5. CASE Initialize
  <2>1. PICK r : r = [add |-> CollectSubscriptions, drop |-> {}]
    OBVIOUS
  <2>2. /\ client' = [state |-> "Work", link |-> "none"] /\ session' = {}
        /\ subs' = CollectSubscriptions /\ requests' = << r >>
    BY <1>1, <1>5, <2>1 DEF Initialize, Subscribed
  <2>3. DOMAIN requests' = {1} /\ requests'[1] = r
    BY <2>2
  <2>4. \A n \in Networks : n \in subs' <=> Heard(n)'
    BY <2>1, <2>2, <2>3 DEF Heard
  <2> QED BY <2>2, <2>4 DEF Subscribed
<1>6. CASE TakeNetCommand
  <2>1. UNCHANGED << client, session >> /\ client.state = "Work"
    BY <1>6 DEF TakeNetCommand
  <2>2. CASE UNCHANGED << subs, requests >>
    BY <1>2, <2>1, <2>2
  <2>3. CASE UpdateSubscriptions
    <3>1. client.link # "broken" => \A n \in Networks : n \in subs' <=> Heard(n)'
      BY <2>1, <2>3, HeardUpdated DEF Subscribed
    <3> QED BY <2>1, <3>1 DEF Subscribed
  <2> QED BY <1>6, <2>2, <2>3 DEF TakeNetCommand
<1>7. CASE Connect
  <2>1. /\ client' = [client EXCEPT !.link = "up"] /\ session' = {} /\ session = {}
        /\ client.state = "Work" /\ client.link = "none" /\ UNCHANGED << subs, requests >>
    BY <1>7 DEF Connect, Subscribed
  <2>2. \A n \in Networks : n \in subs' <=> Heard(n)'
    BY <2>1 DEF Subscribed, Heard
  <2> QED BY <1>1, <2>1, <2>2 DEF Subscribed
<1>8. CASE SendRequest
  <2>1. UNCHANGED << client, subs >> /\ client.state = "Work" /\ client.link = "up"
    BY <1>8 DEF SendRequest
  <2>2. \A n \in Networks : n \in subs' <=> Heard(n)'
    BY <1>8, <2>1, HeardSent DEF Subscribed
  <2> QED BY <2>1, <2>2 DEF Subscribed
<1>9. CASE PollError
  BY <1>9 DEF PollError, Subscribed
<1>10. CASE BrokerDown
  <2>1. CASE client.link = "up"
    BY <1>1, <1>10, <2>1 DEF BrokerDown, Subscribed
  <2>2. CASE client.link # "up"
    BY <1>2, <1>10, <2>2 DEF BrokerDown, Subscribed
  <2> QED BY <2>1, <2>2
<1>11. CASE BrokerUp
  BY <1>2, <1>11 DEF BrokerUp
<1>12. CASE \/ TakeNetwork \/ TakeLinkage \/ TakeSettings \/ Execute \/ TellMqtt \/ Answer \/ SendRun
            \/ LoadMemory \/ ForwardRun \/ CreateRuntime \/ DeliverLink
            \/ ServerNetwork \/ ServerSettings \/ HubLinkage \/ ExecuteFails \/ LoadFails \/ UNCHANGED vars
  BY <1>2, <1>12 DEF TakeNetwork, TakeLinkage, TakeSettings, Execute, TellMqtt, Answer, SendRun, LoadMemory,
                     ForwardRun, CreateRuntime, DeliverLink, ServerNetwork, ServerSettings, HubLinkage, Deliver,
                     ExecuteFails, LoadFails, vars, mqttVars
<1> QED BY <1>3, <1>4, <1>5, <1>6, <1>7, <1>8, <1>9, <1>10, <1>11, <1>12
        DEF Next, Service, Environment, Mqtt, Broker

\* A change of the memory is followed to the client.
LEMMA NotifiedInduction ==
  ASSUME TypeOK, Loading, NotifiedInv, [Next]_vars
  PROVE  NotifiedInv'
<1> SUFFICES ASSUME spent'.faults = 0 PROVE Notified'
  BY DEF NotifiedInv
<1>1. /\ spent.faults \in Nat /\ netCmds \in Seq(MqttServiceCommand)
      /\ client \in [state : StateClient, link : {"none", "up", "broken"}]
  BY DEF TypeOK, MqttTypeOK
<1>2. ~ExecuteFails /\ ~LoadFails
  BY <1>1 DEF ExecuteFails, LoadFails, Fault, TypeOK
<1>3. spent'.faults = spent.faults
  BY <1>2 DEF TypeOK, Next, Service, Environment, TakeNetwork, TakeLinkage, TakeSettings, Execute, TellMqtt,
              Answer, SendRun, LoadMemory, ForwardRun, ServerNetwork, ServerSettings, HubLinkage, Deliver,
              Crash, CreateRuntime, DeliverLink, vars, topologyVars
<1>4. Notified
  BY <1>3 DEF NotifiedInv
<1> DEFINE NoteSent(q) == \E i \in DOMAIN q : q[i] = "NetworksUpdated"
           NoteDue(q)  == \E i \in DOMAIN q : q[i] = ToMqtt("NetworksUpdated")
<1>5. client.state = "Work" /\ subs \cap Networks # Known => NoteSent(netCmds) \/ NoteDue(todo)
  BY <1>4 DEF Notified
<1>6. SUFFICES client'.state = "Work" /\ subs' \cap Networks # Known' => NoteSent(netCmds') \/ NoteDue(todo')
  BY DEF Notified
<1> HIDE DEF NoteSent, NoteDue
<1>7. ToMqtt("NetworksUpdated").do = "mqtt" /\ ToMqtt("NetworksUpdated").cmd = "NetworksUpdated"
  BY DEF ToMqtt
<1>8. todo = << >> => ~NoteDue(todo)
  BY DEF NoteDue
<1>9. CASE TakeNetwork
  <2>1. UNCHANGED << client, subs, netCmds >> /\ todo = << >>
    BY <1>9 DEF TakeNetwork, mqttVars
  <2>2. CASE UNCHANGED networks
    BY <1>5, <1>8, <2>1, <2>2 DEF Known
  <2>3. CASE \E n \in Networks, w \in Activity : NetworkSet(n, w)
    BY <2>3 DEF NetworkSet, NoteDue
  <2> QED BY <1>9, <2>2, <2>3, NetworkSteps
<1>10. CASE TakeLinkage \/ TakeSettings
  BY <1>5, <1>8, <1>10 DEF TakeLinkage, TakeSettings, mqttVars, memory, Known
<1>11. CASE Execute \/ Answer \/ SendRun
  <2>1. /\ todo # << >> /\ todo' = Tail(todo) /\ Head(todo).do # "mqtt"
        /\ UNCHANGED << client, subs, netCmds, networks >>
    BY <1>11 DEF Execute, Answer, SendRun, mqttVars, memory
  <2>2. /\ Head(todo) = todo[1]
        /\ \A i \in DOMAIN todo : i = 1 \/ (i - 1 \in DOMAIN todo' /\ todo[i] = todo'[i - 1])
    BY <2>1, TodoTail
  <2>3. NoteDue(todo) => NoteDue(todo')
    BY <1>7, <2>1, <2>2 DEF NoteDue
  <2> QED BY <1>5, <2>1, <2>3 DEF Known
<1>12. CASE TellMqtt
  <2>1. /\ todo # << >> /\ todo' = Tail(todo) /\ netCmds' = Append(netCmds, Head(todo).cmd)
        /\ UNCHANGED << client, subs, networks >> /\ Head(todo).do = "mqtt"
    BY <1>12 DEF TellMqtt, memory
  <2>2. /\ Head(todo) = todo[1] /\ todo[1] \in Step
        /\ \A i \in DOMAIN todo : i = 1 \/ (i - 1 \in DOMAIN todo' /\ todo[i] = todo'[i - 1])
    BY <2>1, TodoTail
  <2>3. Head(todo).cmd \in MqttServiceCommand
    BY <2>1, <2>2, StepParts
  <2>4. /\ \A i \in DOMAIN netCmds : i \in DOMAIN netCmds' /\ netCmds'[i] = netCmds[i]
        /\ Len(netCmds) + 1 \in DOMAIN netCmds' /\ netCmds'[Len(netCmds) + 1] = Head(todo).cmd
    BY <1>1, <2>1, <2>3, AppendElements
  <2>5. NoteSent(netCmds) => NoteSent(netCmds')
    BY <2>4 DEF NoteSent
  <2>6. NoteDue(todo) => NoteSent(netCmds') \/ NoteDue(todo')
    BY <1>7, <2>2, <2>4 DEF NoteSent, NoteDue
  <2> QED BY <1>5, <2>1, <2>5, <2>6 DEF Known
<1>13. CASE LoadMemory
  <2>1. todo # << >> /\ todo[1].do = "load"
    BY <1>13, StepInHand DEF LoadMemory
  <2>2. client'.state = "Waiting"
    BY <1>13, <2>1 DEF LoadMemory, mqttVars, Loading
  <2> QED BY <2>2
<1>14. CASE Crash \/ Wait \/ Recover \/ PollError \/ InitializeFails
  <2>1. client'.state # "Work"
    BY <1>1, <1>14 DEF Crash, MqttRestart, Wait, Recover, PollError, InitializeFails
  <2> QED BY <2>1
<1>15. CASE Initialize
  <2>1. subs' \cap Networks = Known'
    BY <1>15, TopologyAssumption DEF Initialize, CollectSubscriptions, Known
  <2> QED BY <2>1
<1>16. CASE TakeNetCommand /\ UNCHANGED topologyVars
  <2>1. UNCHANGED << client, networks, todo >> /\ netCmds # << >> /\ netCmds' = Tail(netCmds) /\ client.state = "Work"
    BY <1>16 DEF TakeNetCommand, topologyVars
  <2>2. CASE Head(netCmds) = "NetworksUpdated"
    <3>1. subs' = Known
      BY <1>16, <2>2 DEF TakeNetCommand, UpdateSubscriptions
    <3>2. subs' \cap Networks = Known'
      BY <2>1, <3>1 DEF Known
    <3> QED BY <3>2
  <2>3. CASE Head(netCmds) # "NetworksUpdated"
    <3>1. UNCHANGED subs
      BY <1>16, <2>3 DEF TakeNetCommand
    <3>2. /\ Head(netCmds) = netCmds[1]
          /\ \A i \in DOMAIN netCmds : i = 1 \/ (i - 1 \in DOMAIN netCmds' /\ netCmds[i] = netCmds'[i - 1])
      BY <1>1, <2>1, TailElements
    <3>3. NoteSent(netCmds) => NoteSent(netCmds')
      BY <2>3, <3>2 DEF NoteSent
    <3> QED BY <1>5, <2>1, <3>1, <3>3 DEF Known
  <2> QED BY <2>2, <2>3
<1>17. CASE (Connect \/ SendRequest \/ BrokerDown \/ BrokerUp) /\ UNCHANGED topologyVars
  <2>1. UNCHANGED << subs, netCmds, networks, todo >> /\ client'.state = client.state
    BY <1>1, <1>17 DEF Connect, SendRequest, BrokerDown, BrokerUp, topologyVars
  <2> QED BY <1>5, <2>1 DEF Known
<1>18. CASE \/ ForwardRun \/ CreateRuntime \/ DeliverLink \/ ServerNetwork \/ ServerSettings \/ HubLinkage
            \/ UNCHANGED vars
  <2>1. UNCHANGED << client, subs, netCmds, networks, todo >>
    BY <1>18 DEF ForwardRun, CreateRuntime, DeliverLink, ServerNetwork, ServerSettings, HubLinkage,
                 Deliver, vars, mqttVars, memory
  <2> QED BY <1>5, <2>1 DEF Known
<1> QED BY <1>2, <1>9, <1>10, <1>11, <1>12, <1>13, <1>14, <1>15, <1>16, <1>17, <1>18
        DEF Next, Service, Environment, Mqtt, Broker
-----------------------------------------------------------------------------
(* The runtime of the FSM *)

\* The first hub of all leads to a Run.
LEMMA LinkageStarts ==
  ASSUME TypeOK, Started, TakeLinkage
  PROVE  Started'
<1>1. PICK h, n : h = Head(inbox).hub /\ n = Head(inbox).net
  OBVIOUS
<1>2. h \in Hubs /\ n \in Networks /\ todo = << >> /\ hubs \in [Networks -> SUBSET Row]
  BY <1>1, CommandInHand DEF TakeLinkage, TypeOK
<1>3. UNCHANGED << runs, starting, runtime >>
  BY DEF TakeLinkage, fsmVars
<1>4. Run.do = "run" /\ LinkageAck.do = "linkage ack"
  BY DEF Run, LinkageAck
<1>5. (\E m \in Networks : hubs[m] # {}) => runtime \/ runs > 0 \/ starting > 0
  BY <1>2 DEF Started, Has
<1>6. CASE todo' = << LinkageAck >> /\ UNCHANGED hubs
  <2>1. \A i \in DOMAIN todo' : todo'[i] = LinkageAck
    BY <1>6
  <2>2. \A i \in DOMAIN todo' : todo'[i].do # "sql"
    BY <1>4, <2>1
  <2> QED BY <1>3, <1>5, <1>6, <2>2 DEF Started
<1>7. CASE todo' = LinkageSteps(h, n)
  <2>1. /\ 2 \in DOMAIN todo' /\ todo'[1].do = "sql"
        /\ \A i \in DOMAIN todo' : i = 1 \/ todo'[i] \in {Run, LinkageAck}
        /\ NoHubs => todo'[2] = Run /\ Has(todo'[1].otherwise, "run")
        /\ ~Has(todo'[1].otherwise, "sql")
        /\ ~NoHubs => \A i \in DOMAIN todo' : todo'[i].do # "run"
    <3>1. PICK q : q = todo'
      OBVIOUS
    <3>2. /\ 2 \in DOMAIN q /\ q[1].do = "sql"
          /\ \A i \in DOMAIN q : i = 1 \/ q[i] \in {Run, LinkageAck}
          /\ NoHubs => q[2] = Run
          /\ NoHubs => 1 \in DOMAIN q[1].otherwise /\ q[1].otherwise[1] = Run
          /\ \A i \in DOMAIN q[1].otherwise : q[1].otherwise[i] \in {Run, LinkageAck}
          /\ ~NoHubs => \A i \in DOMAIN q : q[i].do # "run"
      BY <1>2, <1>7, <3>1, LinkageStepsAre
    <3>3. NoHubs => Has(q[1].otherwise, "run")
      BY <1>4, <3>2 DEF Has
    <3>4. ~Has(q[1].otherwise, "sql")
      BY <1>4, <3>2 DEF Has
    <3> QED BY <3>1, <3>2, <3>3, <3>4
  <2>2. \A i \in DOMAIN todo' : todo'[i].do = "sql" => i = 1
    BY <1>4, <2>1
  <2>3. Has(todo', "run") => NoHubs
    BY <2>1 DEF Has
  <2>4. NoHubs => Has(todo', "run")
    BY <1>4, <2>1 DEF Has
  <2>5. ~NoHubs => runtime \/ runs > 0 \/ starting > 0
    BY <1>5 DEF NoHubs
  <2> QED BY <1>3, <2>1, <2>2, <2>3, <2>4, <2>5 DEF Started
<1> QED BY <1>1, <1>6, <1>7 DEF TakeLinkage

\* The settings of a hub lead to none.
LEMMA SettingsStart ==
  ASSUME TypeOK, Started, TakeSettings
  PROVE  Started'
<1>1. PICK n, q : n = Head(inbox).net /\ q = todo'
  OBVIOUS
<1>2. Nameless \in Row /\ n \in Networks
  BY <1>1, CommandInHand DEF TakeSettings, Row
<1>3. q = Regardless(InsertHub(Nameless, n), << Config >>)
  BY <1>1 DEF TakeSettings
<1>4. /\ Len(q) = 2 /\ q \in Seq(Step) /\ q[1].do = "sql" /\ q[2] = Config
      /\ q[1].otherwise = << Config >>
  BY <1>2, <1>3, SettingsStepsAre
<1>5. Config.do = "config" /\ DOMAIN q = 1 .. 2
  BY <1>4 DEF Config
<1>6. ~Has(q, "run")
  <2>1. \A i \in DOMAIN q : i = 1 \/ i = 2
    BY <1>5
  <2> QED BY <1>4, <1>5, <2>1 DEF Has
<1>7. ~Has(q[1].otherwise, "run")
  <2>1. \A i \in DOMAIN q[1].otherwise : q[1].otherwise[i] = Config
    BY <1>4
  <2> QED BY <1>5, <2>1 DEF Has
<1>8. \A i \in DOMAIN q : q[i].do = "sql" => i = 1
  <2>1. \A i \in DOMAIN q : i = 1 \/ i = 2
    BY <1>5
  <2> QED BY <1>4, <1>5, <2>1
<1>9. todo = << >> /\ UNCHANGED << hubs, runs, starting, runtime >>
  BY DEF TakeSettings, memory, fsmVars
<1>10. (\E m \in Networks : hubs[m] # {}) => runtime \/ runs > 0 \/ starting > 0
  BY <1>9 DEF Started, Has
<1> QED BY <1>1, <1>6, <1>7, <1>8, <1>9, <1>10 DEF Started

\* The first step is done and was not a Run, or its Run was sent.
LEMMA StartedTail ==
  ASSUME TypeOK, Started, todo # << >>, todo' = Tail(todo),
         UNCHANGED << hubs, starting, runtime >>, runs \in Nat,
         (UNCHANGED runs /\ todo[1].do # "run") \/ runs' = runs + 1
  PROVE  Started'
<1>1. /\ \A i \in DOMAIN todo' : i + 1 \in DOMAIN todo /\ todo'[i] = todo[i + 1]
      /\ \A i \in DOMAIN todo : i = 1 \/ (i - 1 \in DOMAIN todo' /\ todo[i] = todo'[i - 1])
  BY TodoTail
<1>2. Has(todo', "run") => Has(todo, "run")
  BY <1>1 DEF Has
<1>3. Has(todo, "run") => todo[1].do = "run" \/ Has(todo', "run")
  BY <1>1 DEF Has
<1>4. ASSUME NEW i \in DOMAIN todo', todo'[i].do = "sql"
      PROVE  /\ Has(todo', "run") => Has(todo'[i].otherwise, "run")
             /\ ~(Has(todo'[i].otherwise, "run") /\ Has(todo'[i].otherwise, "sql"))
  <2>1. i + 1 \in DOMAIN todo /\ todo'[i] = todo[i + 1]
    BY <1>1
  <2> QED BY <1>2, <1>4, <2>1 DEF Started
<1>5. (\E n \in Networks : hubs'[n] # {}) => runtime' \/ runs' > 0 \/ starting' > 0 \/ Has(todo', "run")
  BY <1>3 DEF Started
<1> QED BY <1>4, <1>5 DEF Started

\* What is done after a failure has no two statements in a row that could fail.
LEMMA StartedAfterFailure ==
  ASSUME TypeOK, Started, ExecuteFails
  PROVE  Started'
<1>1. PICK s : s = todo[1]
  OBVIOUS
<1>2. /\ s \in Step /\ s.do = "sql" /\ todo' = s.otherwise /\ 1 \in DOMAIN todo
      /\ UNCHANGED << hubs, runs, starting, runtime >>
  <2>1. Head(todo) = todo[1] /\ 1 \in DOMAIN todo
    BY TailElements DEF TypeOK, ExecuteFails
  <2> QED BY <1>1, <2>1, StepInHand DEF ExecuteFails, memory, fsmVars
<1>3. todo' \in Seq(RetryStep)
  BY <1>2, StepParts
<1>4. /\ Has(todo, "run") => Has(todo', "run")
      /\ ~(Has(todo', "run") /\ Has(todo', "sql"))
  BY <1>1, <1>2 DEF Started
<1>5. ASSUME NEW i \in DOMAIN todo', todo'[i].do = "sql"
      PROVE  ~Has(todo', "run") /\ ~Has(todo'[i].otherwise, "sql")
  <2>1. Has(todo', "sql")
    BY <1>5 DEF Has
  <2>2. todo'[i] \in RetryStep
    BY <1>3
  <2>3. todo'[i] \notin PlainStep
    BY <1>5, PlainKinds
  <2>4. PICK rest : rest = todo'[i].otherwise
    OBVIOUS
  <2>5. rest \in Seq(PlainStep)
    BY <2>2, <2>3, <2>4 DEF RetryStep, SqlStep
  <2>6. \A j \in DOMAIN rest : rest[j] \in PlainStep
    BY <2>5
  <2>7. ~Has(rest, "sql")
    BY <2>6, PlainKinds DEF Has
  <2> QED BY <1>4, <2>1, <2>4, <2>7
<1>6. (\E n \in Networks : hubs'[n] # {}) => runtime' \/ runs' > 0 \/ starting' > 0 \/ Has(todo', "run")
  BY <1>2, <1>4 DEF Started
<1> QED BY <1>5, <1>6 DEF Started

\* A restart leads to a Run if it finds a hub.
LEMMA LoadStarts ==
  ASSUME TypeOK, Loading, LoadMemory \/ LoadFails
  PROVE  Started'
<1>1. todo # << >> /\ todo[1].do = "load" /\ \A n \in Networks : hubs[n] = {}
  BY StepInHand DEF LoadMemory, LoadFails, Loading
<1>2. ToMqtt("NetworksReady").do = "mqtt" /\ Run.do = "run"
  BY DEF ToMqtt, Run
<1>3. todo' = << >> \/ todo' = << ToMqtt("NetworksReady") >> \/ todo' = << ToMqtt("NetworksReady"), Run >>
  BY DEF LoadMemory, LoadFails
<1>4. \A i \in DOMAIN todo' : todo'[i].do # "sql"
  BY <1>2, <1>3
<1>5. CASE UNCHANGED hubs
  BY <1>1, <1>4, <1>5 DEF Started
<1>6. CASE /\ hubs' = [n \in Networks |-> { h \in Row : dbHub[h] = n }]
           /\ todo' = IF \E h \in Row : dbHub[h] # "none"
                      THEN << ToMqtt("NetworksReady"), Run >> ELSE << ToMqtt("NetworksReady") >>
  <2>1. CASE \E h \in Row : dbHub[h] # "none"
    <3>1. 2 \in DOMAIN todo' /\ todo'[2] = Run
      BY <1>6, <2>1
    <3>2. Has(todo', "run")
      BY <1>2, <3>1 DEF Has
    <3> QED BY <1>4, <3>2 DEF Started
  <2>2. CASE \A h \in Row : dbHub[h] = "none"
    <3>1. \A n \in Networks : hubs'[n] = {}
      BY <1>6, <2>2, TopologyAssumption
    <3> QED BY <1>4, <3>1 DEF Started
  <2> QED BY <2>1, <2>2
<1> QED BY <1>5, <1>6 DEF LoadMemory, LoadFails, memory

LEMMA StartedInduction ==
  ASSUME TypeOK, Loading, Started, [Next]_vars
  PROVE  Started'
<1>1. runs \in Nat /\ starting \in Nat /\ hubs \in [Networks -> SUBSET Row]
  BY Bounds DEF TypeOK
<1>2. CASE UNCHANGED << hubs, todo, runs, starting, runtime >>
  BY <1>2 DEF Started
<1>3. CASE TakeNetwork
  <2>1. todo = << >> /\ UNCHANGED << hubs, runs, starting, runtime >>
    BY <1>3 DEF TakeNetwork, fsmVars
  <2>2. CASE todo' = << >>
    BY <1>2, <2>1, <2>2
  <2>3. ASSUME NEW n \in Networks, NEW w \in Activity, NetworkSet(n, w)
        PROVE  Started'
    <3>1. ~Has(todo', "run") /\ \A i \in DOMAIN todo' : todo'[i].do = "sql" => ~Has(todo'[i].otherwise, "run")
      BY <2>3 DEF NetworkSet, Has
    <3>2. (\E m \in Networks : hubs[m] # {}) => runtime \/ runs > 0 \/ starting > 0
      BY <2>1 DEF Started, Has
    <3> QED BY <2>1, <3>1, <3>2 DEF Started
  <2> QED BY <1>3, <2>2, <2>3, NetworkSteps
<1>4. CASE TakeLinkage
  BY <1>4, LinkageStarts
<1>5. CASE TakeSettings
  BY <1>5, SettingsStart
<1>6. CASE Execute \/ TellMqtt \/ Answer \/ SendRun
  <2>1. /\ todo # << >> /\ todo' = Tail(todo) /\ UNCHANGED << hubs, starting, runtime >>
        /\ (UNCHANGED runs /\ Head(todo).do # "run") \/ runs' = runs + 1
    BY <1>6 DEF Execute, TellMqtt, Answer, SendRun, memory, fsmVars
  <2>2. Head(todo) = todo[1]
    BY <2>1, TodoTail
  <2> QED BY <1>1, <2>1, <2>2, StartedTail
<1>7. CASE ExecuteFails
  BY <1>7, StartedAfterFailure
<1>8. CASE LoadMemory \/ LoadFails
  BY <1>8, LoadStarts
<1>9. CASE ForwardRun
  BY <1>1, <1>9 DEF ForwardRun, memory, Started, Has
<1>10. CASE CreateRuntime
  BY <1>1, <1>10 DEF CreateRuntime, memory, Started, Has
<1>11. CASE Crash
  <2>1. todo' = << Load >> /\ \A n \in Networks : hubs'[n] = {}
    BY <1>11 DEF Crash
  <2>2. \A i \in DOMAIN todo' : todo'[i].do # "sql"
    BY <2>1 DEF Load
  <2> QED BY <2>1, <2>2 DEF Started
<1>12. CASE DeliverLink \/ ServerNetwork \/ ServerSettings \/ HubLinkage \/ UNCHANGED vars
  BY <1>2, <1>12 DEF DeliverLink, ServerNetwork, ServerSettings, HubLinkage, Deliver, vars, memory, fsmVars
<1>13. CASE (Mqtt \/ Broker) /\ UNCHANGED topologyVars
  BY <1>2, <1>13 DEF topologyVars, fsmVars
<1> QED BY <1>3, <1>4, <1>5, <1>6, <1>7, <1>8, <1>9, <1>10, <1>11, <1>12, <1>13 DEF Next, Service, Environment
-----------------------------------------------------------------------------
(* The theorems *)

LEMMA InitInv == Init => IInv
<1> SUFFICES ASSUME Init PROVE IInv
  OBVIOUS
<1>1. /\ todo = << Load >> /\ client = [state |-> "Waiting", link |-> "none"] /\ subs = {} /\ session = {}
      /\ netCmds = << >> /\ requests = << >>
      /\ networks = [n \in Networks |-> "absent"] /\ dbNet = [n \in Networks |-> "absent"]
      /\ hubs = [n \in Networks |-> {}] /\ acked = [n \in Networks |-> "nothing"]
  BY DEF Init, MqttInit
<1>2. DOMAIN todo = {1} /\ todo[1].do = "load" /\ todo # << >>
  BY <1>1 DEF Load
<1>3. Loading
  BY <1>1, <1>2 DEF Loading
<1>4. DurableInv
  BY <1>1, <1>2 DEF DurableInv, Durable, Changes
<1>5. Subscribed /\ NotifiedInv
  BY <1>1 DEF Subscribed, NotifiedInv, Notified
<1>6. Started
  BY <1>1, <1>2 DEF Started
<1>7. GoneInv
  BY <1>1, <1>2 DEF GoneInv, Gone, Careful, Promises, SaysAbsent, Revives
<1> QED BY <1>3, <1>4, <1>5, <1>6, <1>7, InitType DEF IInv

\* The invariant of the topology.
THEOREM Invariant == Spec => []IInv
<1>1. IInv /\ [Next]_vars => IInv'
  BY TypeInduction, LoadingInduction, DurableInduction, SubscribedInduction, NotifiedInduction, StartedInduction,
     GoneInduction DEF IInv, GoneInv
<1> QED BY InitInv, <1>1, PTL DEF Spec

\* As long as no statement failed, what the server was told of a network is in the database,
\* wherever the process died since.
THEOREM AcksAreDurableCorrect == Spec => []AcksAreDurable
<1>1. IInv => AcksAreDurable
  BY DEF IInv, DurableInv, Durable, AcksAreDurable
<1> QED BY Invariant, <1>1, PTL

\* Between commands, and after a restart, the networks in memory are the database's.
THEOREM NetworksAreDatabaseCorrect == Spec => []NetworksAreDatabase
<1>1. IInv => NetworksAreDatabase
  BY DEF IInv, DurableInv, Durable, NetworksAreDatabase, Idle
<1> QED BY Invariant, <1>1, PTL

\* A deletion that was acknowledged leaves no hub of the network behind, whichever statements
\* failed and wherever the process died.
THEOREM DeletionsAreCompleteCorrect == Spec => []DeletionsAreComplete
<1>1. IInv => DeletionsAreComplete
  BY DEF IInv, GoneInv, Gone, Emptied, DeletionsAreComplete
<1> QED BY Invariant, <1>1, PTL

\* A client that has caught up hears exactly the networks in memory.
THEOREM HearsNetworksCorrect == Spec => []HearsNetworks
<1>1. ASSUME IInv, spent.faults = 0, Idle, netCmds = << >>, requests = << >>, client.link = "up"
      PROVE  session \cap Networks = Known
  <2>1. client.state = "Work"
    BY <1>1 DEF IInv, Subscribed
  <2>2. subs \cap Networks = Known
    BY <1>1, <2>1 DEF IInv, NotifiedInv, Notified, Idle
  <2>3. \A n \in Networks : n \in subs <=> n \in session
    <3>1. DOMAIN requests = {}
      BY <1>1
    <3>2. \A n \in Networks : Heard(n) <=> n \in session
      BY <3>1 DEF Heard
    <3> QED BY <1>1, <2>1, <3>2 DEF IInv, Subscribed
  <2> QED BY <2>2, <2>3 DEF Known
<1>2. IInv => HearsNetworks
  BY <1>1 DEF HearsNetworks
<1> QED BY Invariant, <1>2, PTL

\* An edge that counts a hub, or the nameless row, runs the FSM, whichever statements failed.
THEOREM HubsRunTheFsmCorrect == Spec => []HubsRunTheFsm
<1>1. IInv => HubsRunTheFsm
  BY Bounds DEF IInv, TypeOK, Started, Has, HubsRunTheFsm, Idle
<1> QED BY Invariant, <1>1, PTL
=============================================================================
