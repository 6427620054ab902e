------------------------- MODULE RecordChainProofs -------------------------
(***************************************************************************)
(* What is decided, and what is bound, is what policy admitted: for any    *)
(* handlers, consoles, codes and policies, whatever is read and appended   *)
(* between the readings of a call, and however often consoles restart.     *)
(* The invariant says what a call may rely on of what it read: ledgers     *)
(* only grow, so a row keeps its place, and an intent revision that was    *)
(* once superseded is never the current one again.                         *)
(***************************************************************************)
EXTENDS RecordChain, FirstElement

(***************************************************************************)
(* Ledgers and their rows.                                                 *)
(***************************************************************************)

\* A ledger that is appended to keeps its rows where they are.
Extends(s, t) == DOMAIN s \subseteq DOMAIN t /\ \A i \in DOMAIN s : t[i] = s[i]

\* The ledgers that later records refer to only grow.
Grows ==
  /\ Extends(intents, intents')
  /\ Extends(admissions, admissions')
  /\ Extends(requests, requests')
  /\ Extends(decisions, decisions')

\* An append keeps the rows and adds one.
LEMMA AppendExtends ==
  ASSUME NEW S, NEW s \in Seq(S), NEW x \in S
  PROVE  /\ Append(s, x) \in Seq(S)
         /\ Extends(s, Append(s, x))
         /\ Len(Append(s, x)) = Len(s) + 1
         /\ DOMAIN Append(s, x) = DOMAIN s \union {Len(s) + 1}
         /\ Append(s, x)[Len(s) + 1] = x
  BY DEF Extends

\* The latest of some rows is one of them, and none of them is later.
LEMMA LatestRow ==
  ASSUME NEW S, NEW s \in Seq(S), NEW T \in SUBSET DOMAIN s, T # {}
  PROVE  Latest(T) \in T /\ \A j \in T : j <= Latest(T)
  <1> DEFINE U == {Len(s) - k : k \in T}
  <1>1. Len(s) \in Nat /\ \A k \in T : k \in 1..Len(s)
    OBVIOUS
  <1>2. U \in SUBSET (0..Len(s)) /\ U # {}
    <2>1. ASSUME NEW k \in T PROVE Len(s) - k \in 0..Len(s)
      BY <1>1
    <2> QED BY <2>1
  <1>3. PICK x \in U : \A y \in U : x <= y
    <2> HIDE DEF U
    <2> QED BY <1>1, <1>2, FirstInstant
  <1>4. PICK k \in T : x = Len(s) - k
    OBVIOUS
  <1>5. ASSUME NEW j \in T PROVE j <= k
    <2>1. Len(s) - k <= Len(s) - j
      BY <1>3, <1>4
    <2> QED BY <1>1, <2>1
  <1> QED BY <1>5 DEF Latest

\* The decisions on a request can be counted.
LEMMA DecisionsCounted ==
  ASSUME decisions \in Seq(DecisionRow), NEW r
  PROVE  Cardinality(DecisionsOn(r)) \in Nat
  <1>1. DecisionsOn(r) \subseteq 1..Len(decisions)
    BY DEF DecisionsOn
  <1>2. IsFiniteSet(1..Len(decisions))
    BY FS_Interval
  <1> QED BY <1>1, <1>2, FS_Subset, FS_CardinalityType

(***************************************************************************)
(* The invariant.                                                          *)
(***************************************************************************)

\* The code of request r is that of a revision between the admitted one and i.
CodeFollows(r, i) ==
  \E j \in DOMAIN intents :
    AdmittedIntent(r) <= j /\ j <= i /\ requests[r].code = intents[j].code

Agrees(r) == requests[r].code = intents[AdmittedIntent(r)].code

\* What each row refers to is there.
AdmissionsRefer == \A k \in DOMAIN admissions : admissions[k].intent \in DOMAIN intents

RequestsRefer ==
  \A r \in DOMAIN requests :
    /\ requests[r].admission \in DOMAIN admissions
    /\ CodeFollows(r, Len(intents))

DecisionsRefer ==
  \A d \in DOMAIN decisions :
    decisions[d].request \in DOMAIN requests /\ Agrees(decisions[d].request)

IsApproval(d) == d \in DOMAIN decisions /\ decisions[d].kind = "approve"

BindingsRefer == \A b \in DOMAIN bindings : IsApproval(bindings[b].decision)

\* The operations a step belongs to.
StepsOf(t) ==
  /\ t.step = "chain" => t.op = "accept"
  /\ t.step \in {"match", "existing"} => t.op \in {"request", "decide", "bind"}
  /\ t.step \in {"project", "decisions"} => t.op \in {"decide", "bind"}
  /\ t.step \in {"latest", "chosen", "approval"} => t.op = "bind"
  /\ t.step = "code" => t.op = "request"
  /\ t.step = "again" => t.op = "decide"

\* A projection and an admission that were read refer to each other.
Projected(t) ==
  t.step \in {"match", "existing"} =>
    /\ t.intent \in DOMAIN intents
    /\ t.step = "existing" =>
         /\ t.admission \in DOMAIN admissions
         /\ admissions[t.admission].intent = t.intent

Revises(t) == t.op = "revoke" => t.at - 1 \in DOMAIN intents

Admitting(t) == t.op = "admit" => t.intent \in DOMAIN intents

Requesting(t) ==
  /\ t.op = "request" /\ t.step \in {"code", "append"} =>
       t.admission \in DOMAIN admissions
  /\ t.op = "request" /\ t.step = "append" =>
       t.intent \in DOMAIN intents /\ admissions[t.admission].intent <= t.intent

\* The request a decision or a binding is about: its code was that of the
\* projected revision at the latest, and then that of the admitted one.
Answering(t) ==
  /\ t.op = "decide" \/ t.step \in {"project", "decisions"}
       \/ (t.op = "bind" /\ t.step \in {"match", "existing"})
     => t.request \in DOMAIN requests
  /\ t.op \in {"decide", "bind"} /\ t.step \in {"match", "existing"} =>
       CodeFollows(t.request, t.intent)
  /\ t.op = "decide" /\ t.step \in {"decisions", "again", "append"} =>
       Agrees(t.request)

Binding(t) ==
  /\ t.op = "bind" /\ t.step # "approval" => t.decision \in DOMAIN decisions
  /\ t.op = "bind" /\ t.step \in {"chosen", "append"} => IsApproval(t.decision)

TaskInv(t) ==
  /\ StepsOf(t) /\ Projected(t) /\ Revises(t) /\ Admitting(t)
  /\ Requesting(t) /\ Answering(t) /\ Binding(t)

HandlerInv(h) == TaskInv(task[h])

LedgerInv == AdmissionsRefer /\ RequestsRefer /\ DecisionsRefer /\ BindingsRefer

RInv == RecordTypeOK /\ LedgerInv /\ \A h \in Handler : HandlerInv(h)

(***************************************************************************)
(* Growing ledgers keep what was read.                                     *)
(***************************************************************************)

\* The row a reference points to stays, and so does what it agrees with.
LEMMA ReferencesKept ==
  ASSUME RecordTypeOK, LedgerInv, Grows, NEW r \in DOMAIN requests
  PROVE  /\ r \in DOMAIN requests'
         /\ AdmittedIntent(r)' = AdmittedIntent(r)
         /\ AdmittedIntent(r) \in DOMAIN intents
         /\ requests'[r] = requests[r]
         /\ \A i \in Nat : CodeFollows(r, i) => CodeFollows(r, i)'
         /\ Agrees(r) => Agrees(r)'
  <1>1. r \in DOMAIN requests' /\ requests'[r] = requests[r]
    BY DEF Grows, Extends
  <1>2. requests[r].admission \in DOMAIN admissions
    BY DEF LedgerInv, RequestsRefer
  <1>3. admissions'[requests[r].admission] = admissions[requests[r].admission]
    BY <1>2 DEF Grows, Extends
  <1>4. AdmittedIntent(r)' = AdmittedIntent(r)
    BY <1>1, <1>3 DEF AdmittedIntent
  <1>5. AdmittedIntent(r) \in DOMAIN intents
    BY <1>2 DEF LedgerInv, AdmissionsRefer, AdmittedIntent
  <1>6. ASSUME NEW i \in Nat, CodeFollows(r, i) PROVE CodeFollows(r, i)'
    <2>1. PICK j \in DOMAIN intents :
            AdmittedIntent(r) <= j /\ j <= i /\ requests[r].code = intents[j].code
      BY <1>6 DEF CodeFollows
    <2>2. j \in DOMAIN intents' /\ intents'[j] = intents[j]
      BY DEF Grows, Extends
    <2> QED BY <1>1, <1>4, <2>1, <2>2 DEF CodeFollows
  <1>7. Agrees(r) => Agrees(r)'
    <2>1. intents'[AdmittedIntent(r)] = intents[AdmittedIntent(r)]
      BY <1>5 DEF Grows, Extends
    <2> QED BY <1>1, <1>4, <2>1 DEF Agrees
  <1> QED BY <1>1, <1>4, <1>5, <1>6, <1>7

\* A call that stays where it is may still rely on what it read.
LEMMA HandlerKept ==
  ASSUME RecordTypeOK, LedgerInv, Grows,
         NEW h \in Handler, task'[h] = task[h], HandlerInv(h)
  PROVE  HandlerInv(h)'
  <1>0. PICK t \in Task : t = task[h]
    BY DEF RecordTypeOK
  <1>1. t \in Task /\ t = task'[h]
    BY <1>0
  <1>2. TaskInv(t)
    BY <1>0 DEF HandlerInv
  <1> /\ DOMAIN intents \subseteq DOMAIN intents'
      /\ DOMAIN admissions \subseteq DOMAIN admissions'
      /\ DOMAIN decisions \subseteq DOMAIN decisions'
    BY DEF Grows, Extends
  <1>3. StepsOf(t)' /\ Revises(t)' /\ Admitting(t)'
    BY <1>1, <1>2 DEF TaskInv, StepsOf, Revises, Admitting
  <1>4. \A k \in DOMAIN admissions : admissions'[k] = admissions[k]
    BY DEF Grows, Extends
  <1>5. Projected(t)'
    BY <1>1, <1>2, <1>4 DEF TaskInv, Projected
  <1>6. Requesting(t)'
    BY <1>1, <1>2, <1>4 DEF TaskInv, Requesting
  <1>7. Answering(t)'
    BY <1>1, <1>2, ReferencesKept DEF TaskInv, Answering, Task, StepsOf
  <1>8. ASSUME NEW d, IsApproval(d) PROVE IsApproval(d)'
    BY <1>8 DEF IsApproval, Grows, Extends
  <1>9. Binding(t)'
    BY <1>1, <1>2, <1>8 DEF TaskInv, Binding
  <1> QED
    BY <1>1, <1>3, <1>5, <1>6, <1>7, <1>9
       DEF HandlerInv, TaskInv, StepsOf, Projected, Revises, Admitting,
           Requesting, Answering, Binding

(***************************************************************************)
(* Readings.                                                               *)
(***************************************************************************)

\* A call whose own reading is sound leaves the invariant.
LEMMA ReadStep ==
  ASSUME RInv, UNCHANGED <<seat, profile, ledgers>>, NEW h \in Handler,
         NEW t \in Task, task' = [task EXCEPT ![h] = t], TaskInv(t)
  PROVE  RInv'
  <1> USE DEF RInv
  <1>1. RecordTypeOK'
    BY DEF RecordTypeOK, ledgers
  <1>2. LedgerInv'
    BY DEF LedgerInv, AdmissionsRefer, RequestsRefer, DecisionsRefer,
           BindingsRefer, CodeFollows, Agrees, AdmittedIntent, IsApproval, ledgers
  <1>3. Grows
    BY DEF Grows, Extends, ledgers
  <1>4. task'[h] = t /\ \A g \in Handler \ {h} : task'[g] = task[g]
    BY DEF RecordTypeOK
  <1>5. HandlerInv(h)'
    BY <1>4 DEF HandlerInv, TaskInv, StepsOf, Projected, Revises, Admitting,
                Requesting, Answering, Binding, CodeFollows, Agrees,
                AdmittedIntent, IsApproval, ledgers
  <1>6. ASSUME NEW g \in Handler, g # h PROVE HandlerInv(g)'
    BY <1>3, <1>4, <1>6, HandlerKept
  <1> QED BY <1>1, <1>2, <1>5, <1>6

\* A call that returns relies on nothing.
LEMMA IdleSound == Idle \in Task /\ TaskInv(Idle)
  BY DEF Idle, Task, Operation, Step, TaskInv, StepsOf, Projected, Revises,
         Admitting, Requesting, Answering, Binding

\* A reading that raises.
LEMMA FinishStep ==
  ASSUME RInv, UNCHANGED <<seat, profile, ledgers>>, NEW h \in Handler, Finish(h)
  PROVE  RInv'
  BY ReadStep, IdleSound DEF Finish

\* Calls begin, up to the first record they read.
LEMMA BeginStep ==
  ASSUME RInv, NEW h \in Handler,
         Edit(h) \/ Accept(h) \/ Revoke(h) \/ Admit(h)
  PROVE  RInv'
  <1> RecordTypeOK
    BY DEF RInv
  <1> /\ Len(notes) \in Nat /\ Len(notes) + 1 \in Nat
      /\ Len(intents) \in Nat /\ Len(intents) + 1 \in Nat
      /\ profile[seat[h]] \in Profile
    BY DEF RecordTypeOK
  <1>1. CASE Edit(h)
    <2> DEFINE t == [Idle EXCEPT !.op = "edit", !.step = "append",
                                 !.at = Len(notes) + 1]
    <2>1. task' = [task EXCEPT ![h] = t]
      BY <1>1 DEF Edit, Free, RecordTypeOK
    <2>2. t \in Task
      BY IdleSound DEF Task, Operation, Step
    <2>3. t.op = "edit" /\ t.step = "append"
      BY DEF Idle
    <2> HIDE DEF t
    <2>4. TaskInv(t)
      BY <2>3 DEF TaskInv, StepsOf, Projected, Revises, Admitting,
         Requesting, Answering, Binding
    <2> QED BY <1>1, <2>1, <2>2, <2>4, ReadStep DEF Edit
  <1>2. CASE Accept(h)
    <2> DEFINE t == [Idle EXCEPT !.op = "accept", !.step = "chain",
                                 !.note = Len(notes)]
    <2>1. task' = [task EXCEPT ![h] = t]
      BY <1>2 DEF Accept, Free, RecordTypeOK
    <2>2. t \in Task
      BY IdleSound DEF Task, Operation, Step
    <2>3. t.op = "accept" /\ t.step = "chain"
      BY DEF Idle
    <2> HIDE DEF t
    <2>4. TaskInv(t)
      BY <2>3 DEF TaskInv, StepsOf, Projected, Revises, Admitting,
         Requesting, Answering, Binding
    <2> QED BY <1>2, <2>1, <2>2, <2>4, ReadStep DEF Accept
  <1>3. CASE Revoke(h)
    <2> DEFINE t == [Idle EXCEPT !.op = "revoke", !.step = "append",
                                 !.at = Len(intents) + 1]
    <2>1. Len(intents) \in DOMAIN intents /\ Len(intents) + 1 - 1 = Len(intents)
      BY <1>3 DEF Revoke, RecordTypeOK
    <2>2. task' = [task EXCEPT ![h] = t]
      BY <1>3 DEF Revoke, Free, RecordTypeOK
    <2>3. t \in Task
      BY <2>1, IdleSound DEF Task, Operation, Step
    <2>4. t.op = "revoke" /\ t.step = "append" /\ t.at = Len(intents) + 1
      BY DEF Idle
    <2> HIDE DEF t
    <2>5. TaskInv(t)
      BY <2>1, <2>4 DEF TaskInv, StepsOf, Projected, Revises, Admitting,
         Requesting, Answering, Binding
    <2> QED BY <1>3, <2>2, <2>3, <2>5, ReadStep DEF Revoke
  <1>4. CASE Admit(h)
    <2> DEFINE a == AllowRequest(profile[seat[h]])
               t == [Idle EXCEPT !.op = "admit", !.step = "append",
                                 !.intent = Len(intents), !.admitted = a]
    <2>1. Len(intents) \in DOMAIN intents
      BY <1>4 DEF Admit, Projectable, RecordTypeOK
    <2>2. a \in BOOLEAN
      BY DEF AllowRequest
    <2>3. task' = [task EXCEPT ![h] = t]
      BY <1>4 DEF Admit, Free, RecordTypeOK
    <2> HIDE DEF a
    <2>4. t \in Task
      BY <2>1, <2>2, IdleSound DEF Task, Operation, Step
    <2>5. t.op = "admit" /\ t.step = "append" /\ t.intent = Len(intents)
      BY DEF Idle
    <2> HIDE DEF t
    <2>6. TaskInv(t)
      BY <2>1, <2>2, <2>5 DEF TaskInv, StepsOf, Projected, Revises, Admitting,
         Requesting, Answering, Binding
    <2> QED BY <1>4, <2>3, <2>4, <2>6, ReadStep DEF Admit
  <1> QED BY <1>1, <1>2, <1>3, <1>4

\* The last decision of the latest request is a row of the ledger.
LEMMA LastDecisionRow ==
  ASSUME RecordTypeOK, LastDecision # 0
  PROVE  LastDecision \in DOMAIN decisions
  <1> DEFINE r == Len(requests)
  <1>1. LastDecision = LatestDecision(r) /\ DecisionsOn(r) # {}
    BY DEF LastDecision, LatestDecision
  <1>2. DecisionsOn(r) \in SUBSET DOMAIN decisions
    BY DEF DecisionsOn
  <1>3. decisions \in Seq(DecisionRow)
    BY DEF RecordTypeOK
  <1> HIDE DEF r
  <1>4. Latest(DecisionsOn(r)) \in DecisionsOn(r)
    BY <1>1, <1>2, <1>3, LatestRow
  <1> QED BY <1>1, <1>2, <1>4 DEF LatestDecision

\* Calls that read other records begin.
LEMMA ReadinessBegins ==
  ASSUME RInv, NEW h \in Handler, Request(h) \/ Decide(h) \/ Bind(h)
  PROVE  RInv'
  <1> RecordTypeOK
    BY DEF RInv
  <1> Len(requests) \in Nat /\ Len(intents) \in Nat
    BY DEF RecordTypeOK
  <1>1. CASE Request(h)
    <2> DEFINE t == [Idle EXCEPT !.op = "request", !.step = "match",
                                 !.intent = Len(intents)]
    <2>1. Len(intents) \in DOMAIN intents
      BY <1>1 DEF Request, Projectable, RecordTypeOK
    <2>2. task' = [task EXCEPT ![h] = t]
      BY <1>1 DEF Request, Free, RecordTypeOK
    <2>3. t \in Task
      BY IdleSound, <2>1 DEF Task, Operation, Step
    <2>4. t.op = "request" /\ t.step = "match" /\ t.intent = Len(intents)
      BY DEF Idle
    <2> HIDE DEF t
    <2>5. TaskInv(t)
      BY <2>1, <2>4 DEF TaskInv, StepsOf, Projected, Revises, Admitting,
         Requesting, Answering, Binding
    <2> QED BY <1>1, <2>2, <2>3, <2>5, ReadStep DEF Request
  <1>2. CASE Decide(h)
    <2> DEFINE t == [Idle EXCEPT !.op = "decide", !.step = "project",
                                 !.request = Len(requests)]
    <2>1. Len(requests) \in DOMAIN requests
      BY <1>2 DEF Decide, RecordTypeOK
    <2>2. task' = [task EXCEPT ![h] = t]
      BY <1>2 DEF Decide, Free, RecordTypeOK
    <2>3. t \in Task
      BY IdleSound, <2>1 DEF Task, Operation, Step
    <2>4. t.op = "decide" /\ t.step = "project" /\ t.request = Len(requests)
      BY DEF Idle
    <2> HIDE DEF t
    <2>5. TaskInv(t)
      BY <2>1, <2>4 DEF TaskInv, StepsOf, Projected, Revises, Admitting,
         Requesting, Answering, Binding
    <2> QED BY <1>2, <2>2, <2>3, <2>5, ReadStep DEF Decide
  <1>3. CASE Bind(h)
    <2> DEFINE t == [Idle EXCEPT !.op = "bind", !.step = "latest",
                                 !.decision = LastDecision]
    <2>1. LastDecision \in DOMAIN decisions
      BY <1>3, LastDecisionRow DEF Bind
    <2>2. LastDecision \in Nat
      BY <2>1 DEF RecordTypeOK
    <2>3. task' = [task EXCEPT ![h] = t]
      BY <1>3 DEF Bind, Free, RecordTypeOK
    <2>4. t \in Task
      BY IdleSound, <2>1, <2>2 DEF Task, Operation, Step
    <2>5. t.op = "bind" /\ t.step = "latest" /\ t.decision = LastDecision
      BY DEF Idle
    <2> HIDE DEF t
    <2>6. TaskInv(t)
      BY <2>1, <2>2, <2>5 DEF TaskInv, StepsOf, Projected, Revises, Admitting,
         Requesting, Answering, Binding
    <2> QED BY <1>3, <2>3, <2>4, <2>6, ReadStep DEF Bind
  <1> QED BY <1>1, <1>2, <1>3

\* Readings outside the readiness of another service.
LEMMA OwnReadings ==
  ASSUME RInv, NEW h \in Handler,
         ReadChain(h) \/ ReadCode(h) \/ ReadAgain(h) \/ ReadBinding(h)
           \/ ReadApproval(h)
  PROVE  RInv'
  <1> RecordTypeOK /\ LedgerInv
    BY DEF RInv
  <1> PICK u \in Task : u = task[h]
    BY DEF RecordTypeOK
  <1>1. u \in Task /\ u = task[h] /\ TaskInv(u)
    BY DEF RInv, HandlerInv
  <1> /\ 1 \in 0..1
      /\ Len(intents) \in Nat /\ Len(intents) + 1 \in Nat
      /\ Cardinality(DecisionsOn(u.request)) \in Nat
    BY DecisionsCounted DEF RecordTypeOK
  <1>2. CASE ReadChain(h)
    <2>1. CASE ~(IntentsReadable)
      BY <1>2, <2>1, FinishStep DEF ReadChain, Read
    <2>2. CASE IntentsReadable
      <3> DEFINE t == [u EXCEPT !.step = "append", !.at = Len(intents) + 1]
      <3>1. u.op = "accept"
        BY <1>1, <1>2, <2>2 DEF ReadChain, TaskInv, StepsOf
      <3>2. task' = [task EXCEPT ![h] = t]
        BY <1>2, <2>2 DEF ReadChain, Read, RecordTypeOK
      <3>3. t \in Task
        BY <1>1, <3>1 DEF Task, Operation, Step
      <3>4. t.op = u.op /\ t.step = "append"
        BY <1>1 DEF Task
      <3> HIDE DEF t
      <3>5. TaskInv(t)
        BY <1>1, <3>1, <3>4 DEF TaskInv, StepsOf, Projected, Revises, Admitting,
           Requesting, Answering, Binding
      <3> QED BY <1>2, <2>2, <3>2, <3>3, <3>5, ReadStep DEF ReadChain, Read
    <2> QED BY <2>1, <2>2
  <1>3. CASE ReadCode(h)
    <2>1. CASE ~(Projectable)
      BY <1>3, <2>1, FinishStep DEF ReadCode, Read
    <2>2. CASE Projectable
      <3> DEFINE t == [u EXCEPT !.step = "append", !.intent = Len(intents)]
      <3>1. u.op = "request" /\ u.step = "code" /\ u.admission \in DOMAIN admissions
        BY <1>1, <1>3, <2>2 DEF ReadCode, TaskInv, StepsOf, Requesting
      <3>2. Len(intents) \in DOMAIN intents
        BY <1>3, <2>2 DEF Projectable, RecordTypeOK
      <3>3. admissions[u.admission].intent <= Len(intents)
        BY <3>1 DEF LedgerInv, AdmissionsRefer, RecordTypeOK
      <3>4. task' = [task EXCEPT ![h] = t]
        BY <1>3, <2>2 DEF ReadCode, Read, RecordTypeOK
      <3>5. t \in Task
        BY <1>1, <3>1, <3>2, <3>3 DEF Task, Operation, Step
      <3>6. /\ t.op = u.op /\ t.step = "append"
            /\ t.admission = u.admission /\ t.intent = Len(intents)
        BY <1>1 DEF Task
      <3> HIDE DEF t
      <3>7. TaskInv(t)
        BY <1>1, <3>1, <3>2, <3>3, <3>6 DEF TaskInv, StepsOf, Projected, Revises, Admitting,
           Requesting, Answering, Binding
      <3> QED BY <1>3, <2>2, <3>4, <3>5, <3>7, ReadStep DEF ReadCode, Read
    <2> QED BY <2>1, <2>2
  <1>4. CASE ReadAgain(h)
    <2>1. CASE ~(Len(requests) = u.request /\ ChainReadable(u.request))
      BY <1>4, <2>1, FinishStep DEF ReadAgain, Read
    <2>2. CASE Len(requests) = u.request /\ ChainReadable(u.request)
      <3> DEFINE t == [u EXCEPT !.step = "append",
                          !.at = Cardinality(DecisionsOn(u.request))]
      <3>1. u.op = "decide" /\ u.step = "again"
        BY <1>1, <1>4, <2>2 DEF ReadAgain, TaskInv, StepsOf
      <3>2. task' = [task EXCEPT ![h] = t]
        BY <1>4, <2>2 DEF ReadAgain, Read, RecordTypeOK
      <3>3. t \in Task
        BY <1>1, <3>1 DEF Task, Operation, Step
      <3>4. t.op = u.op /\ t.step = "append" /\ t.request = u.request
        BY <1>1 DEF Task
      <3> HIDE DEF t
      <3>5. TaskInv(t)
        BY <1>1, <3>1, <3>4 DEF TaskInv, StepsOf, Projected, Revises, Admitting,
           Requesting, Answering, Binding
      <3> QED BY <1>4, <2>2, <3>2, <3>3, <3>5, ReadStep DEF ReadAgain, Read
    <2> QED BY <2>1, <2>2
  <1>5. CASE ReadBinding(h)
    <2>1. CASE ~(BindingsOf(u.decision) = {})
      BY <1>5, <2>1, FinishStep DEF ReadBinding, Read
    <2>2. CASE BindingsOf(u.decision) = {}
      <3> DEFINE t == [u EXCEPT !.step = "approval", !.decision = 0]
      <3>1. u.op = "bind"
        BY <1>1, <1>5, <2>2 DEF ReadBinding, TaskInv, StepsOf
      <3>2. task' = [task EXCEPT ![h] = t]
        BY <1>5, <2>2 DEF ReadBinding, Read, RecordTypeOK
      <3>3. t \in Task
        BY <1>1, <3>1 DEF Task, Operation, Step
      <3>4. t.op = u.op /\ t.step = "approval"
        BY <1>1 DEF Task
      <3> HIDE DEF t
      <3>5. TaskInv(t)
        BY <1>1, <3>1, <3>4 DEF TaskInv, StepsOf, Projected, Revises, Admitting,
           Requesting, Answering, Binding
      <3> QED BY <1>5, <2>2, <3>2, <3>3, <3>5, ReadStep DEF ReadBinding, Read
    <2> QED BY <2>1, <2>2
  <1>6. CASE ReadApproval(h)
    <2>1. CASE ~(LastDecision # 0 /\ ChainReadable(Len(requests)))
      BY <1>6, <2>1, FinishStep DEF ReadApproval, Read
    <2>2. CASE LastDecision # 0 /\ ChainReadable(Len(requests))
      <3> DEFINE t == [u EXCEPT !.step = "latest", !.round = 1,
                          !.decision = LastDecision]
      <3>1. u.op = "bind"
        BY <1>1, <1>6, <2>2 DEF ReadApproval, TaskInv, StepsOf
      <3>2. LastDecision \in DOMAIN decisions
        BY <1>6, <2>2, LastDecisionRow
      <3>3. LastDecision \in Nat
        BY <3>2 DEF RecordTypeOK
      <3>4. task' = [task EXCEPT ![h] = t]
        BY <1>6, <2>2 DEF ReadApproval, Read, RecordTypeOK
      <3>5. t \in Task
        BY <1>1, <3>1, <3>2, <3>3 DEF Task, Operation, Step
      <3>6. t.op = u.op /\ t.step = "latest" /\ t.decision = LastDecision
        BY <1>1 DEF Task
      <3> HIDE DEF t
      <3>7. TaskInv(t)
        BY <1>1, <3>1, <3>2, <3>3, <3>6 DEF TaskInv, StepsOf, Projected, Revises, Admitting,
           Requesting, Answering, Binding
      <3> QED BY <1>6, <2>2, <3>4, <3>5, <3>7, ReadStep DEF ReadApproval, Read
    <2> QED BY <2>1, <2>2
  <1> QED BY <1>2, <1>3, <1>4, <1>5, <1>6

\* The readings of another service's readiness.
LEMMA ReadinessReadings ==
  ASSUME RInv, NEW h \in Handler,
         ReadLatest(h) \/ ReadProjection(h) \/ ReadAdmission(h) \/ ReadExisting(h)
           \/ ReadDecisions(h)
  PROVE  RInv'
  <1> RecordTypeOK /\ LedgerInv
    BY DEF RInv
  <1> PICK u \in Task : u = task[h]
    BY DEF RecordTypeOK
  <1>1. u \in Task /\ u = task[h] /\ TaskInv(u)
    BY DEF RInv, HandlerInv
  <1> DEFINE p == profile[seat[h]]
  <1> Len(intents) \in Nat /\ Len(requests) \in Nat
    BY DEF RecordTypeOK
  <1>2. CASE ReadLatest(h)
    <2>1. CASE ~(requests # <<>>)
      BY <1>2, <2>1, FinishStep DEF ReadLatest, Read
    <2>2. CASE requests # <<>>
      <3> DEFINE t == [u EXCEPT !.step = "project", !.request = Len(requests)]
      <3>1. u.op = "bind" /\ u.decision \in DOMAIN decisions
        BY <1>1, <1>2, <2>2 DEF ReadLatest, TaskInv, StepsOf, Binding
      <3>2. Len(requests) \in DOMAIN requests
        BY <1>2, <2>2 DEF RecordTypeOK
      <3>3. task' = [task EXCEPT ![h] = t]
        BY <1>2, <2>2 DEF ReadLatest, Read, RecordTypeOK
      <3>4. t \in Task
        BY <1>1, <3>1, <3>2 DEF Task, Operation, Step
      <3>5. /\ t.op = u.op /\ t.step = "project"
            /\ t.request = Len(requests) /\ t.decision = u.decision
        BY <1>1 DEF Task
      <3> HIDE DEF t
      <3>6. TaskInv(t)
        BY <1>1, <3>1, <3>2, <3>5 DEF TaskInv, StepsOf, Projected, Revises, Admitting,
           Requesting, Answering, Binding
      <3> QED BY <1>2, <2>2, <3>3, <3>4, <3>6, ReadStep DEF ReadLatest, Read
    <2> QED BY <2>1, <2>2
  <1>3. CASE ReadProjection(h)
    <2>1. CASE ~(Projectable /\ AllowRequest(p))
      BY <1>3, <2>1, FinishStep DEF ReadProjection, Read
    <2>2. CASE Projectable /\ AllowRequest(p)
      <3> DEFINE t == [u EXCEPT !.step = "match", !.intent = Len(intents)]
      <3>1. /\ u.op \in {"decide", "bind"} /\ u.request \in DOMAIN requests
            /\ u.op = "bind" => u.decision \in DOMAIN decisions
        BY <1>1, <1>3, <2>2 DEF ReadProjection, TaskInv, StepsOf, Answering, Binding
      <3>2. Len(intents) \in DOMAIN intents
        BY <1>3, <2>2 DEF Projectable, RecordTypeOK
      <3>3. CodeFollows(u.request, Len(intents))
        BY <3>1 DEF LedgerInv, RequestsRefer
      <3>4. task' = [task EXCEPT ![h] = t]
        BY <1>3, <2>2 DEF ReadProjection, Read, RecordTypeOK
      <3>5. t \in Task
        BY <1>1, <3>1, <3>2, <3>3 DEF Task, Operation, Step
      <3>6. /\ t.op = u.op /\ t.step = "match" /\ t.request = u.request
            /\ t.intent = Len(intents) /\ t.decision = u.decision
        BY <1>1 DEF Task
      <3> HIDE DEF t
      <3>7. TaskInv(t)
        BY <1>1, <3>1, <3>2, <3>3, <3>6 DEF TaskInv, StepsOf, Projected, Revises, Admitting,
           Requesting, Answering, Binding
      <3> QED BY <1>3, <2>2, <3>4, <3>5, <3>7, ReadStep DEF ReadProjection, Read
    <2> QED BY <2>1, <2>2
  <1>4. CASE ReadAdmission(h)
    <2>1. CASE ~(Matching(u.intent, p) # {})
      BY <1>4, <2>1, FinishStep DEF ReadAdmission, Read
    <2>2. CASE Matching(u.intent, p) # {}
      <3> DEFINE m == Matching(u.intent, p)
             t == [u EXCEPT !.step = "existing", !.admission = Latest(m)]
      <3>1. u.step = "match" /\ u.op \in {"request", "decide", "bind"}
        BY <1>1, <1>4, <2>2 DEF ReadAdmission, TaskInv, StepsOf
      <3>2. Latest(m) \in m
        BY <1>4, <2>2, LatestRow DEF Matching, RecordTypeOK
      <3>3. /\ Latest(m) \in DOMAIN admissions /\ Latest(m) \in Nat
            /\ admissions[Latest(m)].intent = u.intent
        BY <3>2 DEF Matching, RecordTypeOK
      <3>4. task' = [task EXCEPT ![h] = t]
        BY <1>4, <2>2 DEF ReadAdmission, Read, RecordTypeOK
      <3>5. t \in Task
        BY <1>1, <3>1, <3>2, <3>3 DEF Task, Operation, Step
      <3>6. /\ t.op = u.op /\ t.step = "existing" /\ t.admission = Latest(m)
            /\ t.intent = u.intent /\ t.request = u.request
            /\ t.decision = u.decision
        BY <1>1 DEF Task
      <3> HIDE DEF t
      <3>7. TaskInv(t)
        BY <1>1, <3>1, <3>2, <3>3, <3>6 DEF TaskInv, StepsOf, Projected, Revises, Admitting,
           Requesting, Answering, Binding
      <3> QED BY <1>4, <2>2, <3>4, <3>5, <3>7, ReadStep DEF ReadAdmission, Read
    <2> QED BY <2>1, <2>2
  <1>5. CASE ReadExisting(h)
    <2> DEFINE e == RequestsFor(u.admission)
    <2>1. /\ u.step = "existing" /\ u.op \in {"request", "decide", "bind"}
          /\ u.admission \in DOMAIN admissions /\ u.intent \in DOMAIN intents
          /\ admissions[u.admission].intent = u.intent
      BY <1>1, <1>5 DEF ReadExisting, TaskInv, StepsOf, Projected
    <2>2. CASE u.op = "request" /\ e = {}
      <3> DEFINE t == [u EXCEPT !.step = "code", !.intent = 0]
      <3>1. task' = [task EXCEPT ![h] = t]
        BY <1>5, <2>2 DEF ReadExisting, Read, RecordTypeOK
      <3>2. t \in Task
        BY <1>1 DEF Task, Step
      <3>3. t.op = u.op /\ t.step = "code" /\ t.admission = u.admission
        BY <1>1 DEF Task
      <3> HIDE DEF t
      <3>4. TaskInv(t)
        BY <2>1, <2>2, <3>3 DEF TaskInv, StepsOf, Projected, Revises, Admitting,
             Requesting, Answering, Binding
      <3> QED BY <1>5, <3>1, <3>2, <3>4, ReadStep DEF ReadExisting
    <2>3. CASE u.op # "request" /\ e = {u.request}
      <3> DEFINE t == [u EXCEPT !.step = "decisions", !.intent = 0, !.admission = 0]
      <3>1. task' = [task EXCEPT ![h] = t]
        BY <1>5, <2>3 DEF ReadExisting, Read, RecordTypeOK
      <3>2. t \in Task
        BY <1>1 DEF Task, Step
      <3>3. /\ t.op = u.op /\ t.step = "decisions" /\ t.request = u.request
            /\ t.decision = u.decision
        BY <1>1 DEF Task
      <3>4. /\ u.op \in {"decide", "bind"} /\ CodeFollows(u.request, u.intent)
            /\ u.op = "bind" => u.decision \in DOMAIN decisions
        BY <1>1, <2>1, <2>3 DEF TaskInv, Answering, Binding
      <3>5. u.request \in DOMAIN requests /\ AdmittedIntent(u.request) = u.intent
        BY <2>1, <2>3 DEF RequestsFor, AdmittedIntent
      <3>6. Agrees(u.request)
        <4>1. PICK j \in DOMAIN intents :
                /\ AdmittedIntent(u.request) <= j /\ j <= u.intent
                /\ requests[u.request].code = intents[j].code
          BY <3>4 DEF CodeFollows
        <4>2. j = u.intent
          BY <1>1, <3>5, <4>1 DEF Task, RecordTypeOK
        <4> QED BY <3>5, <4>1, <4>2 DEF Agrees
      <3> HIDE DEF t
      <3>7. TaskInv(t)
        BY <3>3, <3>4, <3>5, <3>6 DEF TaskInv, StepsOf, Projected, Revises,
             Admitting, Requesting, Answering, Binding
      <3> QED BY <1>5, <3>1, <3>2, <3>7, ReadStep DEF ReadExisting
    <2>4. CASE ~(u.op = "request" /\ e = {}) /\ ~(u.op # "request" /\ e = {u.request})
      BY <1>5, <2>4, FinishStep DEF ReadExisting, Read
    <2> QED BY <2>2, <2>3, <2>4
  <1>6. CASE ReadDecisions(h)
    <2> DEFINE open == ChainReadable(u.request) /\ ~Resolved(u.request)
               approved == /\ ChainReadable(u.request) /\ Resolved(u.request)
                           /\ decisions[LatestDecision(u.request)].kind = "approve"
                           /\ decisions[u.decision].kind = "approve"
    <2>1. /\ u.step = "decisions" /\ u.request \in DOMAIN requests
          /\ u.op = "decide" => Agrees(u.request)
          /\ u.op = "bind" => u.decision \in DOMAIN decisions
      BY <1>1, <1>6 DEF ReadDecisions, TaskInv, Answering, Binding
    <2>2. CASE u.op = "decide" /\ open
      <3> DEFINE t == [u EXCEPT !.step = "again"]
      <3>1. task' = [task EXCEPT ![h] = t]
        BY <1>6, <2>2 DEF ReadDecisions, Read, RecordTypeOK
      <3>2. t \in Task
        BY <1>1 DEF Task, Step
      <3>3. t.op = u.op /\ t.step = "again" /\ t.request = u.request
        BY <1>1 DEF Task
      <3> HIDE DEF t
      <3>4. TaskInv(t)
        BY <2>1, <2>2, <3>3 DEF TaskInv, StepsOf, Projected, Revises, Admitting,
             Requesting, Answering, Binding
      <3> QED BY <1>6, <3>1, <3>2, <3>4, ReadStep DEF ReadDecisions
    <2>3. CASE u.op = "bind" /\ approved
      <3> DEFINE n == IF u.round = 0 THEN "chosen" ELSE "append"
                 t == [u EXCEPT !.request = 0, !.step = n]
      <3>1. task' = [task EXCEPT ![h] = t]
        BY <1>6, <2>3 DEF ReadDecisions, Read, RecordTypeOK
      <3>2. n \in {"chosen", "append"}
        OBVIOUS
      <3> HIDE DEF n
      <3>3. t \in Task
        BY <1>1, <3>2 DEF Task, Step
      <3>4. t.op = u.op /\ t.step = n /\ t.decision = u.decision
        BY <1>1 DEF Task
      <3>5. IsApproval(u.decision)
        BY <2>1, <2>3 DEF IsApproval
      <3> HIDE DEF t
      <3>6. TaskInv(t)
        BY <2>1, <2>3, <3>2, <3>4, <3>5 DEF TaskInv, StepsOf, Projected, Revises,
             Admitting, Requesting, Answering, Binding
      <3> QED BY <1>6, <3>1, <3>3, <3>6, ReadStep DEF ReadDecisions
    <2>4. CASE ~(u.op = "decide" /\ open) /\ ~(u.op = "bind" /\ approved)
      BY <1>6, <2>4, FinishStep DEF ReadDecisions, Read
    <2> QED BY <2>2, <2>3, <2>4
  <1> QED BY <1>2, <1>3, <1>4, <1>5, <1>6

(***************************************************************************)
(* Appends.                                                                *)
(***************************************************************************)

\* Every row keeps what it refers to, whatever is appended.
LEMMA LedgerKept ==
  ASSUME RecordTypeOK, RecordTypeOK', LedgerInv, Grows,
         Extends(bindings, bindings')
  PROVE  /\ \A k \in DOMAIN admissions : (admissions[k].intent \in DOMAIN intents)'
         /\ \A r \in DOMAIN requests :
              (requests[r].admission \in DOMAIN admissions
                 /\ CodeFollows(r, Len(intents)))'
         /\ \A d \in DOMAIN decisions :
              (decisions[d].request \in DOMAIN requests
                 /\ Agrees(decisions[d].request))'
         /\ \A b \in DOMAIN bindings : IsApproval(bindings[b].decision)'
  <1>1. ASSUME NEW k \in DOMAIN admissions
        PROVE  (admissions[k].intent \in DOMAIN intents)'
    BY DEF LedgerInv, AdmissionsRefer, Grows, Extends
  <1>2. Len(intents) \in Nat /\ Len(intents') \in Nat /\ Len(intents) <= Len(intents')
    <2>1. intents \in Seq(IntentRow) /\ intents' \in Seq(IntentRow)
      BY DEF RecordTypeOK
    <2>2. DOMAIN intents = 1..Len(intents) /\ DOMAIN intents' = 1..Len(intents')
      BY <2>1
    <2>3. 1..Len(intents) \subseteq 1..Len(intents')
      BY <2>2 DEF Grows, Extends
    <2>4. Len(intents) # 0 => Len(intents) \in 1..Len(intents')
      BY <2>1, <2>3
    <2> QED BY <2>1, <2>4
  <1>3. ASSUME NEW r \in DOMAIN requests
        PROVE  (requests[r].admission \in DOMAIN admissions
                  /\ CodeFollows(r, Len(intents)))'
    <2>1. requests[r].admission \in DOMAIN admissions /\ CodeFollows(r, Len(intents))
      BY DEF LedgerInv, RequestsRefer
    <2>2. (requests[r].admission \in DOMAIN admissions)'
      BY <2>1 DEF Grows, Extends
    <2>3. PICK j \in DOMAIN intents :
            /\ AdmittedIntent(r) <= j /\ j <= Len(intents)
            /\ requests[r].code = intents[j].code
      BY <2>1 DEF CodeFollows
    <2>4. j \in DOMAIN intents' /\ intents'[j] = intents[j] /\ j \in Nat
      BY DEF Grows, Extends, RecordTypeOK
    <2>5. j <= Len(intents')
      BY <1>2, <2>3, <2>4
    <2>6. AdmittedIntent(r)' = AdmittedIntent(r) /\ requests'[r] = requests[r]
      BY ReferencesKept
    <2>7. CodeFollows(r, Len(intents))'
      BY <2>3, <2>4, <2>5, <2>6 DEF CodeFollows
    <2> QED BY <2>2, <2>7
  <1>4. ASSUME NEW d \in DOMAIN decisions
        PROVE  (decisions[d].request \in DOMAIN requests
                  /\ Agrees(decisions[d].request))'
    <2>1. decisions[d].request \in DOMAIN requests /\ Agrees(decisions[d].request)
      BY DEF LedgerInv, DecisionsRefer
    <2>2. decisions'[d] = decisions[d]
      BY DEF Grows, Extends
    <2>3. PICK r \in DOMAIN requests : r = decisions[d].request
      BY <2>1
    <2>4. Agrees(r)
      BY <2>1, <2>3
    <2>5. r \in DOMAIN requests' /\ Agrees(r)'
      BY <2>4, ReferencesKept
    <2> QED BY <2>2, <2>3, <2>5 DEF Agrees, AdmittedIntent
  <1>5. ASSUME NEW b \in DOMAIN bindings PROVE IsApproval(bindings[b].decision)'
    BY DEF LedgerInv, BindingsRefer, IsApproval, Grows, Extends
  <1> QED BY <1>1, <1>3, <1>4, <1>5

\* A call that returns when the ledgers have grown soundly.
LEMMA ReturnStep ==
  ASSUME RInv, Grows, NEW h \in Handler, Finish(h), LedgerInv', RecordTypeOK'
  PROVE  RInv'
  <1>1. task'[h] = Idle /\ \A g \in Handler \ {h} : task'[g] = task[g]
    BY DEF Finish, RInv, RecordTypeOK
  <1>2. HandlerInv(h)'
    BY <1>1 DEF HandlerInv, Idle, TaskInv, StepsOf, Projected, Revises, Admitting,
                Requesting, Answering, Binding
  <1>3. ASSUME NEW g \in Handler, g # h PROVE HandlerInv(g)'
    BY <1>1, <1>3, HandlerKept DEF RInv
  <1> QED BY <1>2, <1>3 DEF RInv

\* A row with its kind and place.
LEMMA NoteAppended ==
  ASSUME RInv, NEW h \in Handler, AppendNote(h), Finish(h), UNCHANGED <<seat, profile>>
  PROVE  RInv'
  <1> PICK t \in Task : t = task[h]
    BY DEF RInv, RecordTypeOK
  <1>1. PICK active \in BOOLEAN : notes' = Append(notes, [rev |-> t.at, active |-> active])
    BY DEF AppendNote
  <1>2. [rev |-> t.at, active |-> active] \in NoteRow
    BY DEF NoteRow, Task
  <1>3. notes' \in Seq(NoteRow)
    BY <1>1, <1>2 DEF RInv, RecordTypeOK
  <1>4. task' \in [Handler -> Task]
    BY IdleSound DEF Finish, RInv, RecordTypeOK
  <1>5. RecordTypeOK' /\ Grows
    BY <1>3, <1>4 DEF AppendNote, RInv, RecordTypeOK, Grows, Extends
  <1>6. LedgerInv'
    BY DEF AppendNote, RInv, LedgerInv, AdmissionsRefer, RequestsRefer,
           DecisionsRefer, BindingsRefer, CodeFollows, Agrees, AdmittedIntent,
           IsApproval
  <1> QED BY <1>5, <1>6, ReturnStep

\* An accepted revision, or a revocation of the one before it.
LEMMA IntentAppended ==
  ASSUME RInv, NEW h \in Handler, AppendAccepted(h) \/ AppendRevoked(h), Finish(h),
         UNCHANGED <<seat, profile>>
  PROVE  RInv'
  <1> PICK t \in Task : t = task[h]
    BY DEF RInv, RecordTypeOK
  <1> intents \in Seq(IntentRow)
    BY DEF RInv, RecordTypeOK
  <1>1. PICK x \in IntentRow : intents' = Append(intents, x)
    <2>1. CASE AppendAccepted(h)
      BY <2>1 DEF AppendAccepted, IntentRow, Task
    <2>2. CASE AppendRevoked(h)
      <3>1. t.at - 1 \in DOMAIN intents
        BY <2>2 DEF AppendRevoked, RInv, HandlerInv, TaskInv, Revises
      <3>2. intents[t.at - 1] \in IntentRow
        BY <3>1
      <3>3. [intents[t.at - 1] EXCEPT !.rev = t.at, !.active = FALSE] \in IntentRow
        BY <3>2 DEF IntentRow, Task
      <3> QED BY <2>2, <3>3 DEF AppendRevoked
    <2> QED BY <2>1, <2>2
  <1>2. intents' \in Seq(IntentRow) /\ Extends(intents, intents')
    BY <1>1, AppendExtends
  <1>3. UNCHANGED <<notes, admissions, requests, decisions, bindings>>
    BY DEF AppendAccepted, AppendRevoked
  <1>4. task' \in [Handler -> Task]
    BY IdleSound DEF Finish, RInv, RecordTypeOK
  <1>5. RecordTypeOK' /\ Grows /\ Extends(bindings, bindings')
    BY <1>2, <1>3, <1>4 DEF RInv, RecordTypeOK, Grows, Extends
  <1>6. LedgerInv'
    BY <1>3, <1>5, LedgerKept
       DEF RInv, LedgerInv, AdmissionsRefer, RequestsRefer, DecisionsRefer,
           BindingsRefer
  <1> QED BY <1>5, <1>6, ReturnStep

\* A receipt is about an intent revision that was read.
LEMMA AdmissionAppended ==
  ASSUME RInv, NEW h \in Handler, AppendAdmission(h), Finish(h),
         UNCHANGED <<seat, profile>>
  PROVE  RInv'
  <1> PICK t \in Task : t = task[h]
    BY DEF RInv, RecordTypeOK
  <1> admissions \in Seq(AdmissionRow)
    BY DEF RInv, RecordTypeOK
  <1>1. PICK x \in AdmissionRow : admissions' = Append(admissions, x)
                                    /\ x.intent \in DOMAIN intents
    <2> DEFINE x == [intent |-> t.intent, profile |-> profile[seat[h]],
                     admitted |-> t.admitted]
    <2>1. x \in AdmissionRow
      BY DEF AdmissionRow, Task, RInv, RecordTypeOK
    <2>2. t.intent \in DOMAIN intents
      BY DEF AppendAdmission, RInv, HandlerInv, TaskInv, Admitting
    <2> QED BY <2>1, <2>2 DEF AppendAdmission
  <1>2. /\ admissions' \in Seq(AdmissionRow) /\ Extends(admissions, admissions')
        /\ DOMAIN admissions' = DOMAIN admissions \union {Len(admissions) + 1}
        /\ admissions'[Len(admissions) + 1] = x
    BY <1>1, AppendExtends
  <1>3. UNCHANGED <<notes, intents, requests, decisions, bindings>>
    BY DEF AppendAdmission
  <1>4. task' \in [Handler -> Task]
    BY IdleSound DEF Finish, RInv, RecordTypeOK
  <1>5. RecordTypeOK' /\ Grows /\ Extends(bindings, bindings')
    BY <1>2, <1>3, <1>4 DEF RInv, RecordTypeOK, Grows, Extends
  <1>6. AdmissionsRefer'
    BY <1>1, <1>2, <1>3, <1>5, LedgerKept DEF RInv, AdmissionsRefer
  <1>7. LedgerInv'
    BY <1>3, <1>5, <1>6, LedgerKept
       DEF RInv, LedgerInv, RequestsRefer, DecisionsRefer, BindingsRefer
  <1> QED BY <1>5, <1>7, ReturnStep

\* A request carries the code of the revision read last.
LEMMA RequestAppended ==
  ASSUME RInv, NEW h \in Handler, AppendRequest(h), Finish(h), task[h].step = "append",
         UNCHANGED <<seat, profile>>
  PROVE  RInv'
  <1> PICK t \in Task : t = task[h]
    BY DEF RInv, RecordTypeOK
  <1> requests \in Seq(RequestRow) /\ intents \in Seq(IntentRow)
    BY DEF RInv, RecordTypeOK
  <1> DEFINE x == [admission |-> t.admission, code |-> intents[t.intent].code]
             n == Len(requests) + 1
  <1>1. /\ t.admission \in DOMAIN admissions /\ t.intent \in DOMAIN intents
        /\ admissions[t.admission].intent <= t.intent
    BY DEF AppendRequest, RInv, HandlerInv, TaskInv, Requesting
  <1>2. x \in RequestRow
    <2>1. intents[t.intent] \in IntentRow
      BY <1>1
    <2>2. t.admission \in Nat /\ intents[t.intent].code \in Code
      BY <2>1 DEF Task, IntentRow
    <2> QED BY <2>2 DEF RequestRow
  <1>3. requests' = Append(requests, x)
    BY DEF AppendRequest
  <1>4. /\ requests' \in Seq(RequestRow) /\ Extends(requests, requests')
        /\ DOMAIN requests' = DOMAIN requests \union {n} /\ requests'[n] = x
    <2> HIDE DEF x
    <2> QED BY <1>2, <1>3, AppendExtends
  <1>5. UNCHANGED <<notes, intents, admissions, decisions, bindings>>
    BY DEF AppendRequest
  <1>6. task' \in [Handler -> Task]
    BY IdleSound DEF Finish, RInv, RecordTypeOK
  <1>7. RecordTypeOK' /\ Grows /\ Extends(bindings, bindings')
    <2> HIDE DEF x, n
    <2> QED BY <1>4, <1>5, <1>6 DEF RInv, RecordTypeOK, Grows, Extends
  <1>8. t.intent <= Len(intents)
    BY <1>1
  <1>9. PICK m : m = n
    OBVIOUS
  <1>10. /\ requests'[m].admission = t.admission
         /\ requests'[m].code = intents[t.intent].code
    BY <1>4, <1>9
  <1> HIDE DEF x, n
  <1>11. CodeFollows(m, Len(intents))'
    BY <1>1, <1>5, <1>8, <1>10 DEF CodeFollows, AdmittedIntent
  <1>12. ASSUME NEW r \in DOMAIN requests'
         PROVE  (requests[r].admission \in DOMAIN admissions
                   /\ CodeFollows(r, Len(intents)))'
    <2>1. CASE r \in DOMAIN requests
      BY <1>7, <2>1, LedgerKept DEF RInv
    <2>2. CASE r = m
      BY <1>1, <1>5, <1>10, <1>11, <2>2
    <2> QED BY <1>4, <1>9, <2>1, <2>2
  <1>13. RequestsRefer'
    BY <1>12 DEF RequestsRefer
  <1>14. LedgerInv'
    BY <1>5, <1>7, <1>13, LedgerKept
       DEF RInv, LedgerInv, AdmissionsRefer, DecisionsRefer, BindingsRefer
  <1> QED BY <1>7, <1>14, ReturnStep

\* A decision is on a request that agrees with what was admitted.
LEMMA DecisionAppended ==
  ASSUME RInv, NEW h \in Handler, AppendDecision(h), Finish(h), task[h].step = "append",
         UNCHANGED <<seat, profile>>
  PROVE  RInv'
  <1> PICK t \in Task : t = task[h]
    BY DEF RInv, RecordTypeOK
  <1> decisions \in Seq(DecisionRow)
    BY DEF RInv, RecordTypeOK
  <1>1. t.request \in DOMAIN requests /\ Agrees(t.request)
    BY DEF AppendDecision, RInv, HandlerInv, TaskInv, Answering
  <1>2. PICK x \in DecisionRow :
          decisions' = Append(decisions, x) /\ x.request = t.request
    <2>1. PICK kind \in Decision :
            decisions' = Append(decisions, [request |-> t.request, seq |-> t.at,
                                            kind |-> kind])
      BY DEF AppendDecision
    <2>2. [request |-> t.request, seq |-> t.at, kind |-> kind] \in DecisionRow
      BY DEF DecisionRow, Task
    <2> QED BY <2>1, <2>2
  <1>3. /\ decisions' \in Seq(DecisionRow) /\ Extends(decisions, decisions')
        /\ DOMAIN decisions' = DOMAIN decisions \union {Len(decisions) + 1}
        /\ decisions'[Len(decisions) + 1] = x
    BY <1>2, AppendExtends
  <1>4. UNCHANGED <<notes, intents, admissions, requests, bindings>>
    BY DEF AppendDecision
  <1>5. task' \in [Handler -> Task]
    BY IdleSound DEF Finish, RInv, RecordTypeOK
  <1>6. RecordTypeOK' /\ Grows /\ Extends(bindings, bindings')
    BY <1>3, <1>4, <1>5 DEF RInv, RecordTypeOK, Grows, Extends
  <1>7. Agrees(t.request)'
    BY <1>1, <1>4 DEF Agrees, AdmittedIntent
  <1>8. ASSUME NEW d \in DOMAIN decisions'
        PROVE  (decisions[d].request \in DOMAIN requests
                  /\ Agrees(decisions[d].request))'
    <2>1. CASE d \in DOMAIN decisions
      BY <1>6, <2>1, LedgerKept DEF RInv
    <2>2. CASE decisions'[d] = x
      BY <1>1, <1>2, <1>4, <1>7, <2>2 DEF Agrees, AdmittedIntent
    <2> QED BY <1>3, <2>1, <2>2
  <1>9. DecisionsRefer'
    BY <1>8 DEF DecisionsRefer
  <1>10. LedgerInv'
    BY <1>4, <1>6, <1>9, LedgerKept
       DEF RInv, LedgerInv, AdmissionsRefer, RequestsRefer, BindingsRefer
  <1> QED BY <1>6, <1>10, ReturnStep

\* A binding is for an approval.
LEMMA BindingAppended ==
  ASSUME RInv, NEW h \in Handler, AppendBinding(h), Finish(h), task[h].step = "append",
         UNCHANGED <<seat, profile>>
  PROVE  RInv'
  <1> PICK t \in Task : t = task[h]
    BY DEF RInv, RecordTypeOK
  <1> bindings \in Seq(BindingRow)
    BY DEF RInv, RecordTypeOK
  <1>1. IsApproval(t.decision)
    BY DEF AppendBinding, RInv, HandlerInv, TaskInv, Binding
  <1>2. PICK x \in BindingRow :
          bindings' = Append(bindings, x) /\ x.decision = t.decision
    <2>1. [decision |-> t.decision] \in BindingRow
      BY DEF BindingRow, Task
    <2> QED BY <2>1 DEF AppendBinding
  <1>3. /\ bindings' \in Seq(BindingRow) /\ Extends(bindings, bindings')
        /\ DOMAIN bindings' = DOMAIN bindings \union {Len(bindings) + 1}
        /\ bindings'[Len(bindings) + 1] = x
    BY <1>2, AppendExtends
  <1>4. UNCHANGED <<notes, intents, admissions, requests, decisions>>
    BY DEF AppendBinding
  <1>5. task' \in [Handler -> Task]
    BY IdleSound DEF Finish, RInv, RecordTypeOK
  <1>6. RecordTypeOK' /\ Grows /\ Extends(bindings, bindings')
    BY <1>3, <1>4, <1>5 DEF RInv, RecordTypeOK, Grows, Extends
  <1>7. ASSUME NEW b \in DOMAIN bindings' PROVE IsApproval(bindings[b].decision)'
    <2>1. CASE b \in DOMAIN bindings
      BY <1>6, <2>1, LedgerKept DEF RInv
    <2>2. CASE bindings'[b] = x
      BY <1>1, <1>2, <1>4, <2>2 DEF IsApproval
    <2> QED BY <1>3, <2>1, <2>2
  <1>8. BindingsRefer'
    BY <1>7 DEF BindingsRefer
  <1>9. LedgerInv'
    BY <1>4, <1>6, <1>8, LedgerKept
       DEF RInv, LedgerInv, AdmissionsRefer, RequestsRefer, DecisionsRefer
  <1> QED BY <1>6, <1>9, ReturnStep

LEMMA AppendStep ==
  ASSUME RInv, NEW h \in Handler, AppendRow(h)
  PROVE  RInv'
  <1>1. Finish(h) /\ UNCHANGED <<seat, profile>> /\ task[h].step = "append"
    BY DEF AppendRow
  <1>2. CASE UNCHANGED ledgers
    BY <1>1, <1>2, FinishStep
  <1>3. CASE ~UNCHANGED ledgers
    BY <1>1, <1>3, NoteAppended, IntentAppended, AdmissionAppended, RequestAppended,
       DecisionAppended, BindingAppended
       DEF AppendRow
  <1> QED BY <1>2, <1>3

(***************************************************************************)
(* The theorems.                                                           *)
(***************************************************************************)

\* A restart forgets the calls of a console, and no row.
LEMMA RestartStep ==
  ASSUME RInv, NEW c \in Console, Restart(c)
  PROVE  RInv'
  <1>1. /\ \A h \in Handler : task'[h] = Idle \/ task'[h] = task[h]
        /\ task' \in [Handler -> Task]
    BY IdleSound DEF Restart, RInv, RecordTypeOK
  <1>2. profile' \in [Console -> Profile]
    BY DEF Restart, RInv, RecordTypeOK
  <1>3. RecordTypeOK'
    BY <1>1, <1>2 DEF Restart, RInv, RecordTypeOK, ledgers
  <1>4. LedgerInv' /\ Grows
    BY DEF Restart, RInv, LedgerInv, AdmissionsRefer, RequestsRefer, DecisionsRefer,
           BindingsRefer, CodeFollows, Agrees, AdmittedIntent, IsApproval, ledgers,
           Grows, Extends
  <1>5. ASSUME NEW h \in Handler PROVE HandlerInv(h)'
    <2>1. CASE task'[h] = Idle
      BY <2>1 DEF HandlerInv, Idle, TaskInv, StepsOf, Projected, Revises, Admitting,
                  Requesting, Answering, Binding
    <2>2. CASE task'[h] = task[h]
      BY <1>4, <2>2, HandlerKept DEF RInv
    <2> QED BY <1>1, <2>1, <2>2
  <1> QED BY <1>3, <1>4, <1>5 DEF RInv

\* Every step leaves the invariant.
LEMMA RNextStep ==
  ASSUME RInv, RNext
  PROVE  RInv'
  <1>1. ASSUME NEW h \in Handler, Serve(h) PROVE RInv'
    BY <1>1, BeginStep, ReadinessBegins, OwnReadings, ReadinessReadings, AppendStep
       DEF Serve
  <1>2. ASSUME NEW c \in Console, Restart(c) PROVE RInv'
    BY <1>2, RestartStep
  <1> QED BY <1>1, <1>2 DEF RNext

\* So does a stutter.
LEMMA RStutter ==
  ASSUME RInv, UNCHANGED rVars
  PROVE  RInv'
  BY DEF rVars, ledgers, RInv, RecordTypeOK, LedgerInv, AdmissionsRefer,
         RequestsRefer, DecisionsRefer, BindingsRefer, CodeFollows, Agrees,
         AdmittedIntent, IsApproval, HandlerInv, TaskInv, StepsOf, Projected,
         Revises, Admitting, Requesting, Answering, Binding

\* An inference begins with its operator note only.
LEMMA RInitInv ==
  ASSUME RInit
  PROVE  RInv
  <1>1. [rev |-> 1, active |-> TRUE] \in NoteRow
    BY DEF NoteRow
  <1>2. notes \in Seq(NoteRow)
    BY <1>1 DEF RInit
  <1>3. RecordTypeOK
    BY <1>2, IdleSound DEF RInit, RecordTypeOK
  <1>4. LedgerInv
    BY DEF RInit, LedgerInv, AdmissionsRefer, RequestsRefer, DecisionsRefer,
           BindingsRefer
  <1>5. \A h \in Handler : HandlerInv(h)
    BY IdleSound DEF RInit, HandlerInv
  <1> QED BY <1>3, <1>4, <1>5 DEF RInv

\* What each call relies on stays true.
LEMMA RInvHolds == RSpec => []RInv
  <1>1. RInit => RInv
    BY RInitInv
  <1>2. RInv /\ [RNext]_rVars => RInv'
    BY RNextStep, RStutter
  <1> QED BY <1>1, <1>2, PTL DEF RSpec

\* The record chain's type invariant: every row and every call of every console
\* has its shape.
THEOREM RecordTypeCorrect == RSpec => []RecordTypeOK
  <1>1. RInv => RecordTypeOK
    BY DEF RInv
  <1> QED BY <1>1, RInvHolds, PTL

\* A decision is only ever recorded on a request whose code is that of the
\* intent revision policy admitted, although the code is read again after the
\* receipt was matched.
THEOREM DecisionsAgreeHolds == RSpec => []DecisionsAgree
  <1>1. RInv => DecisionsAgree
    BY DEF RInv, LedgerInv, DecisionsRefer, Agrees, DecisionsAgree
  <1> QED BY <1>1, RInvHolds, PTL

\* An executable binding is for an approval, and the chain of its request never
\* reads as denied or as held, whatever else is appended to it.
THEOREM BindingStaysApprovedHolds == RSpec => []BindingStaysApproved
  <1>1. ASSUME RInv PROVE BindingStaysApproved
    <2>1. ASSUME NEW b \in DOMAIN bindings, NEW kind \in {"deny", "hold"},
                 ReadsAs(decisions[bindings[b].decision].request, kind)
          PROVE  FALSE
      <3> DEFINE d == bindings[b].decision
                 r == decisions[d].request
      <3>1. d \in DOMAIN decisions /\ decisions[d].kind = "approve"
        BY <1>1 DEF RInv, LedgerInv, BindingsRefer, IsApproval
      <3>2. d \in DecisionsOn(r)
        BY <3>1 DEF DecisionsOn
      <3>3. /\ \A e, f \in DecisionsOn(r) : e < f => decisions[e].kind \notin Resolving
            /\ decisions[LatestDecision(r)].kind = kind
        BY <2>1 DEF ReadsAs, ChainReadable
      <3>4. decisions \in Seq(DecisionRow) /\ DecisionsOn(r) \in SUBSET DOMAIN decisions
        BY <1>1 DEF RInv, RecordTypeOK, DecisionsOn
      <3> HIDE DEF d, r
      <3>5. /\ Latest(DecisionsOn(r)) \in DecisionsOn(r)
            /\ \A e \in DecisionsOn(r) : e <= Latest(DecisionsOn(r))
        BY <3>2, <3>4, LatestRow
      <3>6. LatestDecision(r) \in DecisionsOn(r) /\ d <= LatestDecision(r)
        BY <3>2, <3>5 DEF LatestDecision
      <3>7. d # LatestDecision(r)
        BY <3>1, <3>3
      <3>8. d \in Nat /\ LatestDecision(r) \in Nat
        BY <3>2, <3>4, <3>6
      <3>9. d < LatestDecision(r)
        BY <3>6, <3>7, <3>8
      <3> QED BY <3>1, <3>2, <3>3, <3>6, <3>9 DEF Resolving
    <2>2. \A b \in DOMAIN bindings : decisions[bindings[b].decision].kind = "approve"
      BY <1>1 DEF RInv, LedgerInv, BindingsRefer, IsApproval
    <2> QED BY <2>1, <2>2 DEF BindingStaysApproved
  <1> QED BY <1>1, RInvHolds, PTL

\* An approval that a console finds current is for the code that is accepted
\* then: the receipt it matches is that of the current revision, and a request's
\* code is that of its admitted revision or of a later one.
THEOREM ApprovalMatchesIntentHolds == RSpec => []ApprovalMatchesIntent
  <1>1. ASSUME RInv PROVE ApprovalMatchesIntent
    <2>1. ASSUME NEW c \in Console, Approved(c)
          PROVE  requests[Len(requests)].code = intents[Len(intents)].code
      <3> DEFINE r == Len(requests)
                 i == Len(intents)
                 matching == Matching(i, profile[c])
      <3>1. /\ r > 0 /\ matching # {} /\ RequestsFor(Latest(matching)) = {r}
        BY <2>1 DEF Approved
      <3>2. r \in DOMAIN requests /\ requests[r].admission = Latest(matching)
        BY <3>1 DEF RequestsFor
      <3>3. admissions \in Seq(AdmissionRow) /\ matching \in SUBSET DOMAIN admissions
        BY <1>1 DEF RInv, RecordTypeOK, Matching
      <3>4. Latest(matching) \in matching
        <4> HIDE DEF matching
        <4> QED BY <3>1, <3>3, LatestRow
      <3>5. AdmittedIntent(r) = i
        BY <3>2, <3>4 DEF AdmittedIntent, Matching
      <3>6. CodeFollows(r, i)
        BY <1>1, <3>2 DEF RInv, LedgerInv, RequestsRefer
      <3>7. PICK j \in DOMAIN intents :
              AdmittedIntent(r) <= j /\ j <= i /\ requests[r].code = intents[j].code
        BY <3>6 DEF CodeFollows
      <3>8. j = i
        BY <1>1, <3>5, <3>7 DEF RInv, RecordTypeOK
      <3> QED BY <3>7, <3>8
    <2> QED BY <2>1 DEF ApprovalMatchesIntent
  <1> QED BY <1>1, RInvHolds, PTL

(***************************************************************************)
(* One console: what its locks are worth.                                  *)
(***************************************************************************)

OneConsole == \A g, h \in Handler : seat[g] = seat[h]

\* The operations that one lock of a console keeps apart.
Locks == {NoteLock, IntentLock, {"request"}, {"decide"}, {"bind"}}

LocksHold ==
  \A ops \in Locks, g, h \in Handler :
    g # h /\ task[g].op \in ops => task[h].op \notin ops

ChainsSound ==
  /\ NotesReadable
  /\ \A i \in DOMAIN intents : intents[i].rev = i
  /\ \A q, r \in DOMAIN requests :
       requests[q].admission = requests[r].admission => q = r
  /\ \A r \in DOMAIN requests : ChainReadable(r)
  /\ \A a, b \in DOMAIN bindings :
       bindings[a].decision = bindings[b].decision => a = b

\* A binding call chooses its decision twice.  Whatever became the last decision
\* since it was first chosen is not bound yet.
Unbound(t) ==
  /\ t.step = "append" => t.round = 1
  /\ t.step \in {"chosen", "approval"} => t.round = 0
  /\ t.round = 1 => BindingsOf(t.decision) = {}
  /\ t.step = "approval" => BindingsOf(LastDecision) = {}
  /\ t.round = 0 => LastDecision = t.decision \/ BindingsOf(LastDecision) = {}

\* What a call that holds its lock has read of the ledger it appends to is so.
Current(t) ==
  /\ t.op = "edit" => t.at = Len(notes) + 1
  /\ t.op = "revoke" \/ (t.op = "accept" /\ t.step = "append") =>
       t.at = Len(intents) + 1
  /\ t.op = "request" /\ t.step \in {"code", "append"} =>
       RequestsFor(t.admission) = {}
  /\ t.op = "decide" /\ t.step \in {"again", "append"} => ~Resolved(t.request)
  /\ t.op = "decide" /\ t.step = "append" =>
       t.at = Cardinality(DecisionsOn(t.request))
  /\ t.op = "bind" => Unbound(t)

ConsoleInv ==
  OneConsole => LocksHold /\ ChainsSound /\ \A h \in Handler : Current(task[h])

\* No row is bound that is not there.
LEMMA NoneBound ==
  ASSUME RInv, NEW d, d \notin DOMAIN decisions
  PROVE  BindingsOf(d) = {}
  BY DEF RInv, LedgerInv, BindingsRefer, IsApproval, BindingsOf

\* A call that has read no decision names none.
LEMMA NoneYet == ASSUME RecordTypeOK PROVE 0 \notin DOMAIN decisions
  BY DEF RecordTypeOK

\* A call that returned, or is refused, relies on nothing.
LEMMA IdleCurrent == Idle.op = "none" /\ Current(Idle)
  BY DEF Idle, Current

\* The calls of the others stay as they are when no ledger changes, and a call
\* that begins does so while its lock is free.
LEMMA CallMoves ==
  ASSUME ConsoleInv, OneConsole, UNCHANGED <<seat, ledgers>>, NEW h \in Handler,
         \A g \in Handler : g # h => task'[g] = task[g],
         \/ task'[h].op \in {task[h].op, "none"}
         \/ \A ops \in Locks : task'[h].op \in ops => LockFree(h, ops),
         NEW t, t = task'[h], Current(t)
  PROVE  ConsoleInv'
  <1>1. LocksHold'
    <2> SUFFICES ASSUME NEW ops \in Locks, NEW f \in Handler, NEW g \in Handler, f # g,
                        task'[f].op \in ops, task'[g].op \in ops
                 PROVE  FALSE
      BY DEF LocksHold, Locks, IntentLock, NoteLock
    <2>1. "none" \notin ops
      BY DEF Locks, IntentLock, NoteLock
    <2>2. LocksHold
      BY DEF ConsoleInv
    <2>3. ASSUME NEW e \in Handler, e # h, task[e].op \in ops, task'[h].op \in ops PROVE FALSE
      <3>1. CASE task'[h].op \in {task[h].op, "none"}
        BY <2>1, <2>2, <2>3, <3>1 DEF LocksHold
      <3>2. CASE LockFree(h, ops)
        BY <2>3, <3>2 DEF LockFree, Colleagues, OneConsole
      <3> QED BY <2>3, <3>1, <3>2
    <2>4. CASE f = h
      BY <2>3, <2>4
    <2>5. CASE g = h
      BY <2>3, <2>5
    <2>6. CASE f # h /\ g # h
      BY <2>2, <2>6 DEF LocksHold
    <2> QED BY <2>4, <2>5, <2>6
  <1>2. ChainsSound'
    BY DEF ConsoleInv, ChainsSound, NotesReadable, ChainReadable, DecisionsOn, PlaceOf, ledgers
  <1>3. ASSUME NEW u, Current(u) PROVE Current(u)'
    BY <1>3 DEF Current, Unbound, RequestsFor, Resolved, LatestDecision, LastDecision,
       DecisionsOn, BindingsOf, ledgers
  <1>4. ASSUME NEW g \in Handler PROVE Current(task[g])'
    <2>1. PICK u : u = task'[g] /\ Current(u)
      BY DEF ConsoleInv
    <2>2. Current(u)'
      BY <1>3, <2>1
    <2> QED BY <2>1, <2>2 DEF Current, Unbound
  <1> QED BY <1>1, <1>2, <1>4 DEF ConsoleInv

\* A call begins.
LEMMA ConsoleBegins ==
  ASSUME RInv, ConsoleInv, OneConsole, NEW h \in Handler,
         \/ Edit(h) \/ Accept(h) \/ Revoke(h) \/ Admit(h) \/ Request(h) \/ Decide(h)
         \/ Bind(h)
  PROVE  ConsoleInv'
  <1>1. /\ UNCHANGED <<seat, ledgers>> /\ task \in [Handler -> Task] /\ task[h] = Idle
        /\ task[h] \in Task
    BY DEF RInv, RecordTypeOK, Edit, Accept, Revoke, Admit, Request, Decide, Bind, Free
  <1> DEFINE t == task'[h]
  <1>2. CASE Edit(h)
    <2>1. t.op = "edit" /\ t.at = Len(notes) + 1
      BY <1>1, <1>2 DEF Edit, Task
    <2>2. LockFree(h, NoteLock) /\ \A g \in Handler : g # h => task'[g] = task[g]
      BY <1>1, <1>2 DEF Edit
    <2>3. Current(t)
      BY <2>1 DEF Current
    <2>4. \A ops \in Locks : t.op \in ops => LockFree(h, ops)
      BY <2>1, <2>2 DEF Locks, NoteLock, IntentLock
    <2> QED BY <1>1, <2>2, <2>3, <2>4, CallMoves
  <1>3. CASE Accept(h) \/ Revoke(h)
    <2>1. /\ t.op \in {"accept", "revoke"} /\ (t.op = "accept" => t.step = "chain")
          /\ t.op = "revoke" => t.at = Len(intents) + 1
      BY <1>1, <1>3 DEF Accept, Revoke, Task
    <2>2. LockFree(h, IntentLock) /\ \A g \in Handler : g # h => task'[g] = task[g]
      BY <1>1, <1>3 DEF Accept, Revoke
    <2>3. Current(t)
      BY <2>1 DEF Current
    <2>4. \A ops \in Locks : t.op \in ops => LockFree(h, ops)
      BY <2>1, <2>2 DEF Locks, NoteLock, IntentLock
    <2> QED BY <1>1, <2>2, <2>3, <2>4, CallMoves
  <1>4. CASE Admit(h) \/ Request(h) \/ Decide(h)
    <2>1. t.op \in {"admit", "request", "decide"} /\ t.step \in {"append", "match", "project"}
          /\ (t.op \in {"request", "decide"} => t.step \in {"match", "project"})
      BY <1>1, <1>4 DEF Admit, Request, Decide, Task
    <2>2. /\ t.op = "request" => LockFree(h, {"request"})
          /\ t.op = "decide" => LockFree(h, {"decide"})
      <3>1. CASE Admit(h)
        BY <1>1, <3>1 DEF Admit, Task
      <3>2. CASE Request(h)
        BY <1>1, <3>2 DEF Request, Task
      <3>3. CASE Decide(h)
        BY <1>1, <3>3 DEF Decide, Task
      <3> QED BY <1>4, <3>1, <3>2, <3>3
    <2>5. \A g \in Handler : g # h => task'[g] = task[g]
      BY <1>1, <1>4 DEF Admit, Request, Decide
    <2>3. Current(t)
      BY <2>1 DEF Current
    <2>4. \A ops \in Locks : t.op \in ops => LockFree(h, ops)
      BY <2>1, <2>2 DEF Locks, NoteLock, IntentLock
    <2> QED BY <1>1, <2>3, <2>4, <2>5, CallMoves
  <1>5. CASE Bind(h)
    <2>1. t.op = "bind" /\ t.step = "latest" /\ t.round = 0 /\ t.decision = LastDecision
      BY <1>1, <1>5 DEF Bind, Task, Idle
    <2>2. LockFree(h, {"bind"}) /\ \A g \in Handler : g # h => task'[g] = task[g]
      BY <1>1, <1>5 DEF Bind
    <2>3. Current(t)
      BY <2>1 DEF Current, Unbound
    <2>4. \A ops \in Locks : t.op \in ops => LockFree(h, ops)
      BY <2>1, <2>2 DEF Locks, NoteLock, IntentLock
    <2> QED BY <1>1, <2>2, <2>3, <2>4, CallMoves
  <1> QED BY <1>2, <1>3, <1>4, <1>5

\* A call reads on.
LEMMA ConsoleReads ==
  ASSUME RInv, ConsoleInv, OneConsole, NEW h \in Handler,
         \/ ReadChain(h) \/ ReadApproval(h) \/ ReadLatest(h) \/ ReadProjection(h)
         \/ ReadAdmission(h) \/ ReadExisting(h) \/ ReadDecisions(h)
         \/ ReadCode(h) \/ ReadAgain(h) \/ ReadBinding(h)
  PROVE  ConsoleInv'
  <1>1. /\ task \in [Handler -> Task] /\ task[h] \in Task /\ StepsOf(task[h]) /\ Current(task[h])
    BY DEF RInv, RecordTypeOK, HandlerInv, TaskInv, ConsoleInv
  <1>2. /\ UNCHANGED <<seat, ledgers>> /\ \A g \in Handler : g # h => task'[g] = task[g]
    BY <1>1 DEF ReadChain, ReadApproval, ReadLatest, ReadProjection, ReadAdmission,
       ReadExisting, ReadDecisions, ReadCode, ReadAgain, ReadBinding, Read, Finish
  <1> DEFINE t == task'[h]
             u == task[h]
  <1>3. SUFFICES t.op \in {u.op, "none"} /\ Current(t)
    <2> HIDE DEF t, u
    <2> QED BY <1>2, CallMoves DEF t, u
  <1>4. CASE t = Idle
    BY <1>4, IdleCurrent
  <1>5. Finish(h) => t = Idle
    BY <1>1 DEF Finish
  <1> USE DEF Read
  <1>6. CASE ReadChain(h)
    <2>1. CASE task' = [task EXCEPT ![h].step = "append", ![h].at = Len(intents) + 1]
      <3>1. t.op = u.op /\ u.op = "accept" /\ t.at = Len(intents) + 1
        BY <1>1, <1>6, <2>1 DEF Task, StepsOf, ReadChain
      <3> QED BY <3>1 DEF Current
    <2> QED BY <1>4, <1>5, <1>6, <2>1 DEF ReadChain
  <1>7. CASE ReadApproval(h)
    <2>1. CASE task' = [task EXCEPT ![h].step = "latest", ![h].round = 1,
                                    ![h].decision = LastDecision]
      <3>1. /\ t.op = u.op /\ u.op = "bind" /\ t.step = "latest" /\ t.round = 1
            /\ t.decision = LastDecision /\ u.step = "approval"
        BY <1>1, <1>7, <2>1 DEF Task, StepsOf, ReadApproval
      <3>2. BindingsOf(LastDecision) = {}
        BY <1>1, <3>1 DEF Current, Unbound
      <3> QED BY <3>1, <3>2 DEF Current, Unbound
    <2> QED BY <1>4, <1>5, <1>7, <2>1 DEF ReadApproval
  <1>8. CASE ReadLatest(h) \/ ReadProjection(h) \/ ReadAdmission(h)
    <2>1. CASE ~Finish(h)
      <3>1. /\ t.op = u.op /\ u.op \in {"request", "decide", "bind"}
            /\ t.step \in {"project", "match", "existing"}
            /\ t.decision = u.decision /\ t.round = u.round
        <4>1. CASE ReadLatest(h)
          BY <1>1, <2>1, <4>1 DEF Task, StepsOf, ReadLatest
        <4>2. CASE ReadProjection(h)
          BY <1>1, <2>1, <4>2 DEF Task, StepsOf, ReadProjection
        <4>3. CASE ReadAdmission(h)
          BY <1>1, <2>1, <4>3 DEF Task, StepsOf, ReadAdmission
        <4> QED BY <1>8, <4>1, <4>2, <4>3
      <3> QED BY <1>1, <3>1 DEF Current, Unbound
    <2> QED BY <1>4, <1>5, <2>1
  <1>9. CASE ReadExisting(h)
    <2>1. CASE u.op = "request" /\ ~Finish(h)
      <3>1. /\ t.op = u.op /\ t.step = "code" /\ t.admission = u.admission
            /\ RequestsFor(u.admission) = {}
        BY <1>1, <1>9, <2>1 DEF Task, ReadExisting
      <3> QED BY <2>1, <3>1 DEF Current
    <2>2. CASE u.op # "request" /\ ~Finish(h)
      <3>1. /\ t.op = u.op /\ t.step = "decisions" /\ u.op \in {"decide", "bind"}
            /\ t.decision = u.decision /\ t.round = u.round
        BY <1>1, <1>9, <2>2 DEF Task, StepsOf, ReadExisting
      <3> QED BY <1>1, <3>1 DEF Current, Unbound
    <2> QED BY <1>4, <1>5, <2>1, <2>2
  <1>10. CASE ReadDecisions(h)
    <2>1. CASE u.op = "decide" /\ ~Finish(h)
      <3>1. t.op = u.op /\ t.step = "again" /\ t.request = u.request /\ ~Resolved(u.request)
        BY <1>1, <1>10, <2>1 DEF Task, ReadDecisions
      <3> QED BY <2>1, <3>1 DEF Current
    <2>2. CASE u.op # "decide" /\ ~Finish(h)
      <3>1. /\ t.op = u.op /\ u.op = "bind" /\ t.decision = u.decision /\ t.round = u.round
            /\ t.step = IF u.round = 0 THEN "chosen" ELSE "append"
            /\ u.round \in 0..1
        BY <1>1, <1>10, <2>2 DEF Task, ReadDecisions
      <3> QED BY <1>1, <3>1 DEF Current, Unbound
    <2> QED BY <1>4, <1>5, <2>1, <2>2
  <1>11. CASE ReadCode(h)
    <2>1. CASE ~Finish(h)
      <3>1. t.op = u.op /\ u.op = "request" /\ u.step = "code" /\ t.admission = u.admission
        BY <1>1, <1>11, <2>1 DEF Task, StepsOf, ReadCode
      <3> QED BY <1>1, <3>1 DEF Current
    <2> QED BY <1>4, <1>5, <2>1
  <1>12. CASE ReadAgain(h)
    <2>1. CASE ~Finish(h)
      <3>1. /\ t.op = u.op /\ u.op = "decide" /\ u.step = "again" /\ t.request = u.request
            /\ t.at = Cardinality(DecisionsOn(u.request))
        BY <1>1, <1>12, <2>1 DEF Task, StepsOf, ReadAgain
      <3> QED BY <1>1, <3>1 DEF Current
    <2> QED BY <1>4, <1>5, <2>1
  <1>13. CASE ReadBinding(h)
    <2>1. CASE ~Finish(h)
      <3>1. /\ t.op = u.op /\ u.op = "bind" /\ u.step = "chosen" /\ t.step = "approval"
            /\ t.round = u.round /\ BindingsOf(u.decision) = {}
        BY <1>1, <1>13, <2>1 DEF Task, StepsOf, ReadBinding
      <3> QED BY <1>1, <3>1 DEF Current, Unbound
    <2> QED BY <1>4, <1>5, <2>1
  <1> QED BY <1>6, <1>7, <1>8, <1>9, <1>10, <1>11, <1>12, <1>13

\* A call that returns frees its lock; the calls of the others go on.
LEMMA ConsoleReturns ==
  ASSUME RInv, ConsoleInv, OneConsole, UNCHANGED seat, NEW h \in Handler, Finish(h),
         ChainsSound',
         \A g \in Handler : g # h => \A u : u = task[g] /\ Current(u) => Current(u)'
  PROVE  ConsoleInv'
  <1>1. task'[h] = Idle /\ \A g \in Handler : g # h => task'[g] = task[g]
    BY DEF RInv, RecordTypeOK, Finish
  <1>2. LocksHold /\ \A g \in Handler : Current(task[g])
    BY DEF ConsoleInv
  <1>3. LocksHold'
    BY <1>1, <1>2, IdleCurrent DEF LocksHold, Locks, NoteLock, IntentLock
  <1>4. ASSUME NEW g \in Handler PROVE Current(task[g])'
    <2>1. CASE g = h
      BY <1>1, <2>1, IdleCurrent DEF Current
    <2>2. CASE g # h
      <3>1. PICK u : u = task[g] /\ Current(u)
        BY <1>2
      <3>2. Current(u)' /\ u = task'[g]
        BY <1>1, <2>2, <3>1
      <3> QED BY <3>2 DEF Current, Unbound
    <2> QED BY <2>1, <2>2
  <1> QED BY <1>3, <1>4 DEF ConsoleInv

\* An edit continues the notes it read.
LEMMA ConsoleEdits ==
  ASSUME RInv, ConsoleInv, OneConsole, NEW h \in Handler, AppendNote(h), Finish(h),
         UNCHANGED seat
  PROVE  ConsoleInv'
  <1>1. LocksHold /\ ChainsSound /\ Current(task[h]) /\ notes \in Seq(NoteRow)
    BY DEF ConsoleInv, RInv, RecordTypeOK
  <1>2. PICK x : notes' = Append(notes, x) /\ x.rev = Len(notes) + 1
    BY <1>1 DEF AppendNote, Current
  <1>3. /\ DOMAIN notes' = DOMAIN notes \union {Len(notes) + 1}
        /\ \A i \in DOMAIN notes : notes'[i] = notes[i]
        /\ notes'[Len(notes) + 1] = x
    BY <1>1, <1>2
  <1>4. NotesReadable'
    BY <1>1, <1>2, <1>3 DEF ChainsSound, NotesReadable
  <1>5. UNCHANGED <<intents, admissions, requests, decisions, bindings>>
    BY DEF AppendNote
  <1>6. ChainsSound'
    BY <1>1, <1>4, <1>5 DEF ChainsSound, ChainReadable, DecisionsOn, PlaceOf
  <1>7. ASSUME NEW g \in Handler, g # h, NEW u, u = task[g], Current(u) PROVE Current(u)'
    <2>1. u.op # "edit"
      BY <1>1, <1>7 DEF LocksHold, Locks, NoteLock, AppendNote
    <2> QED BY <1>5, <1>7, <2>1 DEF Current, Unbound, RequestsFor, Resolved, LatestDecision,
              LastDecision, DecisionsOn, BindingsOf
  <1> QED BY <1>6, <1>7, ConsoleReturns

\* An acceptance or a revocation continues the revisions it read.
LEMMA ConsoleRevises ==
  ASSUME RInv, ConsoleInv, OneConsole, NEW h \in Handler,
         AppendAccepted(h) \/ AppendRevoked(h), task[h].step = "append", Finish(h),
         UNCHANGED seat
  PROVE  ConsoleInv'
  <1>1. LocksHold /\ ChainsSound /\ Current(task[h]) /\ intents \in Seq(IntentRow)
        /\ HandlerInv(h)
    BY DEF ConsoleInv, RInv, RecordTypeOK
  <1>2. \E x : intents' = Append(intents, x) /\ x.rev = Len(intents) + 1
    <2>1. task[h].at = Len(intents) + 1 /\ task[h].op \in {"accept", "revoke"}
      BY <1>1 DEF AppendAccepted, AppendRevoked, Current
    <2>2. CASE AppendAccepted(h)
      BY <2>1, <2>2 DEF AppendAccepted
    <2>3. CASE AppendRevoked(h)
      <3>1. PICK y \in IntentRow : y = intents[task[h].at - 1]
        BY <1>1, <2>3 DEF AppendRevoked, HandlerInv, TaskInv, Revises
      <3> DEFINE x == [y EXCEPT !.rev = task[h].at, !.active = FALSE]
      <3>2. x.rev = task[h].at
        BY DEF IntentRow
      <3>3. intents' = Append(intents, x)
        BY <2>3, <3>1 DEF AppendRevoked
      <3> HIDE DEF x
      <3> QED BY <2>1, <3>2, <3>3
    <2> QED BY <2>2, <2>3
  <1>3. PICK x : intents' = Append(intents, x) /\ x.rev = Len(intents) + 1
    BY <1>2
  <1>4. /\ DOMAIN intents' = DOMAIN intents \union {Len(intents) + 1}
        /\ \A i \in DOMAIN intents : intents'[i] = intents[i]
        /\ intents'[Len(intents) + 1] = x
    BY <1>1, <1>3
  <1>5. \A i \in DOMAIN intents' : intents'[i].rev = i
    BY <1>1, <1>3, <1>4 DEF ChainsSound
  <1>6. UNCHANGED <<notes, admissions, requests, decisions, bindings>>
    BY DEF AppendAccepted, AppendRevoked
  <1>7. ChainsSound'
    BY <1>1, <1>5, <1>6 DEF ChainsSound, NotesReadable, ChainReadable, DecisionsOn, PlaceOf
  <1>8. ASSUME NEW g \in Handler, g # h, NEW u, u = task[g], Current(u) PROVE Current(u)'
    <2>1. u.op \notin {"accept", "revoke"}
      BY <1>1, <1>8 DEF LocksHold, Locks, IntentLock, AppendAccepted, AppendRevoked
    <2> QED BY <1>6, <1>8, <2>1 DEF Current, Unbound, RequestsFor, Resolved, LatestDecision,
              LastDecision, DecisionsOn, BindingsOf
  <1> QED BY <1>7, <1>8, ConsoleReturns

\* An admission receipt is nobody's chain.
LEMMA ConsoleAdmits ==
  ASSUME RInv, ConsoleInv, OneConsole, NEW h \in Handler, AppendAdmission(h), Finish(h),
         UNCHANGED seat
  PROVE  ConsoleInv'
  <1>1. UNCHANGED <<notes, intents, requests, decisions, bindings>>
    BY DEF AppendAdmission
  <1>2. ChainsSound'
    BY <1>1 DEF ConsoleInv, ChainsSound, NotesReadable, ChainReadable, DecisionsOn, PlaceOf
  <1>3. ASSUME NEW u, Current(u) PROVE Current(u)'
    BY <1>1, <1>3 DEF Current, Unbound, RequestsFor, Resolved, LatestDecision, LastDecision,
       DecisionsOn, BindingsOf
  <1> QED BY <1>2, <1>3, ConsoleReturns

\* A request is the first of its receipt, and the first the next decision can be on.
LEMMA ConsoleRequests ==
  ASSUME RInv, ConsoleInv, OneConsole, NEW h \in Handler, AppendRequest(h),
         task[h].step = "append", Finish(h), UNCHANGED seat
  PROVE  ConsoleInv'
  <1>1. LocksHold /\ ChainsSound /\ Current(task[h]) /\ requests \in Seq(RequestRow)
        /\ RecordTypeOK
    BY DEF ConsoleInv, RInv, RecordTypeOK
  <1>2. PICK n \in Nat : n = Len(requests)
    BY <1>1
  <1>3. PICK x : requests' = Append(requests, x) /\ x.admission = task[h].admission
    BY DEF AppendRequest
  <1>4. /\ DOMAIN requests = 1..n /\ DOMAIN requests' = 1..(n + 1) /\ Len(requests') = n + 1
        /\ \A r \in 1..n : requests'[r] = requests[r]
        /\ requests'[n + 1] = x
    BY <1>1, <1>2, <1>3
  <1>5. \A r \in 1..n : requests[r].admission # x.admission
    BY <1>1, <1>3, <1>4 DEF AppendRequest, Current, RequestsFor
  <1>6. ASSUME NEW q \in DOMAIN requests', NEW r \in DOMAIN requests',
               requests'[q].admission = requests'[r].admission
        PROVE  q = r
    <2>1. \A i \in 1..(n + 1) : i \in 1..n \/ i = n + 1
      OBVIOUS
    <2> QED BY <1>1, <1>4, <1>5, <1>6, <2>1 DEF ChainsSound
  <1>7. UNCHANGED <<notes, intents, admissions, decisions, bindings>>
    BY DEF AppendRequest
  <1>8. DecisionsOn(n + 1) = {}
    BY <1>4 DEF DecisionsOn, RInv, LedgerInv, DecisionsRefer
  <1>9. \A r \in DOMAIN requests' : ChainReadable(r)'
    <2>1. \A r : ChainReadable(r) => ChainReadable(r)'
      BY <1>7 DEF ChainReadable, DecisionsOn, PlaceOf
    <2>2. ChainReadable(n + 1)
      BY <1>8 DEF ChainReadable
    <2>3. \A i \in 1..(n + 1) : i \in 1..n \/ i = n + 1
      OBVIOUS
    <2> QED BY <1>1, <1>4, <2>1, <2>2, <2>3 DEF ChainsSound
  <1>10. ChainsSound'
    BY <1>1, <1>6, <1>7, <1>9 DEF ChainsSound, NotesReadable
  <1>11. LastDecision' = 0
    <2>1. DecisionsOn(n + 1)' = {}
      BY <1>7, <1>8 DEF DecisionsOn
    <2>2. LatestDecision(n + 1)' = 0
      BY <2>1 DEF LatestDecision
    <2> QED BY <1>4, <2>2 DEF LastDecision, LatestDecision, DecisionsOn
  <1>12. BindingsOf(0)' = {}
    BY <1>1, <1>7, NoneBound, NoneYet DEF BindingsOf
  <1>13. BindingsOf(LastDecision)' = {}
    BY <1>11, <1>12 DEF BindingsOf
  <1>14. ASSUME NEW g \in Handler, g # h, NEW u, u = task[g], Current(u) PROVE Current(u)'
    <2>1. u.op # "request"
      BY <1>1, <1>14 DEF LocksHold, Locks, AppendRequest
    <2>2. \A d : BindingsOf(d)' = BindingsOf(d)
      BY <1>7 DEF BindingsOf
    <2>3. Unbound(u) => Unbound(u)'
      BY <1>13, <2>2 DEF Unbound
    <2> QED BY <1>7, <1>14, <2>1, <2>3 DEF Current, Resolved, LatestDecision, DecisionsOn
  <1> QED BY <1>10, <1>14, ConsoleReturns

\* A decision continues the open chain of its request.
LEMMA ConsoleDecides ==
  ASSUME RInv, ConsoleInv, OneConsole, NEW h \in Handler, AppendDecision(h),
         task[h].step = "append", Finish(h), UNCHANGED seat
  PROVE  ConsoleInv'
  <1>1. LocksHold /\ ChainsSound /\ Current(task[h]) /\ decisions \in Seq(DecisionRow)
        /\ RecordTypeOK /\ HandlerInv(h)
    BY DEF ConsoleInv, RInv, RecordTypeOK
  <1>2. PICK n \in Nat : n = Len(decisions)
    BY <1>1
  <1>3. PICK s : s = task[h].request
    OBVIOUS
  <1>4. /\ task[h].op = "decide" /\ ~Resolved(s) /\ task[h].at = Cardinality(DecisionsOn(s))
        /\ s \in DOMAIN requests
    BY <1>1, <1>3 DEF AppendDecision, Current, HandlerInv, TaskInv, Answering
  <1>5. PICK x : /\ decisions' = Append(decisions, x)
                 /\ x.request = s /\ x.seq = Cardinality(DecisionsOn(s))
    BY <1>3, <1>4 DEF AppendDecision
  <1>6. /\ DOMAIN decisions = 1..n /\ DOMAIN decisions' = 1..(n + 1)
        /\ \A d \in 1..n : decisions'[d] = decisions[d] /\ d < n + 1 /\ d # n + 1
        /\ decisions'[n + 1] = x
        /\ \A d \in 1..(n + 1) : d \in 1..n \/ d = n + 1
        /\ \A d \in 1..(n + 1) : ~(n + 1 < d)
    BY <1>1, <1>2, <1>5
  <1>7. UNCHANGED <<notes, intents, admissions, requests, bindings>>
    BY DEF AppendDecision
  <1>8. /\ DecisionsOn(s)' = DecisionsOn(s) \union {n + 1}
        /\ \A r : r # s => DecisionsOn(r)' = DecisionsOn(r)
    BY <1>5, <1>6 DEF DecisionsOn
  <1>9. \A r : DecisionsOn(r) \subseteq 1..n
    BY <1>6 DEF DecisionsOn
  <1>10. /\ \A d \in 1..n : PlaceOf(d)' = PlaceOf(d)
         /\ PlaceOf(n + 1)' = DecisionsOn(s)
    <2>1. ASSUME NEW d \in 1..n PROVE PlaceOf(d)' = PlaceOf(d)
      <3>1. decisions'[d].request = decisions[d].request /\ ~(n + 1 < d)
        BY <1>6
      <3> QED BY <1>8, <3>1 DEF PlaceOf
    <2>2. PlaceOf(n + 1)' = DecisionsOn(s)
      BY <1>5, <1>6, <1>8, <1>9 DEF PlaceOf
    <2> QED BY <2>1, <2>2
  <1>11. ASSUME NEW d \in DecisionsOn(s) PROVE decisions[d].kind \notin Resolving
    <2>1. /\ LatestDecision(s) = Latest(DecisionsOn(s)) /\ Latest(DecisionsOn(s)) \in DecisionsOn(s)
          /\ d <= Latest(DecisionsOn(s))
      BY <1>1, <1>6, <1>9, <1>11, LatestRow DEF LatestDecision
    <2>2. CASE d = LatestDecision(s)
      BY <1>4, <1>11, <2>2 DEF Resolved
    <2>3. CASE d # LatestDecision(s)
      <3>1. d < Latest(DecisionsOn(s))
        BY <1>9, <1>11, <2>1, <2>3
      <3> QED BY <1>1, <1>4, <1>11, <2>1, <3>1 DEF ChainsSound, ChainReadable
    <2> QED BY <2>2, <2>3
  <1>12. ASSUME NEW r \in DOMAIN requests PROVE ChainReadable(r)'
    <2>1. ChainReadable(r)
      BY <1>1 DEF ChainsSound
    <2>2. ASSUME NEW d \in DecisionsOn(r)' PROVE decisions'[d].seq = Cardinality(PlaceOf(d))'
      <3>1. CASE d \in DecisionsOn(r)
        <4>1. d \in 1..n /\ decisions[d].seq = Cardinality(PlaceOf(d))
          BY <1>9, <2>1, <3>1 DEF ChainReadable
        <4>2. PlaceOf(d)' = PlaceOf(d) /\ decisions'[d] = decisions[d]
          BY <1>6, <1>10, <4>1
        <4> QED BY <4>1, <4>2
      <3>2. CASE d \notin DecisionsOn(r)
        <4>1. r = s /\ d = n + 1
          BY <1>8, <2>2, <3>2
        <4>2. PlaceOf(d)' = DecisionsOn(s) /\ decisions'[d] = x
          BY <1>6, <1>10, <4>1
        <4> QED BY <1>5, <4>2
      <3> QED BY <3>1, <3>2
    <2>3. ASSUME NEW d \in DecisionsOn(r)', NEW e \in DecisionsOn(r)', d < e
          PROVE  decisions'[d].kind \notin Resolving
      <3>1. d \in 1..n /\ d \in DecisionsOn(r)
        <4>1. e \in 1..(n + 1) /\ d \in 1..(n + 1)
          BY <1>6 DEF DecisionsOn
        <4>2. d # n + 1
          BY <1>6, <2>3, <4>1
        <4> QED BY <1>6, <1>8, <4>1, <4>2
      <3>2. decisions'[d] = decisions[d]
        BY <1>6, <3>1
      <3>3. CASE r = s
        BY <1>11, <3>1, <3>2, <3>3
      <3>4. CASE r # s
        BY <1>8, <2>1, <2>3, <3>1, <3>2, <3>4 DEF ChainReadable
      <3> QED BY <3>3, <3>4
    <2> QED BY <2>2, <2>3 DEF ChainReadable
  <1>13. ChainsSound'
    BY <1>1, <1>7, <1>12 DEF ChainsSound, NotesReadable
  <1>14. BindingsOf(n + 1)' = {}
    <2>1. n + 1 \notin DOMAIN decisions
      BY <1>6
    <2> QED BY <1>7, <2>1, NoneBound DEF BindingsOf
  <1>15. LastDecision' = LastDecision \/ LastDecision' = n + 1
    <2>1. PICK r : r = Len(requests)
      OBVIOUS
    <2>2. CASE r # s
      <3>1. LatestDecision(r)' = LatestDecision(r)
        BY <1>8, <2>2 DEF LatestDecision
      <3> QED BY <1>7, <2>1, <3>1 DEF LastDecision, LatestDecision, DecisionsOn
    <2>3. CASE r = s
      <3>1. Latest(DecisionsOn(s) \union {n + 1}) = n + 1
        <4>1. \A j \in DecisionsOn(s) \union {n + 1} : j <= n + 1 /\ j \in Nat
          BY <1>9
        <4>2. \A k \in DecisionsOn(s) \union {n + 1} :
                (\A j \in DecisionsOn(s) \union {n + 1} : j <= k) => k = n + 1
          BY <4>1
        <4> QED BY <4>1, <4>2 DEF Latest
      <3>2. LatestDecision(r)' = n + 1
        BY <1>8, <2>3, <3>1 DEF LatestDecision
      <3>3. requests # <<>>
        BY <1>1, <1>4 DEF RecordTypeOK
      <3> QED BY <1>7, <2>1, <3>2, <3>3 DEF LastDecision, LatestDecision, DecisionsOn
    <2> QED BY <2>2, <2>3
  <1>16. ASSUME NEW g \in Handler, g # h, NEW u, u = task[g], Current(u) PROVE Current(u)'
    <2>1. u.op # "decide"
      BY <1>1, <1>4, <1>16 DEF LocksHold, Locks
    <2>2. \A d : BindingsOf(d)' = BindingsOf(d)
      BY <1>7 DEF BindingsOf
    <2>3. Unbound(u) => Unbound(u)'
      <3>1. PICK a, b : a = LastDecision /\ b = LastDecision'
        OBVIOUS
      <3>2. BindingsOf(LastDecision)' = BindingsOf(b) /\ BindingsOf(LastDecision) = BindingsOf(a)
        BY <1>7, <3>1 DEF BindingsOf
      <3>3. b = a \/ BindingsOf(b) = {}
        BY <1>14, <1>15, <2>2, <3>1
      <3> QED BY <2>2, <3>1, <3>2, <3>3 DEF Unbound
    <2> QED BY <1>7, <1>16, <2>1, <2>3 DEF Current, RequestsFor
  <1> QED BY <1>13, <1>16, ConsoleReturns

\* A binding is the first of its decision.
LEMMA ConsoleBinds ==
  ASSUME RInv, ConsoleInv, OneConsole, NEW h \in Handler, AppendBinding(h),
         task[h].step = "append", Finish(h), UNCHANGED seat
  PROVE  ConsoleInv'
  <1>1. LocksHold /\ ChainsSound /\ Current(task[h]) /\ bindings \in Seq(BindingRow)
    BY DEF ConsoleInv, RInv, RecordTypeOK
  <1>2. PICK n \in Nat : n = Len(bindings)
    BY <1>1
  <1>3. PICK x : bindings' = Append(bindings, x) /\ x.decision = task[h].decision
    BY DEF AppendBinding
  <1>4. /\ DOMAIN bindings = 1..n /\ DOMAIN bindings' = 1..(n + 1)
        /\ \A b \in 1..n : bindings'[b] = bindings[b]
        /\ bindings'[n + 1] = x
    BY <1>1, <1>2, <1>3
  <1>5. \A b \in 1..n : bindings[b].decision # x.decision
    BY <1>1, <1>3, <1>4 DEF AppendBinding, Current, Unbound, BindingsOf
  <1>6. ASSUME NEW a \in DOMAIN bindings', NEW b \in DOMAIN bindings',
               bindings'[a].decision = bindings'[b].decision
        PROVE  a = b
    <2>1. \A i \in 1..(n + 1) : i \in 1..n \/ i = n + 1
      OBVIOUS
    <2> QED BY <1>1, <1>4, <1>5, <1>6, <2>1 DEF ChainsSound
  <1>7. UNCHANGED <<notes, intents, admissions, requests, decisions>>
    BY DEF AppendBinding
  <1>8. ChainsSound'
    BY <1>1, <1>6, <1>7 DEF ChainsSound, NotesReadable, ChainReadable, DecisionsOn, PlaceOf
  <1>9. ASSUME NEW g \in Handler, g # h, NEW u, u = task[g], Current(u) PROVE Current(u)'
    <2>1. u.op # "bind"
      BY <1>1, <1>9 DEF LocksHold, Locks, AppendBinding
    <2> QED BY <1>7, <1>9, <2>1 DEF Current, RequestsFor, Resolved, LatestDecision, DecisionsOn
  <1> QED BY <1>8, <1>9, ConsoleReturns

\* The append of a call, or its failure.
LEMMA ConsoleAppends ==
  ASSUME RInv, ConsoleInv, OneConsole, NEW h \in Handler, AppendRow(h)
  PROVE  ConsoleInv'
  <1>1. Finish(h) /\ UNCHANGED seat /\ task[h].step = "append"
    BY DEF AppendRow
  <1>2. CASE UNCHANGED ledgers
    <2>1. task'[h] = Idle /\ \A g \in Handler : g # h => task'[g] = task[g]
      BY <1>1 DEF RInv, RecordTypeOK, Finish
    <2>2. PICK t : t = task'[h] /\ t.op = "none" /\ Current(t)
      BY <2>1, IdleCurrent
    <2> QED BY <1>1, <1>2, <2>1, <2>2, CallMoves
  <1>3. CASE ~UNCHANGED ledgers
    BY <1>1, <1>3, ConsoleEdits, ConsoleRevises, ConsoleAdmits, ConsoleRequests,
       ConsoleDecides, ConsoleBinds DEF AppendRow
  <1> QED BY <1>2, <1>3

\* A restart ends calls and begins none.
LEMMA ConsoleRestarts ==
  ASSUME ConsoleInv, OneConsole, UNCHANGED <<seat, ledgers>>,
         \A h \in Handler : task'[h] = Idle \/ task'[h] = task[h]
  PROVE  ConsoleInv'
  <1>1. LocksHold'
    BY IdleCurrent DEF ConsoleInv, LocksHold, Locks, NoteLock, IntentLock
  <1>2. ChainsSound'
    BY DEF ConsoleInv, ChainsSound, NotesReadable, ChainReadable, DecisionsOn, PlaceOf, ledgers
  <1>3. ASSUME NEW u, Current(u) PROVE Current(u)'
    BY <1>3 DEF Current, Unbound, RequestsFor, Resolved, LatestDecision, LastDecision,
       DecisionsOn, BindingsOf, ledgers
  <1>4. ASSUME NEW h \in Handler PROVE Current(task[h])'
    <2>1. PICK u : u = task'[h] /\ Current(u)
      BY IdleCurrent DEF ConsoleInv
    <2>2. Current(u)'
      BY <1>3, <2>1
    <2> QED BY <2>1, <2>2 DEF Current, Unbound
  <1> QED BY <1>1, <1>2, <1>4 DEF ConsoleInv

\* Inside one console nothing a call relies on changes between its readings and
\* its append, whatever its other calls do: the chains never fork, an admission
\* receipt has one request and a decision one binding.
THEOREM OneConsoleReadableHolds == RSpec => []OneConsoleReadable
  <1>1. RInit => ConsoleInv
    <2> SUFFICES ASSUME RInit PROVE ConsoleInv
      OBVIOUS
    <2>1. LocksHold
      BY IdleCurrent DEF RInit, LocksHold, Locks, NoteLock, IntentLock
    <2>2. ChainsSound
      BY DEF RInit, ChainsSound, NotesReadable
    <2> QED BY <2>1, <2>2, IdleCurrent DEF RInit, ConsoleInv
  <1>2. RInv /\ ConsoleInv /\ [RNext]_rVars => ConsoleInv'
    <2> SUFFICES ASSUME RInv, ConsoleInv, [RNext]_rVars PROVE ConsoleInv'
      OBVIOUS
    <2>1. CASE ~OneConsole
      <3>1. UNCHANGED seat
        BY DEF RNext, Serve, Restart, Edit, Accept, ReadChain, Revoke, Admit, Request, Decide,
           Bind, ReadApproval, ReadLatest, ReadProjection, ReadAdmission, ReadExisting,
           ReadDecisions, ReadCode, ReadAgain, ReadBinding, AppendRow, rVars
      <3> QED BY <2>1, <3>1 DEF ConsoleInv, OneConsole
    <2>2. CASE OneConsole
      <3>1. ASSUME NEW h \in Handler, Serve(h) PROVE ConsoleInv'
        BY <2>2, <3>1, ConsoleBegins, ConsoleReads, ConsoleAppends DEF Serve
      <3>2. ASSUME NEW c \in Console, Restart(c) PROVE ConsoleInv'
        BY <2>2, <3>2, ConsoleRestarts DEF Restart, RInv, RecordTypeOK
      <3>3. CASE UNCHANGED rVars
        BY <2>2, <3>3, ConsoleRestarts DEF rVars
      <3> QED BY <3>1, <3>2, <3>3 DEF RNext
    <2> QED BY <2>1, <2>2
  <1>3. ConsoleInv => OneConsoleReadable
    BY DEF ConsoleInv, OneConsole, ChainsSound, OneConsoleReadable, NotesReadable,
       IntentsReadable, SourceSound
  <1> QED BY <1>1, <1>2, <1>3, RInvHolds, PTL DEF RSpec
=============================================================================
