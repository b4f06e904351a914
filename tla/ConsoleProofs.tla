---- MODULE ConsoleProofs ----
(***************************************************************************)
(* Theorems about Console, for every pack, every set of people and every   *)
(* number of terminals, assignments and escalations: the commands drive    *)
(* the project only as the lifecycle allows, what the planner lets `run`   *)
(* execute can be executed, no project is forgotten, and the views agree   *)
(* about a broken chain.                                                   *)
(***************************************************************************)
EXTENDS Console, LifecycleProofs

-----------------------------------------------------------------------------
(* Reads.                                                                   *)

LEMMA LeastIn ==
  ASSUME NEW S \in SUBSET Nat, S # {}
  PROVE  Least(S) \in S /\ \A x \in S : Least(S) <= x
<1>1. PICK m \in S : \A y \in S : ~ (<<y, m>> \in OpToRel(<, Nat))
  <2>1. IsWellFoundedOn(OpToRel(<, Nat), Nat)
    BY NatLessThanWellFounded
  <2> QED
    BY <2>1, WFMin
<1>2. \A y \in S : ~ (y < m)
  BY <1>1 DEF OpToRel
<1>3. \A y \in S : m <= y
  BY <1>2
<1> QED
  BY <1>3 DEF Least

LEMMA LeastInStatus ==
  ASSUME NEW S, InStatus(S) # {}
  PROVE  Least(InStatus(S)) \in AssignmentId /\ status[Least(InStatus(S))] \in S
<1>1. InStatus(S) \in SUBSET Nat
  BY BoundsAssumption DEF InStatus, AssignmentId
<1>2. Least(InStatus(S)) \in InStatus(S)
  BY <1>1, LeastIn
<1> QED
  BY <1>2 DEF InStatus

\* The first assignment of an order of statuses has one of them; there is none when no
\* assignment has.
LEMMA FirstOfOrder ==
  ASSUME NEW order, DOMAIN order \in SUBSET Nat
  PROVE  \/ FirstOf(order) = NoAssignment /\ \A i \in DOMAIN order : InStatus({order[i]}) = {}
         \/ FirstOf(order) \in AssignmentId /\ \E i \in DOMAIN order : status[FirstOf(order)] = order[i]
<1> DEFINE claims == {c \in (DOMAIN order) \X AssignmentId : status[c[2]] = order[c[1]]}
           Before(c, d) == c[1] < d[1] \/ (c[1] = d[1] /\ c[2] <= d[2])
           First(c) == \A d \in claims : Before(c, d)
<1>1. CASE claims = {}
  <2>1. ASSUME NEW i \in DOMAIN order, NEW a \in AssignmentId, status[a] = order[i] PROVE FALSE
    <3>1. <<i, a>> \in claims
      BY <2>1
    <3> QED
      BY <1>1, <3>1
  <2> QED
    BY <1>1, <2>1 DEF FirstOf, InStatus
<1>2. CASE claims # {}
  <2> DEFINE ranks == {c[1] : c \in claims}
  <2>1. ranks \in SUBSET Nat /\ ranks # {}
    BY <1>2
  <2>2. Least(ranks) \in ranks /\ \A r \in ranks : Least(ranks) <= r
    BY <2>1, LeastIn
  <2>3. PICK i \in DOMAIN order : i = Least(ranks)
    BY <2>2
  <2> DEFINE ids == {a \in AssignmentId : <<i, a>> \in claims}
  <2>4. ids \in SUBSET Nat /\ ids # {}
    BY SMTT(30), <2>2, <2>3, BoundsAssumption DEF AssignmentId
  <2>5. Least(ids) \in ids /\ \A a \in ids : Least(ids) <= a
    BY <2>4, LeastIn
  <2>6. PICK a \in AssignmentId : a = Least(ids) /\ <<i, a>> \in claims
    BY <2>5
  <2>7. \A d \in claims : Before(<<i, a>>, d)
    <3> SUFFICES ASSUME NEW d \in claims PROVE Before(<<i, a>>, d)
      OBVIOUS
    <3>1. d[1] \in ranks /\ d[1] \in Nat /\ d[2] \in AssignmentId /\ d = <<d[1], d[2]>>
      OBVIOUS
    <3>2. i <= d[1] /\ i \in Nat
      BY <2>2, <2>3, <3>1
    <3>3. d[1] = i => d[2] \in ids
      BY <3>1
    <3>4. d[1] = i => a <= d[2]
      BY <2>5, <2>6, <3>3
    <3> QED
      BY <3>1, <3>2, <3>4
  <2>8. \E c \in claims : First(c)
    BY <2>6, <2>7
  <2>9. PICK m \in claims : m = CHOOSE c \in claims : First(c)
    BY SMTT(30), <2>8
  <2>10. FirstOf(order) = m[2]
    BY <1>2, <2>9 DEF FirstOf
  <2>11. m[2] \in AssignmentId /\ m[1] \in DOMAIN order /\ status[m[2]] = order[m[1]]
    <3>1. m \in {c \in (DOMAIN order) \X AssignmentId : status[c[2]] = order[c[1]]}
      BY <2>9
    <3> HIDE DEF claims, First
    <3>2. status[m[2]] = order[m[1]]
      BY <3>1, Zenon
    <3>3. m \in (DOMAIN order) \X AssignmentId
      BY <3>1, Zenon
    <3> QED
      BY SMTT(30), <3>2, <3>3
  <2> HIDE DEF claims, First
  <2> QED
    BY <2>10, <2>11
<1> QED
  BY <1>1, <1>2

InFlight == {"active", "evidence_submitted", "verifying", "verified", "rejected"}

LEMMA CurrentIs ==
  \/ Current = NoAssignment /\ InStatus(InFlight) = {}
  \/ Current \in AssignmentId /\ status[Current] \in InFlight
<1>1. /\ DOMAIN InFlightOrder = 1 .. 5
      /\ {InFlightOrder[i] : i \in 1 .. 5} = InFlight
  BY DEF InFlightOrder, InFlight
<1>2. \A a \in InStatus(InFlight) : \E i \in 1 .. 5 : a \in InStatus({InFlightOrder[i]})
  BY <1>1 DEF InStatus
<1> QED
  BY <1>1, <1>2, FirstOfOrder DEF Current

LEMMA FirstPendingIs ==
  \/ FirstPending = NoAssignment /\ InStatus(InFlight \union {"ready", "draft"}) = {}
  \/ FirstPending \in AssignmentId /\ status[FirstPending] \in InFlight \union {"ready", "draft"}
<1>1. /\ DOMAIN PendingOrder = 1 .. 7
      /\ PendingOrder[1] = "active" /\ PendingOrder[2] = "evidence_submitted" /\ PendingOrder[3] = "verifying"
      /\ PendingOrder[4] = "verified" /\ PendingOrder[5] = "rejected"
      /\ PendingOrder[6] = "ready" /\ PendingOrder[7] = "draft"
  <2>1. DOMAIN PendingOrder = 1 .. 7
    BY DEF PendingOrder, InFlightOrder
  <2>2. PendingOrder[1] = "active" /\ PendingOrder[2] = "evidence_submitted" /\ PendingOrder[3] = "verifying"
    BY DEF PendingOrder, InFlightOrder
  <2>3. PendingOrder[4] = "verified" /\ PendingOrder[5] = "rejected"
    BY DEF PendingOrder, InFlightOrder
  <2>4. PendingOrder[6] = "ready" /\ PendingOrder[7] = "draft"
    BY DEF PendingOrder, InFlightOrder
  <2> QED
    BY <2>1, <2>2, <2>3, <2>4
<1>2. \A i \in 1 .. 7 : PendingOrder[i] \in InFlight \union {"ready", "draft"}
  BY <1>1 DEF InFlight
<1>3. \A s \in InFlight \union {"ready", "draft"} : \E i \in 1 .. 7 : PendingOrder[i] = s
  BY <1>1 DEF InFlight
<1> HIDE DEF PendingOrder
<1>4. CASE FirstPending = NoAssignment /\ \A i \in 1 .. 7 : InStatus({PendingOrder[i]}) = {}
  <2>1. \A s \in InFlight \union {"ready", "draft"} : InStatus({s}) = {}
    BY <1>3, <1>4
  <2> QED
    BY <1>4, <2>1 DEF InStatus
<1>5. CASE FirstPending \in AssignmentId /\ \E i \in 1 .. 7 : status[FirstPending] = PendingOrder[i]
  BY <1>2, <1>5
<1> QED
  BY <1>1, <1>4, <1>5, FirstOfOrder DEF FirstPending

-----------------------------------------------------------------------------
(* The plan.                                                                *)

Unblocking(a) == [verb |-> "unblock", on |-> a]
Generation == [verb |-> "generate", on |-> Nothing]

\* The plan of a project with nothing in flight, in the order the planner looks.
LEMMA IdlePlan ==
  \/ /\ InStatus({"blocked"}) # {}
     /\ ForIdle = Recommend("run", "unblock", Least(InStatus({"blocked"})), Unblocking(Least(InStatus({"blocked"}))))
  \/ /\ InStatus({"blocked"}) = {} /\ InStatus({"ready"}) # {}
     /\ ForIdle = Recommend("run", "next", Least(InStatus({"ready"})), Generation)
  \/ /\ InStatus({"blocked"}) = {} /\ InStatus({"ready"}) = {} /\ InStatus({"draft"}) # {}
     /\ ForIdle = Advise("external", "show", Least(InStatus({"draft"})))
  \/ /\ InStatus({"blocked"}) = {} /\ InStatus({"ready"}) = {} /\ InStatus({"draft"}) = {} /\ InStatus({"closed"}) # {}
     /\ ForIdle = Advise("complete", "next", Latest)
  \/ /\ InStatus({"blocked"}) = {} /\ InStatus({"ready"}) = {} /\ InStatus({"draft"}) = {} /\ InStatus({"closed"}) = {}
     /\ ~PackInstalled
     /\ ForIdle = Advise("external", "doctor", Nothing)
  \/ /\ InStatus({"blocked"}) = {} /\ InStatus({"ready"}) = {} /\ InStatus({"draft"}) = {} /\ InStatus({"closed"}) = {}
     /\ PackInstalled
     /\ ForIdle = Recommend("run", "next", Nothing, Generation)
<1>1. \A s : InStatus({s}) # {} => Least(InStatus({s})) # Nothing
  BY LeastInStatus, NothingIsNoAct
<1> QED
  BY <1>1 DEF ForIdle, Unblocking, Generation

\* Work in flight is never `run`'s to execute, and needs attention.
LEMMA InflightPlan ==
  ASSUME NEW a \in AssignmentId, status[a] \in InFlight
  PROVE  ForInflight[a].category \in {"run", "external"} /\ ForInflight[a].act = Nothing
BY DEF ForInflight, Advise, Recommend, InFlight

\* What the plan may be, and where its act comes from.
LEMMA PlanIs ==
  \/ kernel = "absent" /\ Plan.category = "run" /\ Plan.act = Nothing
  \/ kernel = "broken" /\ Plan.category = "blocked" /\ Plan.act = Nothing
  \/ /\ kernel \notin {"absent", "broken"} /\ OpenEscalations # {}
     /\ Plan.category = "founder" /\ Plan.act = Nothing
  \/ /\ kernel \notin {"absent", "broken"} /\ OpenEscalations = {} /\ Current \in AssignmentId
     /\ Plan.category \in {"run", "external"} /\ Plan.act = Nothing
  \/ /\ kernel \notin {"absent", "broken"} /\ OpenEscalations = {}
     /\ Current = NoAssignment /\ InStatus(InFlight) = {}
     /\ Plan = ForIdle
<1>1. CASE kernel = "absent"
  BY <1>1 DEF Plan, Advise, Recommend
<1>2. CASE kernel = "broken"
  BY <1>2 DEF Plan, Advise, Recommend
<1>3. CASE kernel \notin {"absent", "broken"} /\ OpenEscalations # {}
  BY <1>3 DEF Plan, Advise, Recommend
<1>4. CASE kernel \notin {"absent", "broken"} /\ OpenEscalations = {} /\ Current # NoAssignment
  <2>1. Plan = ForInflight[Current] /\ Current \in AssignmentId /\ status[Current] \in InFlight
    BY <1>4, CurrentIs DEF Plan
  <2> QED
    BY <1>4, <2>1, InflightPlan
<1>5. CASE kernel \notin {"absent", "broken"} /\ OpenEscalations = {} /\ Current = NoAssignment
  BY <1>5, CurrentIs, NullAssumption DEF Plan
<1> QED
  BY <1>1, <1>2, <1>3, <1>4, <1>5

\* An act of the plan names the assignment it is about.
LEMMA PlanAct ==
  ASSUME Plan.act # Nothing
  PROVE  /\ kernel \notin {"absent", "broken"} /\ OpenEscalations = {} /\ InStatus(InFlight) = {}
         /\ \/ /\ Plan.act = Unblocking(Least(InStatus({"blocked"})))
               /\ InStatus({"blocked"}) # {}
            \/ /\ Plan.act = Generation /\ InStatus({"blocked"}) = {}
               /\ \/ InStatus({"ready"}) # {}
                  \/ PackInstalled /\ InStatus({"ready", "draft", "closed"}) = {}
<1>1. /\ kernel \notin {"absent", "broken"} /\ OpenEscalations = {} /\ InStatus(InFlight) = {}
      /\ Plan = ForIdle
  BY PlanIs
<1>2. InStatus({"ready", "draft", "closed"}) = InStatus({"ready"}) \union InStatus({"draft"}) \union InStatus({"closed"})
  BY DEF InStatus
<1>3. \A c, x, y, z : Recommend(c, x, y, z).act = z /\ Advise(c, x, y).act = Nothing
  BY DEF Recommend, Advise
<1> QED
  BY <1>1, <1>2, <1>3, IdlePlan

-----------------------------------------------------------------------------
(* The commands drive the project as the lifecycle allows.                  *)

\* What a terminal has read names an assignment when its call needs one.
HoldInv ==
  /\ kernel \in {"absent", "intact", "broken"}
  /\ drawn \in [Terminal -> Act \union {Nothing}]
  /\ \A t \in Terminal : ~Idle(t) /\ drawn[t].verb # "generate" => drawn[t].on \in AssignmentId

\* The operations of the service that a command runs: nobody creates, submits, rejects
\* or cancels by hand, and classification is generation's.
Commanded ==
  \/ UNCHANGED vars
  \/ \E a \in AssignmentId : \/ Start(a) \/ Resume(a) \/ Unblock(a) \/ Block(a) \/ Escalate(a)
                             \/ VerifyBegin(a) \/ VerifyPass(a) \/ VerifyFail(a) \/ Interrupt(a)
  \/ \E a \in AssignmentId, p \in Person, role \in Role : Approve(a, p, role) \/ Attest(a, p, role)
  \/ \E a \in AssignmentId, t \in Template : GenerateNext(a, t)
  \/ GenerateUndetermined \/ EscalateProject
  \/ \E e \in EscalationId, outcome \in Outcome : Resolve(e, outcome)

LEMMA CommandedIsNext == Commanded => [Next]_vars
BY DEF Commanded, Next, Operate, Decide

\* What a terminal draws is one more act, or nothing.
LEMMA VerbType ==
  ASSUME NEW a \in AssignmentId, NEW s
  PROVE  /\ Verb(s, a) \in Act \union {Nothing}
         /\ Verb(s, a) # Nothing => Verb(s, a).on \in AssignmentId
BY DEF Verb, Act

LEMMA HoldsType ==
  ASSUME HoldInv, NEW t \in Terminal, NEW act \in Act \union {Nothing}, Holds(t, act),
         kernel' \in {"absent", "intact", "broken"},
         act # Nothing /\ act.verb # "generate" => act.on \in AssignmentId
  PROVE  HoldInv'
BY DEF HoldInv, Holds, Idle

LEMMA HoldBegins == ConsoleInit => HoldInv
BY DEF ConsoleInit, HoldInv, Idle

LEMMA DrawType ==
  ASSUME HoldInv, NEW t \in Terminal, Draw(t)
  PROVE  HoldInv' /\ Commanded
<1> USE DEF health
<1>1. ASSUME FirstPending # NoAssignment, Holds(t, Verb(status[FirstPending], FirstPending)), UNCHANGED vars,
             UNCHANGED kernel
      PROVE  HoldInv' /\ Commanded
  <2>1. FirstPending \in AssignmentId
    BY <1>1, FirstPendingIs
  <2> DEFINE act == Verb(status[FirstPending], FirstPending)
  <2>2. act \in Act \union {Nothing} /\ (act # Nothing => act.on \in AssignmentId)
    BY <2>1, VerbType
  <2> HIDE DEF act
  <2>3. Holds(t, act) /\ kernel' \in {"absent", "intact", "broken"}
    BY <1>1 DEF act, HoldInv
  <2>4. HoldInv'
    BY <2>2, <2>3, HoldsType
  <2> QED
    BY <1>1, <2>4 DEF Commanded
<1>2. ASSUME NEW a \in AssignmentId, NEW b \in Template, GenerateNext(a, b), Holds(t, Verb(status'[a], a)),
             UNCHANGED kernel
      PROVE  HoldInv' /\ Commanded
  <2>0. PICK s : s = status'[a]
    OBVIOUS
  <2>1. /\ Verb(s, a) \in Act \union {Nothing} /\ (Verb(s, a) # Nothing => Verb(s, a).on \in AssignmentId)
        /\ Holds(t, Verb(s, a)) /\ kernel' \in {"absent", "intact", "broken"}
    BY <1>2, <2>0, VerbType DEF HoldInv
  <2>2. HoldInv'
    BY <2>1, HoldsType
  <2> QED
    BY <1>2, <2>2 DEF Commanded
<1>3. ASSUME GenerateUndetermined, Holds(t, Nothing), UNCHANGED kernel PROVE HoldInv' /\ Commanded
  <2>1. HoldInv'
    BY <1>3, HoldsType DEF HoldInv
  <2> QED
    BY <1>3, <2>1 DEF Commanded
<1> QED
  BY <1>1, <1>2, <1>3 DEF Draw

LEMMA ActTypes ==
  ASSUME Plan.act # Nothing
  PROVE  /\ Plan.act \in Act
         /\ Plan.act.verb # "generate" => Plan.act.on \in AssignmentId
<1>1. CASE Plan.act = Generation
  BY <1>1 DEF Generation, Act
<1>2. CASE Plan.act = Unblocking(Least(InStatus({"blocked"}))) /\ InStatus({"blocked"}) # {}
  <2>1. Least(InStatus({"blocked"})) \in AssignmentId
    BY <1>2, LeastInStatus
  <2> QED
    BY <1>2, <2>1 DEF Unblocking, Act
<1> QED
  BY <1>1, <1>2, PlanAct

\* Every step of the console is a step of the lifecycle that a command runs.
LEMMA ConsoleStep ==
  ASSUME HoldInv, [ConsoleNext]_consoleVars
  PROVE  HoldInv' /\ Commanded
<1> USE DEF health
<1>0. ASSUME UNCHANGED drawn, kernel' \in {"absent", "intact", "broken"} PROVE HoldInv'
  BY <1>0 DEF HoldInv, Idle
<1>1. ASSUME NEW t \in Terminal, NextCommand(t) PROVE HoldInv' /\ Commanded
  BY <1>1, DrawType DEF NextCommand
<1>2. ASSUME NEW t \in Terminal, ReadPlan(t) PROVE HoldInv' /\ Commanded
  <2>1. Plan.act # Nothing /\ Holds(t, Plan.act) /\ UNCHANGED vars /\ kernel' = kernel
    BY <1>2 DEF ReadPlan
  <2>2. Plan.act \in Act /\ (Plan.act.verb # "generate" => Plan.act.on \in AssignmentId)
    BY <2>1, ActTypes
  <2>3. PICK act : act = Plan.act
    OBVIOUS
  <2>4. act \in Act \union {Nothing} /\ Holds(t, act) /\ (act.verb # "generate" => act.on \in AssignmentId)
    BY <2>1, <2>2, <2>3
  <2>5. kernel' \in {"absent", "intact", "broken"}
    BY <2>1 DEF HoldInv
  <2>6. HoldInv'
    BY <2>4, <2>5, HoldsType
  <2> QED
    BY <2>1, <2>6 DEF Commanded
<1>3. ASSUME NEW t \in Terminal, Take(t) PROVE HoldInv' /\ Commanded
  <2>1. CASE drawn[t].verb = "generate" /\ Draw(t)
    BY <2>1, DrawType
  <2>2. CASE Holds(t, Nothing) /\ UNCHANGED <<vars, health, blocks>>
    <3>1. HoldInv'
      BY <2>2, HoldsType DEF HoldInv
    <3> QED
      BY <2>2, <3>1 DEF Commanded
  <2>3. CASE /\ \/ drawn[t].verb = "start" /\ Start(drawn[t].on)
                \/ drawn[t].verb = "resume" /\ Resume(drawn[t].on)
                \/ drawn[t].verb = "unblock" /\ Unblock(drawn[t].on)
             /\ Holds(t, Nothing) /\ UNCHANGED <<health, blocks>>
    <3>1. HoldInv'
      BY <2>3, HoldsType DEF HoldInv
    <3>2. drawn[t].on \in AssignmentId
      BY <1>3, <2>3 DEF HoldInv, Take
    <3> QED
      BY <2>3, <3>1, <3>2 DEF Commanded
  <2> QED
    BY <1>3, <2>1, <2>2, <2>3 DEF Take
<1>4. ASSUME NEW a \in AssignmentId, Verify(a) \/ BlockCommand(a) \/ UnblockCommand(a) PROVE HoldInv' /\ Commanded
  <2>1. HoldInv'
    BY <1>0, <1>4 DEF HoldInv, Verify, BlockCommand, UnblockCommand, Calls
  <2> QED
    BY <1>4, <2>1 DEF Verify, BlockCommand, UnblockCommand, Calls, Commanded
<1>5. ASSUME NEW a \in AssignmentId, Passes(a) \/ Engine(a) PROVE HoldInv' /\ Commanded
  <2>1. HoldInv'
    BY <1>0, <1>5 DEF HoldInv, Passes, Engine
  <2> QED
    BY <1>5, <2>1 DEF Passes, Engine, Commanded
<1>6. ASSUME NEW a \in AssignmentId, NEW p \in Person, NEW role \in Role, Complete(a, p, role)
      PROVE  HoldInv' /\ Commanded
  <2>1. HoldInv'
    BY <1>0, <1>6 DEF HoldInv, Complete, Calls
  <2> QED
    BY <1>6, <2>1 DEF Complete, Calls, Commanded
<1>7. ASSUME EscalateCommand \/ \E e \in EscalationId, outcome \in Outcome : ResolveCommand(e, outcome)
      PROVE  HoldInv' /\ Commanded
  <2>1. HoldInv'
    BY <1>0, <1>7 DEF HoldInv, EscalateCommand, ResolveCommand, Calls
  <2> QED
    BY <1>7, <2>1 DEF EscalateCommand, ResolveCommand, Calls, Commanded
<1>8. ASSUME InitProject \/ Surroundings PROVE HoldInv' /\ Commanded
  <2>1. HoldInv'
    BY <1>0, <1>8 DEF HoldInv, InitProject, Surroundings
  <2> QED
    BY <1>8, <2>1 DEF InitProject, Surroundings, Commanded
<1>9. CASE UNCHANGED consoleVars
  <2>1. HoldInv'
    BY <1>0, <1>9 DEF HoldInv, consoleVars
  <2> QED
    BY <1>9, <2>1 DEF consoleVars, Commanded
<1> QED
  BY <1>1, <1>2, <1>3, <1>4, <1>5, <1>6, <1>7, <1>8, <1>9 DEF ConsoleNext

\* Whatever commands are typed at however many terminals, however stale what they read,
\* the project takes only steps of the lifecycle, so that all its theorems hold here.
THEOREM ConsoleDrivesLifecycle == ConsoleSpec => Spec
<1>1. ConsoleInit => Init
  BY DEF ConsoleInit
<1>2. HoldInv /\ [ConsoleNext]_consoleVars => HoldInv' /\ [Next]_vars
  BY ConsoleStep, CommandedIsNext
<1> QED
  BY HoldBegins, <1>1, <1>2, PTL DEF ConsoleSpec, Spec

-----------------------------------------------------------------------------
(* What the planner lets `run` execute.                                     *)

\* Only generation registers work, with nothing pending, and no command cancels a draft:
\* whatever is no draft has its dependencies closed, and the graph builds.
GraphInv ==
  /\ \A a \in Present \ InStatus({"draft"}) : Satisfied(depends[a])
  /\ Acyclic(Present, depends)

\* Of the rows that a command takes, none leaves DRAFT.
LEMMA MoveNotDraft ==
  ASSUME NEW a \in AssignmentId, NEW event, NEW actor, Move(a, event, actor),
         event \notin {"classify_ok", "cancel"}
  PROVE  status[a] # "draft"
<1>1. \A row \in Transitions : row.from = "draft" => row.event \in {"classify_ok", "cancel"}
  BY DEF Transitions, Row
<1> QED
  BY <1>1 DEF Move, Permits

\* A step of a command moves what has left DRAFT, or issues an assignment.
LEMMA CommandShape ==
  ASSUME TypeOK, Commanded
  PROVE  \/ /\ Present' = Present /\ depends' = depends
            /\ \A a \in InStatus({"draft"}) : status'[a] = "draft"
         \/ \E a \in AssignmentId, t \in Template : GenerateNext(a, t)
<1> DEFINE Quietly == /\ Present' = Present /\ depends' = depends
                      /\ \A a \in InStatus({"draft"}) : status'[a] = "draft"
<1>1. ASSUME NEW a \in AssignmentId, NEW event, NEW actor, Move(a, event, actor), depends' = depends,
             event \notin {"classify_ok", "cancel"}
      PROVE  Quietly
  <2>1. Present' = Present /\ status[a] # "draft"
    BY <1>1, MovePresent, MoveNotDraft
  <2>2. \A b \in AssignmentId \ {a} : status'[b] = status[b]
    BY <1>1 DEF Move, TypeOK
  <2> QED
    BY <1>1, <2>1, <2>2 DEF InStatus
<1>2. ASSUME status' = status, depends' = depends PROVE Quietly
  BY <1>2 DEF Present, InStatus
<1> HIDE DEF Quietly
<1>3. ASSUME NEW a \in AssignmentId, Start(a) \/ Resume(a) \/ Unblock(a) \/ Block(a) \/ VerifyPass(a) \/ VerifyFail(a)
      PROVE  Quietly
  <2>1. depends' = depends
    BY <1>3 DEF Start, Resume, Unblock, Block, VerifyPass, VerifyFail
  <2>2. \E event \in {"start", "resume", "unblock", "block", "all_criteria_pass", "any_criterion_fail", "verifier_error"} : \E actor :
          Move(a, event, actor)
    BY <1>3 DEF Start, Resume, Unblock, Block, VerifyPass, VerifyFail
  <2> QED
    BY <1>1, <2>1, <2>2
<1>4. ASSUME NEW a \in AssignmentId, Escalate(a) PROVE Quietly
  BY <1>1, <1>2, <1>4 DEF Escalate
<1>5. ASSUME NEW a \in AssignmentId, VerifyBegin(a) PROVE Quietly
  <2>1. PICK from \in Submitted(a), row \in Transitions :
          /\ Permits(row, from, "verify_start", "kernel")
          /\ status' = [status EXCEPT ![a] = row.to]
    BY <1>5 DEF VerifyBegin
  <2>2. from = "evidence_submitted" /\ row.to = "verifying"
    BY <2>1 DEF Permits, Transitions, Row
  <2>3. status[a] \notin {Absent, "draft"}
    BY <2>2 DEF Submitted, Absent
  <2>4. depends' = depends
    BY <1>5 DEF VerifyBegin
  <2> QED
    BY <2>1, <2>2, <2>3, <2>4 DEF Present, InStatus, TypeOK, Absent, Quietly
<1>6. ASSUME NEW a \in AssignmentId, Interrupt(a) PROVE Quietly
  BY <1>2, <1>6 DEF Interrupt
<1>7. ASSUME NEW a \in AssignmentId, NEW p \in Person, NEW role \in Role, Approve(a, p, role) \/ Attest(a, p, role)
      PROVE  Quietly
  <2>1. depends' = depends
    BY <1>7 DEF Approve, Attest
  <2>2. status' = status \/ \E actor : Move(a, "approvals_complete", actor)
    BY <1>7 DEF Approve, Attest
  <2> QED
    BY <1>1, <1>2, <2>1, <2>2
<1>8. ASSUME NEW e \in EscalationId, NEW outcome \in Outcome, Resolve(e, outcome) PROVE Quietly
  <2>1. depends' = depends
    BY <1>8 DEF Resolve
  <2>2. CASE status' = status
    BY <1>2, <2>1, <2>2
  <2>3. CASE escalation[e].scope # Project /\ Move(escalation[e].scope, FounderEvent(outcome), "founder")
    <3>1. PICK a \in AssignmentId : a = escalation[e].scope
      BY <2>3 DEF TypeOK
    <3>2. PICK event : event = FounderEvent(outcome)
      OBVIOUS
    <3>3. event \notin {"classify_ok", "cancel"}
      BY <3>2 DEF FounderEvent, Outcome
    <3> QED
      BY <1>1, <2>1, <2>3, <3>1, <3>2, <3>3
  <2> QED
    BY <1>8, <2>2, <2>3 DEF Resolve
<1>9. ASSUME GenerateUndetermined \/ EscalateProject \/ UNCHANGED vars PROVE Quietly
  BY <1>2, <1>9 DEF GenerateUndetermined, EscalateProject, vars
<1>10. Quietly \/ \E a \in AssignmentId, t \in Template : GenerateNext(a, t)
  BY <1>3, <1>4, <1>5, <1>6, <1>7, <1>8, <1>9 DEF Commanded
<1> QED
  BY <1>10 DEF Quietly

LEMMA GraphBegins == Init => GraphInv
<1> SUFFICES ASSUME Init PROVE GraphInv
  OBVIOUS
<1>1. Present = {}
  BY DEF Init, Present
<1>2. \A S \in (SUBSET Present) \ {{}} : FALSE
  BY <1>1
<1>3. Acyclic(Present, depends)
  BY <1>2 DEF Acyclic
<1>4. \A a \in Present \ InStatus({"draft"}) : Satisfied(depends[a])
  BY <1>1
<1> QED
  BY <1>3, <1>4 DEF GraphInv

\* Closed dependencies stay closed.
LEMMA StaySatisfied ==
  ASSUME TypeOK, [Next]_vars, NEW deps \in SUBSET AssignmentId, Satisfied(deps)
  PROVE  Satisfied(deps)'
<1>1. \A d \in deps : d \in InStatus({"closed"})
  BY DEF Satisfied, InStatus
<1>2. \A d \in deps : status'[d] = "closed"
  BY <1>1, ClosedStaysClosed
<1> QED
  BY <1>2 DEF Satisfied

LEMMA GraphStep == ASSUME TypeOK, GraphInv, Commanded PROVE GraphInv'
<1>0. [Next]_vars
  BY CommandedIsNext
<1>1. CASE /\ Present' = Present /\ depends' = depends
           /\ \A a \in InStatus({"draft"}) : status'[a] = "draft"
  <2>1. Acyclic(Present, depends)'
    BY <1>1 DEF GraphInv, Acyclic
  <2>2. ASSUME NEW a \in (Present \ InStatus({"draft"}))' PROVE Satisfied(depends[a])'
    <3>1. a \in Present \ InStatus({"draft"}) /\ depends[a] \in SUBSET AssignmentId
      BY <1>1 DEF InStatus, Present, TypeOK
    <3>2. PICK deps \in SUBSET AssignmentId : deps = depends[a]
      BY <3>1
    <3>3. Satisfied(deps)'
      BY <1>0, <3>1, <3>2, StaySatisfied DEF GraphInv
    <3> QED
      BY <1>1, <3>2, <3>3 DEF Satisfied
  <2> QED
    BY <2>1, <2>2 DEF GraphInv
<1>2. ASSUME NEW a \in AssignmentId, NEW t \in Template, GenerateNext(a, t) PROVE GraphInv'
  <2>1. BoundDeps(t) \in SUBSET AssignmentId
    BY PackAssumption DEF BoundDeps, Latest, InStatus
  <2>2. PICK deps \in SUBSET AssignmentId : deps = BoundDeps(t)
    BY <2>1
  <2>3. /\ a \notin Present /\ a \notin deps /\ depends' = [depends EXCEPT ![a] = deps]
        /\ status'[a] \in {"ready", "draft"} /\ Present' = Present \union {a}
        /\ \A b \in AssignmentId \ {a} : status'[b] = status[b] /\ depends'[b] = depends[b]
        /\ depends'[a] = deps
        /\ status'[a] = "ready" => Satisfied(deps)
    BY <1>2, <2>2 DEF GenerateNext, Register, IsNextId, Present, TypeOK, Absent, Classifiable
  <2>4. InStatus({"draft"}) = {}
    BY <1>2 DEF GenerateNext, Generating, Pending, InStatus
  <2>5. \A b \in Present : Satisfied(depends[b]) /\ a \notin depends[b]
    <3>1. status[a] # "closed"
      BY <2>3 DEF Present, Absent
    <3> QED
      BY <2>4, <3>1 DEF GraphInv, Satisfied
  <2>6. ASSUME NEW b \in (Present \ InStatus({"draft"}))' PROVE Satisfied(depends[b])'
    <3>1. PICK ds \in SUBSET AssignmentId : ds = depends'[b]
      BY <2>3 DEF Present, TypeOK
    <3>2. Satisfied(ds)
      BY <2>3, <2>5, <3>1 DEF InStatus, Present
    <3>3. Satisfied(ds)'
      BY <1>0, <3>2, StaySatisfied
    <3> QED
      BY <3>1, <3>3 DEF Satisfied
  <2>7. ASSUME NEW S \in SUBSET Present', S # {} PROVE \E b \in S : depends'[b] \intersect S = {}
    <3>1. CASE S \subseteq {a}
      BY <2>3, <2>7, <3>1
    <3>2. CASE ~ (S \subseteq {a})
      <4>1. S \ {a} \in SUBSET Present /\ S \ {a} # {}
        BY <2>3, <3>2
      <4>2. PICK b \in S \ {a} : depends[b] \intersect (S \ {a}) = {}
        BY <4>1 DEF GraphInv, Acyclic
      <4>3. a \notin depends[b] /\ depends'[b] = depends[b]
        BY <2>3, <2>5, <4>1, <4>2 DEF Present
      <4> QED
        BY <4>2, <4>3
    <3> QED
      BY <3>1, <3>2
  <2> QED
    BY <2>6, <2>7 DEF GraphInv, Acyclic
<1> QED
  BY <1>1, <1>2, CommandShape

LEMMA PackStays == installed \in Pack /\ [ConsoleNext]_consoleVars => (installed \in Pack)'
<1> SUFFICES ASSUME installed \in Pack, [ConsoleNext]_consoleVars PROVE installed' \in Pack
  BY DEF Pack
<1> USE DEF health
<1>1. ASSUME NEW t \in Terminal, NextCommand(t) \/ ReadPlan(t) \/ Take(t) PROVE installed' = installed
  BY <1>1 DEF NextCommand, ReadPlan, Take, Draw
<1>2. ASSUME NEW a \in AssignmentId, Verify(a) \/ Passes(a) \/ Engine(a) \/ BlockCommand(a) \/ UnblockCommand(a)
      PROVE  installed' = installed
  BY <1>2 DEF Verify, Passes, Engine, BlockCommand, UnblockCommand, Calls
<1>3. ASSUME NEW a \in AssignmentId, NEW p \in Person, NEW role \in Role, Complete(a, p, role)
      PROVE  installed' = installed
  BY <1>3 DEF Complete, Calls
<1>4. ASSUME EscalateCommand \/ \E e \in EscalationId, outcome \in Outcome : ResolveCommand(e, outcome)
      PROVE  installed' = installed
  BY <1>4 DEF EscalateCommand, ResolveCommand, Calls
<1>5. ASSUME InitProject \/ Surroundings PROVE installed' \in Pack
  BY <1>5 DEF InitProject, Surroundings
<1>6. CASE UNCHANGED consoleVars
  BY <1>6 DEF consoleVars
<1> QED
  BY <1>1, <1>2, <1>3, <1>4, <1>5, <1>6 DEF ConsoleNext

\* What the planner offers `run` to execute, the service would do at once, but for a
\* generation with nothing pending and one of the named reasons to refuse it: it starts
\* ready work and unblocks blocked work without exception, and generates the first
\* assignment whenever the pack is whole and its first step can be issued.
THEOREM PlanWorks == ConsoleSpec => []PlannedActWorks
<1>1. ConsoleInit => GraphInv /\ installed \in Pack
  BY GraphBegins DEF ConsoleInit, Pack
<1>2. TypeOK /\ HoldInv /\ GraphInv /\ [ConsoleNext]_consoleVars => HoldInv' /\ GraphInv'
  BY ConsoleStep, GraphStep
<1>3. installed \in Pack /\ [ConsoleNext]_consoleVars => (installed \in Pack)'
  BY PackStays
<1>4. TypeOK /\ HoldInv /\ GraphInv /\ installed \in Pack => PlannedActWorks
  <2> SUFFICES ASSUME TypeOK, HoldInv, GraphInv, installed \in Pack, Plan.act # Nothing, ~CanTake(Plan.act)
               PROVE  Plan.act.verb = "generate" /\ Pending = {} /\ GenerationFails
    BY DEF PlannedActWorks
  <2>1. kernel = "intact" /\ OpenEscalations = {} /\ InStatus(InFlight) = {}
    BY PlanAct DEF HoldInv
  <2>2. CASE Plan.act = Unblocking(Least(InStatus({"blocked"}))) /\ InStatus({"blocked"}) # {}
    <3> DEFINE a == Least(InStatus({"blocked"}))
    <3>1. a \in AssignmentId /\ status[a] = "blocked"
      BY <2>2, LeastInStatus
    <3>2. a \in Present \ InStatus({"draft"})
      BY <3>1 DEF Present, InStatus, Absent
    <3>3. Satisfied(depends[a]) /\ Acyclic(Present, depends)
      BY <3>2 DEF GraphInv
    <3>4. Plan.act.verb = "unblock" /\ Plan.act.on = a
      BY <2>2 DEF Unblocking
    <3> HIDE DEF a
    <3>5. CanTake(Plan.act)
      BY <2>1, <3>1, <3>3, <3>4 DEF CanTake
    <3> QED
      BY <3>5
  <2>3. CASE /\ Plan.act = Generation /\ InStatus({"blocked"}) = {}
             /\ \/ InStatus({"ready"}) # {}
                \/ PackInstalled /\ InStatus({"ready", "draft", "closed"}) = {}
    <3>1. ~Occupied /\ ~OpenProjectEscalation
      BY <2>1 DEF Occupied, InFlight, ActiveSlot, InStatus, OpenProjectEscalation, OpenEscalations
    <3>2. Plan.act.verb = "generate"
      BY <2>3 DEF Generation
    <3>3. ~CanDraw
      BY <2>1, <3>2 DEF CanTake
    <3>4. FirstPending = NoAssignment
      BY <2>1, <3>1, <3>3 DEF CanDraw
    <3>5. InStatus(InFlight \union {"ready", "draft"}) = {}
      BY <3>4, FirstPendingIs, NullAssumption
    <3>6. Pending = {} /\ InStatus({"ready"}) = {}
      BY <3>5 DEF Pending, InFlight, InStatus
    <3>7. PackInstalled /\ InStatus({"ready", "draft", "closed"}) = {}
      BY <2>3, <3>6
    <3>8. \A a \in Present : status[a] \in {"cancelled", "escalated"}
      BY <2>1, <2>3, <3>7 DEF Present, InStatus, InFlight, TypeOK, Status
    <3>9. Present = InStatus({"cancelled", "escalated"})
      BY <3>8 DEF Present, InStatus, Absent
    <3>10. Present = {} => installed # "whole" \/ \E t \in Template : Successor(t) /\ ~Issuable(t)
      BY <2>1, <3>1, <3>3 DEF CanDraw
    <3>11. installed = "gone" => ~declared
      BY <3>7 DEF PackInstalled
    <3>12. GenerationFails
      BY <3>9, <3>10, <3>11 DEF GenerationFails, NoPredecessor, Pack
    <3> QED
      BY <3>2, <3>6, <3>12
  <2> QED
    BY <2>2, <2>3, PlanAct
<1>5. ConsoleSpec => []TypeOK
  BY ConsoleDrivesLifecycle, TypeCorrect, PTL
<1> QED
  BY HoldBegins, <1>1, <1>2, <1>3, <1>4, <1>5, PTL DEF ConsoleSpec

-----------------------------------------------------------------------------
(* The founder's inbox.                                                     *)

LEMMA RankIs ==
  /\ Rank \in 1 .. 6 /\ Urgent(Rank)
  /\ \A r \in 1 .. 6 : Urgent(r) => Rank <= r
<1> DEFINE S == {r \in 1 .. 6 : Urgent(r)}
<1>0. Urgent(6)
  BY DEF Urgent
<1>1. S \in SUBSET Nat /\ 6 \in S
  BY <1>0
<1> HIDE DEF S
<1>2. Least(S) \in S /\ \A r \in S : Least(S) <= r
  BY <1>1, LeastIn
<1>3. Rank = Least(S)
  BY DEF Rank, S
<1> QED
  BY <1>2, <1>3 DEF S

\* No project drops out of the inbox with work that is neither closed nor cancelled.
THEOREM InboxForgetsNothing == ConsoleSpec => []NothingForgotten
<1>1. TypeOK /\ HoldInv => NothingForgotten
  <2> SUFFICES ASSUME TypeOK, HoldInv, Unfinished # {} \/ kernel # "intact"
               PROVE  \E r \in 1 .. 5 : Urgent(r)
    BY RankIs DEF NothingForgotten, InInbox
  <2>1. CASE Plan.category \in {"blocked", "founder", "external", "run"}
    BY <2>1 DEF Urgent
  <2>2. CASE Plan.category \notin {"blocked", "founder", "external", "run"}
    <3>1. /\ kernel = "intact" /\ InStatus(InFlight) = {}
          /\ Plan = ForIdle
      BY <2>2, PlanIs DEF HoldInv
    <3>2. \A c, x, y, z : Recommend(c, x, y, z).category = c /\ Advise(c, x, y).category = c
      BY DEF Recommend, Advise
    <3>3. InStatus({"blocked"}) = {} /\ InStatus({"ready"}) = {} /\ InStatus({"draft"}) = {}
      BY <2>2, <3>1, <3>2, IdlePlan
    <3>4. PICK a \in Present : status[a] \notin {"closed", "cancelled"}
      BY <3>1 DEF Unfinished, InStatus, Present
    <3>5. status[a] = "escalated"
      BY <3>1, <3>3, <3>4 DEF InStatus, InFlight, Present, TypeOK, Status
    <3>6. Bucket(status[a]) = "blocked"
      BY <3>5 DEF Bucket, ActiveSlot
    <3>7. a \in Queued("blocked")
      BY <3>1, <3>4, <3>6 DEF Queued, Queue
    <3> QED
      BY <3>7 DEF Urgent
  <2> QED
    BY <2>1, <2>2
<1>2. HoldInv /\ [ConsoleNext]_consoleVars => HoldInv'
  BY ConsoleStep
<1>3. ConsoleSpec => []TypeOK
  BY ConsoleDrivesLifecycle, TypeCorrect, PTL
<1> QED
  BY HoldBegins, <1>1, <1>2, <1>3, PTL DEF ConsoleSpec

\* The views agree about a chain that does not verify, and none of them hands out work.
THEOREM OneVoice == ConsoleSpec => []OneVoiceOnIntegrity
<1>1. HoldInv => OneVoiceOnIntegrity
  <2> SUFFICES ASSUME HoldInv PROVE OneVoiceOnIntegrity
    OBVIOUS
  <2>1. Integrity = "failed" <=> kernel = "broken"
    BY DEF Integrity, HoldInv
  <2>2. kernel = "broken" <=> Plan.category = "blocked"
    <3>1. \A c, x, y, z : Recommend(c, x, y, z).category = c /\ Advise(c, x, y).category = c
      BY DEF Recommend, Advise
    <3>2. ForIdle.category # "blocked"
      BY <3>1, IdlePlan
    <3> QED
      BY <3>2, PlanIs
  <2>3. kernel = "broken" <=> Condition = "failure"
    BY <2>1 DEF Condition, Failures
  <2>4. kernel = "broken" <=> DoctorOutcome = "fail"
    <3>1. Found("fail") <=> Diagnosis["audit-integrity"] = "fail"
      BY DEF Found, Diagnosis
    <3>2. Diagnosis["audit-integrity"] = "fail" <=> kernel = "broken"
      BY <2>1 DEF Diagnosis
    <3> QED
      BY <3>1, <3>2 DEF DoctorOutcome
  <2>5. kernel = "broken" <=> "integrity" \in Blockers
    <3>1. Rank = 1 <=> Urgent(1)
      BY RankIs
    <3>2. Urgent(1) <=> Plan.category = "blocked"
      BY DEF Urgent
    <3> QED
      BY <2>2, <3>1, <3>2 DEF Blockers
  <2>6. kernel = "broken" => Plan.act = Nothing
    BY PlanIs
  <2>7. Packaged => Dispatchable
    BY <2>1 DEF Packaged, Dispatchable, Shown, Integrity, HoldInv
  <2> QED
    BY <2>2, <2>3, <2>4, <2>5, <2>6, <2>7 DEF OneVoiceOnIntegrity
<1>2. HoldInv /\ [ConsoleNext]_consoleVars => HoldInv'
  BY ConsoleStep
<1> QED
  BY HoldBegins, <1>1, <1>2, PTL DEF ConsoleSpec
=============================================================================
