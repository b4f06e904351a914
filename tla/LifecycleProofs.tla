---- MODULE LifecycleProofs ----
(***************************************************************************)
(* Theorems about Lifecycle, for every number of assignments, escalations  *)
(* and decisions, every pack and every set of people.                      *)
(***************************************************************************)
EXTENDS Lifecycle, WellFoundedInduction, TLAPS

-----------------------------------------------------------------------------
(* The transition table.                                                   *)

\* Every row leads to a status or to the sentinel of a founder's proceed.
LEMMA RowType == \A row \in Transitions : row.to \in Status \union {PriorState}
BY DEF Transitions, Row, Status, PriorState

\* The rows that may put an assignment into the slot from outside it.
LEMMA RowSlot ==
  \A row \in Transitions :
    row.event \notin {"start", "resume", "founder_resolve_proceed"} =>
      /\ row.to # PriorState
      /\ row.to \in ActiveSlot => row.from \in ActiveSlot
BY DEF Transitions, Row, PriorState, ActiveSlot

-----------------------------------------------------------------------------
(* Type correctness.                                                       *)

\* A transition of an assignment keeps the three variables it writes in their domains.
LEMMA MoveType ==
  ASSUME TypeOK, NEW a \in AssignmentId, NEW event, NEW actor, Move(a, event, actor)
  PROVE  /\ status' \in [AssignmentId -> Status \union {Absent}]
         /\ prior' \in [AssignmentId -> Status \union {Absent}]
         /\ active' \in AssignmentId \union {NoAssignment}
BY DEF TypeOK, Move, PriorAfter, PointerAfter

\* Every variable of the lifecycle keeps its type: what a proceed restores is a status,
\* never the table's sentinel, and the pointer names an assignment or nobody.
THEOREM TypeCorrect == Spec => []TypeOK
<1>1. Init => TypeOK
  BY NullAssumption, ManifestAssumption DEF Init, TypeOK, NoEscalation
<1>2. TypeOK /\ [Next]_vars => TypeOK'
  <2> SUFFICES ASSUME TypeOK, [Next]_vars PROVE TypeOK'
    OBVIOUS
  <2>1. CASE UNCHANGED vars
    BY <2>1 DEF vars, TypeOK
  <2>2. ASSUME NEW a \in AssignmentId, Operate(a) PROVE TypeOK'
    <3>1. CASE Classify(a)
      BY <3>1, MoveType DEF Classify, TypeOK
    <3>2. CASE Start(a)
      BY <3>2, MoveType DEF Start, TypeOK
    <3>3. CASE Submit(a)
      BY <3>3, MoveType DEF Submit, TypeOK
    <3>4. CASE VerifyBegin(a)
      <4>1. PICK from \in Submitted(a), row \in Transitions :
              /\ Permits(row, from, "verify_start", "kernel")
              /\ status' = [status EXCEPT ![a] = row.to]
              /\ active' = PointerAfter(a, from, row.to)
        BY <3>4 DEF VerifyBegin
      <4>2. row.to \in Status
        BY <4>1, RowType, RowSlot DEF Permits
      <4> QED
        BY <3>4, <4>1, <4>2 DEF VerifyBegin, PointerAfter, TypeOK
    <3>5. CASE VerifyPass(a)
      BY <3>5, MoveType DEF VerifyPass, TypeOK
    <3>6. CASE VerifyFail(a)
      BY <3>6, MoveType DEF VerifyFail, TypeOK
    <3>7. CASE Interrupt(a)
      BY <3>7 DEF Interrupt, TypeOK
    <3>8. CASE Resume(a)
      BY <3>8, MoveType DEF Resume, TypeOK
    <3>9. CASE Block(a)
      BY <3>9, MoveType DEF Block, TypeOK
    <3>10. CASE Unblock(a)
      BY <3>10, MoveType DEF Unblock, TypeOK
    <3>11. CASE Escalate(a)
      <4>1. escalation' \in [EscalationId -> [state : {"none", "open"} \union Outcome,
                                              scope : AssignmentId \union {Project}]]
        BY <3>11 DEF Escalate, OpenEscalation, TypeOK
      <4> QED
        BY <3>11, <4>1, MoveType DEF Escalate, TypeOK
    <3> QED
      BY <2>2, <3>1, <3>2, <3>3, <3>4, <3>5, <3>6, <3>7, <3>8, <3>9, <3>10, <3>11 DEF Operate
  <2>3. ASSUME NEW a \in AssignmentId, NEW p \in Person, Decide(a, p) PROVE TypeOK'
    <3>1. ASSUME NEW role \in Role, Approve(a, p, role) PROVE TypeOK'
      BY <3>1, MoveType DEF Approve, Entry, Decision, TypeOK
    <3>2. ASSUME NEW role \in Role, Attest(a, p, role) PROVE TypeOK'
      BY <3>2 DEF Attest, Entry, Decision, TypeOK
    <3>3. CASE Reject(a, p)
      BY <3>3, MoveType DEF Reject, TypeOK
    <3>4. CASE Cancel(a, p)
      BY <3>4, MoveType DEF Cancel, TypeOK
    <3> QED
      BY <2>3, <3>1, <3>2, <3>3, <3>4 DEF Decide
  <2>4. ASSUME NEW a \in AssignmentId, NEW t \in Authored, NEW deps \in SUBSET AssignmentId,
               Create(a, t, deps)
        PROVE  TypeOK'
    BY <2>4, PackAssumption DEF Create, Register, TypeOK, Status
  <2>5. ASSUME NEW a \in AssignmentId, NEW t \in Template, GenerateNext(a, t) PROVE TypeOK'
    <3>1. BoundDeps(t) \in SUBSET AssignmentId
      BY PackAssumption DEF BoundDeps, Latest, InStatus
    <3> QED
      BY <2>5, <3>1 DEF GenerateNext, Register, TypeOK, Status
  <2>6. ASSUME EscalateProject PROVE TypeOK'
    BY <2>6 DEF EscalateProject, OpenEscalation, TypeOK
  <2>7. ASSUME NEW e \in EscalationId, NEW outcome \in Outcome, Resolve(e, outcome)
        PROVE  TypeOK'
    <3>1. escalation' \in [EscalationId -> [state : {"none", "open"} \union Outcome,
                                            scope : AssignmentId \union {Project}]]
      BY <2>7 DEF Resolve, TypeOK
    <3>2. escalation[e].scope # Project => escalation[e].scope \in AssignmentId
      BY DEF TypeOK
    <3> QED
      BY <2>7, <3>1, <3>2, MoveType DEF Resolve, TypeOK
  <2> QED
    BY <2>1, <2>2, <2>3, <2>4, <2>5, <2>6, <2>7 DEF Next, GenerateUndetermined
<1> QED
  BY <1>1, <1>2, PTL DEF Spec

-----------------------------------------------------------------------------
(* INV-1.  The pointer file is what makes the single slot inductive: while *)
(* it agrees with the statuses, at most one assignment is in the slot.     *)

SlotInv == TypeOK /\ PointerFollowsStatus

\* A transition keeps the pointer in agreement when those that may enter the slot from
\* outside are taken only while it is free.
LEMMA MoveKeepsPointer ==
  ASSUME SlotInv, NEW a \in AssignmentId, NEW event, NEW actor, Move(a, event, actor),
         event \in {"start", "resume"} => SlotFree(a),
         event = "founder_resolve_proceed" /\ prior[a] \in ActiveSlot => SlotFree(a)
  PROVE  PointerFollowsStatus'
<1>1. PICK row \in Transitions :
        LET to == Target(row, prior[a]) IN
        /\ Permits(row, status[a], event, actor)
        /\ to \in Status
        /\ status' = [status EXCEPT ![a] = to]
        /\ prior' = PriorAfter(a, to)
        /\ active' = PointerAfter(a, status[a], to)
  BY DEF Move
<1> DEFINE to == Target(row, prior[a])
<1>2. to \in ActiveSlot /\ status[a] \notin ActiveSlot => SlotFree(a)
  <2>1. CASE event \notin {"start", "resume", "founder_resolve_proceed"}
    BY <1>1, <2>1, RowSlot DEF Permits, Target
  <2>2. CASE event = "founder_resolve_proceed"
    <3>1. row.to = PriorState
      BY <1>1, <2>2 DEF Permits, Transitions, Row, PriorState
    <3> QED
      BY <2>2, <3>1 DEF Target
  <2> QED
    BY <2>1, <2>2
<1>3. /\ status' = [status EXCEPT ![a] = to]
      /\ active' = PointerAfter(a, status[a], to)
  BY <1>1
<1>4. /\ status \in [AssignmentId -> Status \union {Absent}]
      /\ active \in AssignmentId \union {NoAssignment}
      /\ NoAssignment \notin AssignmentId
  BY NullAssumption DEF SlotInv, TypeOK
<1> HIDE DEF to
<1>5. CASE to \in ActiveSlot
  BY <1>2, <1>3, <1>4, <1>5 DEF SlotInv, PointerFollowsStatus, PointerAfter, SlotFree, InStatus
<1>6. CASE to \notin ActiveSlot
  BY <1>3, <1>4, <1>6 DEF SlotInv, PointerFollowsStatus, PointerAfter
<1> QED
  BY <1>5, <1>6

\* verify goes from one status of the slot to another.
LEMMA VerifyBeginKeepsPointer ==
  ASSUME SlotInv, NEW a \in AssignmentId, VerifyBegin(a)
  PROVE  PointerFollowsStatus'
<1>1. PICK from \in Submitted(a), row \in Transitions :
        /\ Permits(row, from, "verify_start", "kernel")
        /\ status' = [status EXCEPT ![a] = row.to]
        /\ active' = PointerAfter(a, from, row.to)
  BY DEF VerifyBegin
<1>2. row.to = "verifying" /\ from = "evidence_submitted"
  BY <1>1 DEF Permits, Transitions, Row
<1>3. status[a] \in ActiveSlot
  BY <1>2 DEF Submitted, ActiveSlot
<1> QED
  BY <1>1, <1>2, <1>3 DEF SlotInv, TypeOK, PointerFollowsStatus, PointerAfter, ActiveSlot

\* A new assignment does not enter the slot.
LEMMA RegisterKeepsPointer ==
  ASSUME SlotInv, NEW a \in AssignmentId, NEW t, NEW deps, Register(a, t, deps),
         NEW s \in {"draft", "ready"}, status' = [status EXCEPT ![a] = s]
  PROVE  PointerFollowsStatus'
BY DEF SlotInv, TypeOK, PointerFollowsStatus, Register, IsNextId, Present, ActiveSlot, Absent

\* The pointer file and the statuses agree in every reachable state.
THEOREM PointerAgrees == Spec => []PointerFollowsStatus
<1>1. Init => PointerFollowsStatus
  BY NullAssumption DEF Init, PointerFollowsStatus, ActiveSlot, Absent
<1>2. SlotInv /\ [Next]_vars => PointerFollowsStatus'
  <2> SUFFICES ASSUME SlotInv, [Next]_vars PROVE PointerFollowsStatus'
    OBVIOUS
  <2>1. CASE UNCHANGED vars
    BY <2>1 DEF vars, SlotInv, PointerFollowsStatus
  <2>2. ASSUME NEW a \in AssignmentId, Operate(a) PROVE PointerFollowsStatus'
    <3>1. CASE Classify(a)
      BY <3>1, MoveKeepsPointer DEF Classify
    <3>2. CASE Start(a)
      BY <3>2, MoveKeepsPointer DEF Start
    <3>3. CASE Submit(a)
      BY <3>3, MoveKeepsPointer DEF Submit
    <3>4. CASE VerifyBegin(a)
      BY <3>4, VerifyBeginKeepsPointer
    <3>5. CASE VerifyPass(a)
      BY <3>5, MoveKeepsPointer DEF VerifyPass
    <3>6. CASE VerifyFail(a)
      BY <3>6, MoveKeepsPointer DEF VerifyFail
    <3>7. CASE Interrupt(a)
      BY <3>7 DEF Interrupt, SlotInv, PointerFollowsStatus
    <3>8. CASE Resume(a)
      BY <3>8, MoveKeepsPointer DEF Resume
    <3>9. CASE Block(a)
      BY <3>9, MoveKeepsPointer DEF Block
    <3>10. CASE Unblock(a)
      BY <3>10, MoveKeepsPointer DEF Unblock
    <3>11. CASE Escalate(a)
      <4>1. CASE UNCHANGED <<status, prior, active>>
        BY <4>1 DEF SlotInv, PointerFollowsStatus
      <4> QED
        BY <3>11, <4>1, MoveKeepsPointer DEF Escalate
    <3> QED
      BY <2>2, <3>1, <3>2, <3>3, <3>4, <3>5, <3>6, <3>7, <3>8, <3>9, <3>10, <3>11 DEF Operate
  <2>3. ASSUME NEW a \in AssignmentId, NEW p \in Person, Decide(a, p) PROVE PointerFollowsStatus'
    <3>1. ASSUME NEW role \in Role, Approve(a, p, role) PROVE PointerFollowsStatus'
      <4>1. CASE UNCHANGED <<status, prior, active>>
        BY <4>1 DEF SlotInv, PointerFollowsStatus
      <4> QED
        BY <3>1, <4>1, MoveKeepsPointer DEF Approve
    <3>2. ASSUME NEW role \in Role, Attest(a, p, role) PROVE PointerFollowsStatus'
      BY <3>2 DEF Attest, SlotInv, PointerFollowsStatus
    <3>3. CASE Reject(a, p)
      BY <3>3, MoveKeepsPointer DEF Reject
    <3>4. CASE Cancel(a, p)
      BY <3>4, MoveKeepsPointer DEF Cancel
    <3> QED
      BY <2>3, <3>1, <3>2, <3>3, <3>4 DEF Decide
  <2>4. ASSUME NEW a \in AssignmentId, NEW t \in Authored, NEW deps \in SUBSET AssignmentId,
               Create(a, t, deps)
        PROVE  PointerFollowsStatus'
    BY <2>4, RegisterKeepsPointer DEF Create
  <2>5. ASSUME NEW a \in AssignmentId, NEW t \in Template, GenerateNext(a, t)
        PROVE  PointerFollowsStatus'
    BY <2>5, RegisterKeepsPointer DEF GenerateNext
  <2>6. ASSUME EscalateProject PROVE PointerFollowsStatus'
    BY <2>6 DEF EscalateProject, SlotInv, PointerFollowsStatus
  <2>7. ASSUME NEW e \in EscalationId, NEW outcome \in Outcome, Resolve(e, outcome)
        PROVE  PointerFollowsStatus'
    <3>1. CASE UNCHANGED <<status, prior, active>>
      BY <3>1 DEF SlotInv, PointerFollowsStatus
    <3>2. CASE /\ escalation[e].scope # Project
               /\ Redrives(escalation[e].scope, outcome)
               /\ Move(escalation[e].scope, FounderEvent(outcome), "founder")
      <4> DEFINE a == escalation[e].scope
      <4>1. a \in AssignmentId
        BY <3>2 DEF SlotInv, TypeOK
      <4>2. FounderEvent(outcome) \notin {"start", "resume"}
        BY DEF FounderEvent, Outcome
      <4>3. FounderEvent(outcome) = "founder_resolve_proceed" => outcome = "proceed"
        BY DEF FounderEvent, Outcome
      <4>4. FounderEvent(outcome) = "founder_resolve_proceed" /\ prior[a] \in ActiveSlot
              => SlotFree(a)
        BY <3>2, <4>3 DEF Redrives
      <4> QED
        BY <3>2, <4>1, <4>2, <4>4, MoveKeepsPointer
    <3> QED
      BY <2>7, <3>1, <3>2 DEF Resolve
  <2> QED
    BY <2>1, <2>2, <2>3, <2>4, <2>5, <2>6, <2>7 DEF Next, GenerateUndetermined
<1> QED
  BY <1>1, <1>2, TypeCorrect, PTL DEF Spec, SlotInv

\* INV-1: at most one assignment is ACTIVE, EVIDENCE_SUBMITTED or VERIFYING.
THEOREM SingleSlot == Spec => []SingleActiveSlot
<1>1. PointerFollowsStatus => SingleActiveSlot
  BY DEF PointerFollowsStatus, SingleActiveSlot, InStatus
<1> QED
  BY <1>1, PointerAgrees, PTL

-----------------------------------------------------------------------------
(* Every step of the service has one of four shapes: no assignment moves,   *)
(* one moves by a row of the table, verify takes one to VERIFYING, or one   *)
(* is registered.  StepShape says so once, action by action, with the       *)
(* guards and writes the invariants need; each invariant is then a case for *)
(* each shape.                                                              *)

\* The events that end a verification, and those that attach reasons.
VerdictEvent == {"all_criteria_pass", "any_criterion_fail", "verifier_error"}
RejectEvent == {"any_criterion_fail", "verifier_error", "review_reject"}

\* No assignment moves; what is on record may grow, and an engine may stop running.
StillStep ==
  /\ UNCHANGED <<status, body, depends, prior, reasons, active>>
  /\ decisions \subseteq decisions'
  /\ evaluating' \subseteq evaluating

\* `a` moves by this row, and what depends on the row's event is written with it.
RowStep(a, row) ==
  LET to == Target(row, prior[a]) IN
  /\ row.from = status[a]
  /\ to \in Status
  /\ status' = [status EXCEPT ![a] = to]
  /\ prior' = PriorAfter(a, to)
  /\ active' = PointerAfter(a, status[a], to)
  /\ UNCHANGED <<body, depends>>
  /\ decisions \subseteq decisions'
  /\ evaluating' = IF row.event \in VerdictEvent THEN evaluating \ {a} ELSE evaluating
  /\ reasons' = IF row.event \in RejectEvent THEN [reasons EXCEPT ![a] = TRUE]
                ELSE IF row.event = "all_criteria_pass" THEN [reasons EXCEPT ![a] = FALSE]
                ELSE reasons
  /\ row.event = "classify_ok" => Satisfied(depends[a])
  /\ row.event \in {"start", "resume"} => SlotFree(a)
  /\ row.event = "founder_resolve_proceed" /\ prior[a] \in ActiveSlot => SlotFree(a)
  /\ row.event = "all_criteria_pass" =>
       Attests[body[a]] \subseteq Recorded(a, decisions, "attested")
  /\ row.event = "approvals_complete" => ApprovalsComplete(a, decisions')

\* verify takes `a` to VERIFYING, through EVIDENCE_SUBMITTED when it was ACTIVE.
BeginStep(a) ==
  /\ status[a] \in {"active", "evidence_submitted"}
  /\ status' = [status EXCEPT ![a] = "verifying"]
  /\ active' = a
  /\ evaluating' = evaluating \union {a}
  /\ UNCHANGED <<body, depends, prior, reasons, decisions>>

\* `a` is registered, as a draft or as ready with its dependencies closed.
NewStep(a) ==
  /\ status[a] = Absent
  /\ \E t \in Template, deps \in SUBSET (AssignmentId \ {a}) :
       /\ body' = [body EXCEPT ![a] = t]
       /\ depends' = [depends EXCEPT ![a] = deps]
       /\ \/ status' = [status EXCEPT ![a] = "draft"]
          \/ status' = [status EXCEPT ![a] = "ready"] /\ Satisfied(deps)
  /\ UNCHANGED <<prior, reasons, decisions, active, evaluating>>

Shaped ==
  \/ StillStep
  \/ \E a \in AssignmentId, row \in Transitions : RowStep(a, row)
  \/ \E a \in AssignmentId : BeginStep(a)
  \/ \E a \in AssignmentId : NewStep(a)

\* A transition whose operation writes the rest as its event demands has the shape of
\* a row.
LEMMA MoveShape ==
  ASSUME TypeOK, NEW a \in AssignmentId, NEW event, NEW actor, Move(a, event, actor),
         UNCHANGED <<body, depends>>,
         decisions \subseteq decisions',
         evaluating' = IF event \in VerdictEvent THEN evaluating \ {a} ELSE evaluating,
         reasons' = IF event \in RejectEvent THEN [reasons EXCEPT ![a] = TRUE]
                    ELSE IF event = "all_criteria_pass" THEN [reasons EXCEPT ![a] = FALSE]
                    ELSE reasons,
         event = "classify_ok" => Satisfied(depends[a]),
         event \in {"start", "resume"} => SlotFree(a),
         event = "founder_resolve_proceed" /\ prior[a] \in ActiveSlot => SlotFree(a),
         event = "all_criteria_pass" =>
           Attests[body[a]] \subseteq Recorded(a, decisions, "attested"),
         event = "approvals_complete" => ApprovalsComplete(a, decisions')
  PROVE  Shaped
<1>1. PICK row \in Transitions :
        LET to == Target(row, prior[a]) IN
        /\ Permits(row, status[a], event, actor)
        /\ to \in Status
        /\ status' = [status EXCEPT ![a] = to]
        /\ prior' = PriorAfter(a, to)
        /\ active' = PointerAfter(a, status[a], to)
  BY DEF Move
<1>2. row.from = status[a] /\ row.event = event
  BY <1>1 DEF Permits
<1>3. RowStep(a, row)
  BY <1>1, <1>2 DEF RowStep
<1> QED
  BY <1>3 DEF Shaped

\* Every operation of the service takes a step of one of the four shapes.
LEMMA StepShape == ASSUME TypeOK, [Next]_vars PROVE Shaped
<1> USE DEF VerdictEvent, RejectEvent
<1>1. CASE UNCHANGED vars
  BY <1>1 DEF vars, Shaped, StillStep
<1>2. ASSUME NEW a \in AssignmentId, Operate(a) PROVE Shaped
  <2>1. CASE Classify(a)
    BY <2>1, MoveShape DEF Classify, Classifiable
  <2>2. CASE Start(a)
    BY <2>2, MoveShape DEF Start
  <2>3. CASE Submit(a)
    BY <2>3, MoveShape DEF Submit
  <2>4. CASE VerifyBegin(a)
    <3>1. PICK from \in Submitted(a), row \in Transitions :
            /\ Permits(row, from, "verify_start", "kernel")
            /\ status' = [status EXCEPT ![a] = row.to]
            /\ active' = PointerAfter(a, from, row.to)
      BY <2>4 DEF VerifyBegin
    <3>2. row.to = "verifying" /\ from = "evidence_submitted"
      BY <3>1 DEF Permits, Transitions, Row
    <3>3. status[a] \in {"active", "evidence_submitted"}
      BY <3>2 DEF Submitted
    <3>4. BeginStep(a)
      BY <2>4, <3>1, <3>2, <3>3 DEF VerifyBegin, BeginStep, PointerAfter, ActiveSlot
    <3> QED
      BY <3>4 DEF Shaped
  <2>5. CASE VerifyPass(a)
    BY <2>5, MoveShape DEF VerifyPass
  <2>6. CASE VerifyFail(a)
    <3>1. PICK event \in {"any_criterion_fail", "verifier_error"} : Move(a, event, "kernel")
      BY <2>6 DEF VerifyFail
    <3> QED
      BY <2>6, <3>1, MoveShape DEF VerifyFail
  <2>7. CASE Interrupt(a)
    BY <2>7 DEF Interrupt, Shaped, StillStep
  <2>8. CASE Resume(a)
    BY <2>8, MoveShape DEF Resume
  <2>9. CASE Block(a)
    BY <2>9, MoveShape DEF Block
  <2>10. CASE Unblock(a)
    BY <2>10, MoveShape DEF Unblock
  <2>11. CASE Escalate(a)
    <3>1. CASE UNCHANGED <<status, prior, active>>
      BY <2>11, <3>1 DEF Escalate, Shaped, StillStep
    <3>2. CASE Move(a, "escalate", IF status[a] = "ready" THEN "kernel" ELSE "owner")
      BY <2>11, <3>2, MoveShape DEF Escalate
    <3> QED
      BY <2>11, <3>1, <3>2 DEF Escalate
  <2> QED
    BY <1>2, <2>1, <2>2, <2>3, <2>4, <2>5, <2>6, <2>7, <2>8, <2>9, <2>10, <2>11 DEF Operate
<1>3. ASSUME NEW a \in AssignmentId, NEW p \in Person, Decide(a, p) PROVE Shaped
  <2>1. ASSUME NEW role \in Role, Approve(a, p, role) PROVE Shaped
    <3>1. CASE UNCHANGED <<status, prior, active>>
      BY <2>1, <3>1 DEF Approve, Shaped, StillStep
    <3>2. CASE /\ ApprovalsComplete(a, decisions')
               /\ Move(a, "approvals_complete", IF role = "owner" THEN OwnerActor(p) ELSE role)
      BY <2>1, <3>2, MoveShape DEF Approve
    <3> QED
      BY <2>1, <3>1, <3>2 DEF Approve
  <2>2. ASSUME NEW role \in Role, Attest(a, p, role) PROVE Shaped
    BY <2>2 DEF Attest, Shaped, StillStep
  <2>3. CASE Reject(a, p)
    BY <2>3, MoveShape DEF Reject
  <2>4. CASE Cancel(a, p)
    BY <2>4, MoveShape DEF Cancel
  <2> QED
    BY <1>3, <2>1, <2>2, <2>3, <2>4 DEF Decide
<1>4. ASSUME NEW a \in AssignmentId, NEW t \in Authored, NEW deps \in SUBSET AssignmentId,
             Create(a, t, deps)
      PROVE  Shaped
  <2>1. t \in Template /\ deps \in SUBSET (AssignmentId \ {a}) /\ status[a] = Absent
    BY <1>4, PackAssumption DEF Create, Register, IsNextId, Present
  <2>2. NewStep(a)
    BY <1>4, <2>1 DEF Create, Register, NewStep
  <2> QED
    BY <2>2 DEF Shaped
<1>5. ASSUME NEW a \in AssignmentId, NEW t \in Template, GenerateNext(a, t) PROVE Shaped
  <2>1. BoundDeps(t) \in SUBSET AssignmentId
    BY PackAssumption DEF BoundDeps, Latest, InStatus
  <2>2. BoundDeps(t) \in SUBSET (AssignmentId \ {a}) /\ status[a] = Absent
    BY <1>5, <2>1 DEF GenerateNext, Register, IsNextId, Present
  <2>3. depends' = [depends EXCEPT ![a] = BoundDeps(t)] /\ depends'[a] = BoundDeps(t)
    BY <1>5 DEF GenerateNext, Register, TypeOK
  <2>4. Classifiable(a, Present \union {a}, depends') => Satisfied(BoundDeps(t))
    BY <2>3 DEF Classifiable
  <2>5. NewStep(a)
    BY <1>5, <2>2, <2>3, <2>4 DEF GenerateNext, Register, NewStep
  <2> QED
    BY <2>5 DEF Shaped
<1>6. ASSUME EscalateProject PROVE Shaped
  BY <1>6 DEF EscalateProject, Shaped, StillStep
<1>7. ASSUME NEW e \in EscalationId, NEW outcome \in Outcome, Resolve(e, outcome) PROVE Shaped
  <2>1. CASE UNCHANGED <<status, prior, active>>
    BY <1>7, <2>1 DEF Resolve, Shaped, StillStep
  <2>2. CASE /\ escalation[e].scope # Project
             /\ Redrives(escalation[e].scope, outcome)
             /\ Move(escalation[e].scope, FounderEvent(outcome), "founder")
    <3> DEFINE a == escalation[e].scope
               event == FounderEvent(outcome)
    <3>1. a \in AssignmentId
      BY <2>2 DEF TypeOK
    <3>2. /\ event \in {"founder_resolve_proceed", "founder_resolve_cancel", "founder_resolve_rescope"}
          /\ event = "founder_resolve_proceed" => outcome = "proceed"
      BY DEF FounderEvent, Outcome
    <3>3. event = "founder_resolve_proceed" /\ prior[a] \in ActiveSlot => SlotFree(a)
      BY <2>2, <3>2 DEF Redrives
    <3>4. UNCHANGED <<body, depends, reasons, decisions, evaluating>> /\ Move(a, event, "founder")
      BY <1>7, <2>2 DEF Resolve
    <3> HIDE DEF a, event
    <3> QED
      BY <3>1, <3>2, <3>3, <3>4, MoveShape
  <2> QED
    BY <1>7, <2>1, <2>2 DEF Resolve
<1> QED
  BY <1>1, <1>2, <1>3, <1>4, <1>5, <1>6, <1>7 DEF Next, GenerateUndetermined

-----------------------------------------------------------------------------
(* Verification runs undisturbed.                                          *)

\* No step moves an assignment whose engine is running, save with its verdict.
LEMMA EvaluatedStep ==
  ASSUME TypeOK, EvaluatedIsVerifying, [Next]_vars PROVE EvaluatedIsVerifying'
<1>1. CASE StillStep
  <2>1. evaluating' \subseteq evaluating /\ status' = status
    BY <1>1 DEF StillStep
  <2> QED
    BY <2>1 DEF EvaluatedIsVerifying
<1>2. ASSUME NEW a \in AssignmentId, NEW row \in Transitions, RowStep(a, row)
      PROVE  EvaluatedIsVerifying'
  <2>1. row.from = "verifying" => row.event \in VerdictEvent
    BY DEF Transitions, Row, VerdictEvent
  <2>2. a \in evaluating => row.from = "verifying"
    BY <1>2 DEF RowStep, EvaluatedIsVerifying
  <2>3. a \notin evaluating'
    BY <1>2, <2>1, <2>2 DEF RowStep
  <2> QED
    BY <1>2, <2>3 DEF RowStep, EvaluatedIsVerifying, TypeOK
<1>3. ASSUME NEW a \in AssignmentId, BeginStep(a) PROVE EvaluatedIsVerifying'
  BY <1>3 DEF BeginStep, EvaluatedIsVerifying, TypeOK
<1>4. ASSUME NEW a \in AssignmentId, NewStep(a) PROVE EvaluatedIsVerifying'
  BY <1>4 DEF NewStep, EvaluatedIsVerifying, TypeOK, Absent
<1> QED
  BY <1>1, <1>2, <1>3, <1>4, StepShape DEF Shaped

\* However other operations are run meanwhile, an assignment whose verification engine
\* is running is VERIFYING: the verdict is about the status that was read.
THEOREM VerdictIsCurrent == Spec => []EvaluatedIsVerifying
<1>1. Init => EvaluatedIsVerifying
  BY DEF Init, EvaluatedIsVerifying
<1> QED
  BY <1>1, EvaluatedStep, TypeCorrect, PTL DEF Spec

-----------------------------------------------------------------------------
(* A freeze can be undone.                                                 *)

\* No step leaves an ESCALATED assignment without a status to go back to.
LEMMA FrozenStep ==
  ASSUME TypeOK, FrozenRemembersPrior, [Next]_vars PROVE FrozenRemembersPrior'
<1>1. CASE StillStep
  BY <1>1 DEF StillStep, FrozenRemembersPrior, InStatus
<1>2. ASSUME NEW a \in AssignmentId, NEW row \in Transitions, RowStep(a, row)
      PROVE  FrozenRemembersPrior'
  <2> DEFINE to == Target(row, prior[a])
  <2>1. to = "escalated" => status[a] \in {"ready", "active", "blocked"}
    <3>1. row.to = "escalated" => row.from \in {"ready", "active", "blocked"}
      BY DEF Transitions, Row, PriorState
    <3>2. row.to = PriorState => row.from = "escalated"
      BY DEF Transitions, Row, PriorState
    <3> QED
      BY <1>2, <3>1, <3>2 DEF Target, RowStep, FrozenRemembersPrior, InStatus
  <2>2. status' = [status EXCEPT ![a] = to] /\ prior' = PriorAfter(a, to)
    BY <1>2 DEF RowStep
  <2> HIDE DEF to
  <2> QED
    BY <2>1, <2>2 DEF FrozenRemembersPrior, InStatus, PriorAfter, TypeOK
<1>3. ASSUME NEW a \in AssignmentId, BeginStep(a) PROVE FrozenRemembersPrior'
  BY <1>3 DEF BeginStep, FrozenRemembersPrior, InStatus, TypeOK
<1>4. ASSUME NEW a \in AssignmentId, NewStep(a) PROVE FrozenRemembersPrior'
  BY <1>4 DEF NewStep, FrozenRemembersPrior, InStatus, TypeOK
<1> QED
  BY <1>1, <1>2, <1>3, <1>4, StepShape DEF Shaped

\* After any number of freezes, a founder's proceed finds a status it can restore: it
\* never meets the sentinel, an absent prior status or ESCALATED itself.
THEOREM FreezeIsReversible == Spec => []FrozenRemembersPrior
<1>1. Init => FrozenRemembersPrior
  BY DEF Init, FrozenRemembersPrior, InStatus, Absent
<1> QED
  BY <1>1, FrozenStep, TypeCorrect, PTL DEF Spec

-----------------------------------------------------------------------------
(* Work follows its dependencies.                                          *)

\* CLOSED has no row out of it: no step reopens an assignment.
LEMMA ClosedStaysClosed ==
  ASSUME TypeOK, [Next]_vars, NEW b \in InStatus({"closed"}) PROVE status'[b] = "closed"
<1>1. \A row \in Transitions : row.from # "closed"
  BY DEF Transitions, Row
<1>2. ASSUME NEW a \in AssignmentId, NEW row \in Transitions, RowStep(a, row)
      PROVE  status'[b] = "closed"
  BY <1>1, <1>2 DEF RowStep, InStatus, TypeOK
<1>3. ASSUME NEW a \in AssignmentId, BeginStep(a) \/ NewStep(a) PROVE status'[b] = "closed"
  BY <1>3 DEF BeginStep, NewStep, InStatus, TypeOK, Absent
<1>4. CASE StillStep
  BY <1>4 DEF StillStep, InStatus
<1> QED
  BY <1>2, <1>3, <1>4, StepShape DEF Shaped

\* No step makes an assignment executable ahead of its dependencies.
LEMMA DependenciesStep ==
  ASSUME TypeOK, WorkFollowsDependencies, [Next]_vars PROVE WorkFollowsDependencies'
<1>1. ASSUME NEW deps \in SUBSET AssignmentId, Satisfied(deps) PROVE Satisfied(deps)'
  BY <1>1, ClosedStaysClosed DEF Satisfied, InStatus
<1>2. CASE StillStep
  BY <1>2 DEF StillStep, WorkFollowsDependencies, Present, InStatus, Satisfied
<1>3. ASSUME NEW a \in AssignmentId, NEW row \in Transitions, RowStep(a, row)
      PROVE  WorkFollowsDependencies'
  <2>1. /\ row.from \notin {"cancelled", Absent}
        /\ row.from = "draft" => row.event = "classify_ok" \/ row.to = "cancelled"
        /\ row.to = "cancelled" => row.to # PriorState
    BY DEF Transitions, Row, PriorState, Absent
  <2>2. status'[a] \notin {"draft", "cancelled"} => Satisfied(depends[a])
    BY <1>3, <2>1 DEF RowStep, Target, WorkFollowsDependencies, Present, InStatus, TypeOK
  <2>3. \A b \in AssignmentId : b # a => status'[b] = status[b]
    BY <1>3 DEF RowStep, TypeOK
  <2>4. depends' = depends /\ \A b \in AssignmentId : depends[b] \in SUBSET AssignmentId
    BY <1>3 DEF RowStep, TypeOK
  <2> SUFFICES ASSUME NEW b \in (Present \ InStatus({"draft", "cancelled"}))'
               PROVE  Satisfied(depends[b])'
    BY DEF WorkFollowsDependencies
  <2>5. b \in AssignmentId /\ status'[b] \notin {Absent, "draft", "cancelled"}
    BY DEF Present, InStatus
  <2>6. Satisfied(depends[b])
    BY <2>2, <2>3, <2>5 DEF WorkFollowsDependencies, Present, InStatus
  <2>7. \A d \in depends[b] : status[d] = "closed" /\ d \in AssignmentId
    BY <2>4, <2>5, <2>6 DEF Satisfied
  <2>8. \A d \in depends'[b] : status'[d] = "closed"
    BY <2>4, <2>7, ClosedStaysClosed DEF InStatus
  <2> QED
    BY <2>8 DEF Satisfied
<1>4. ASSUME NEW a \in AssignmentId, BeginStep(a) PROVE WorkFollowsDependencies'
  <2> SUFFICES ASSUME NEW b \in (Present \ InStatus({"draft", "cancelled"}))'
               PROVE  Satisfied(depends[b])'
    BY DEF WorkFollowsDependencies
  <2>1. b \in Present \ InStatus({"draft", "cancelled"}) /\ depends' = depends
    BY <1>4 DEF BeginStep, Present, InStatus, TypeOK, Absent
  <2>2. \A d \in depends[b] : status[d] = "closed" /\ d \in AssignmentId
    BY <2>1 DEF WorkFollowsDependencies, Satisfied, Present, TypeOK
  <2>3. \A d \in depends'[b] : status'[d] = "closed"
    BY <2>1, <2>2, ClosedStaysClosed DEF InStatus
  <2> QED
    BY <2>3 DEF Satisfied
<1>5. ASSUME NEW a \in AssignmentId, NewStep(a) PROVE WorkFollowsDependencies'
  <2> SUFFICES ASSUME NEW b \in (Present \ InStatus({"draft", "cancelled"}))'
               PROVE  Satisfied(depends[b])'
    BY DEF WorkFollowsDependencies
  <2>1. PICK deps \in SUBSET (AssignmentId \ {a}) :
          /\ depends' = [depends EXCEPT ![a] = deps]
          /\ \/ status' = [status EXCEPT ![a] = "draft"]
             \/ status' = [status EXCEPT ![a] = "ready"] /\ Satisfied(deps)
    BY <1>5 DEF NewStep
  <2>2. b \in AssignmentId
    BY DEF Present
  <2>3. CASE b = a
    <3>1. depends'[b] = deps /\ Satisfied(deps)
      BY <2>1, <2>3 DEF Present, InStatus, TypeOK
    <3>2. \A d \in deps : status[d] = "closed" /\ d \in AssignmentId
      BY <3>1 DEF Satisfied
    <3>3. \A d \in depends'[b] : status'[d] = "closed"
      BY <3>1, <3>2, ClosedStaysClosed DEF InStatus
    <3> QED
      BY <3>3 DEF Satisfied
  <2>4. CASE b # a
    <3>1. b \in Present \ InStatus({"draft", "cancelled"}) /\ depends'[b] = depends[b]
      BY <2>1, <2>2, <2>4 DEF Present, InStatus, TypeOK
    <3>2. \A d \in depends[b] : status[d] = "closed" /\ d \in AssignmentId
      BY <3>1 DEF WorkFollowsDependencies, Satisfied, Present, TypeOK
    <3>3. \A d \in depends'[b] : status'[d] = "closed"
      BY <3>1, <3>2, ClosedStaysClosed DEF InStatus
    <3> QED
      BY <3>3 DEF Satisfied
  <2> QED
    BY <2>3, <2>4
<1> QED
  BY <1>2, <1>3, <1>4, <1>5, StepShape DEF Shaped

\* What an executable assignment depends on is CLOSED and stays CLOSED, through every
\* freeze, rejection and founder decision, although it is checked only once.
THEOREM DependenciesHold == Spec => []WorkFollowsDependencies
<1>1. Init => WorkFollowsDependencies
  BY DEF Init, WorkFollowsDependencies, Present
<1> QED
  BY <1>1, DependenciesStep, TypeCorrect, PTL DEF Spec

-----------------------------------------------------------------------------
(* Reasons follow verdicts.                                                *)

\* A founder's proceed leads to READY, ACTIVE or BLOCKED, never to a status that a
\* verdict or an approval leads to: each of those is reached by its own events only.
LEMMA RowTarget ==
  ASSUME FrozenRemembersPrior, NEW a \in AssignmentId, NEW row \in Transitions, RowStep(a, row)
  PROVE  LET to == Target(row, prior[a]) IN
         /\ to = "rejected" => row.event \in RejectEvent
         /\ to = "verified" => row.event = "all_criteria_pass" /\ row.from = "verifying"
         /\ to = "closed" => row.event = "approvals_complete" /\ row.from = "verified"
         /\ row.event \in RejectEvent => to = "rejected"
         /\ row.event = "all_criteria_pass" => to = "verified"
<1>1. /\ row.to = "rejected" => row.event \in RejectEvent
      /\ row.to = "verified" => row.event = "all_criteria_pass" /\ row.from = "verifying"
      /\ row.to = "closed" => row.event = "approvals_complete" /\ row.from = "verified"
      /\ row.event \in RejectEvent => row.to = "rejected"
      /\ row.event = "all_criteria_pass" => row.to = "verified"
      /\ row.to = PriorState => row.from = "escalated"
  BY DEF Transitions, Row, PriorState, RejectEvent
<1>2. row.to = PriorState => prior[a] \in {"ready", "active", "blocked"}
  BY <1>1 DEF RowStep, FrozenRemembersPrior, InStatus
<1> QED
  BY <1>1, <1>2 DEF Target, PriorState

\* No step changes a verdict without its reasons, or the reasons without their verdict.
LEMMA ReasonsStep ==
  ASSUME TypeOK, FrozenRemembersPrior, ReasonsMatchVerdict, [Next]_vars
  PROVE  ReasonsMatchVerdict'
<1>1. CASE StillStep
  BY <1>1 DEF StillStep, ReasonsMatchVerdict, InStatus
<1>2. ASSUME NEW a \in AssignmentId, NEW row \in Transitions, RowStep(a, row)
      PROVE  ReasonsMatchVerdict'
  <2> DEFINE to == Target(row, prior[a])
  <2>1. /\ to = "rejected" => row.event \in RejectEvent
        /\ to = "verified" => row.event = "all_criteria_pass" /\ row.from = "verifying"
        /\ to = "closed" => row.event = "approvals_complete" /\ row.from = "verified"
        /\ row.event \in RejectEvent => to = "rejected"
        /\ row.event = "all_criteria_pass" => to = "verified"
    BY <1>2, RowTarget
  <2>2. /\ row.from = status[a]
        /\ status' = [status EXCEPT ![a] = to]
        /\ reasons' = IF row.event \in RejectEvent THEN [reasons EXCEPT ![a] = TRUE]
                      ELSE IF row.event = "all_criteria_pass" THEN [reasons EXCEPT ![a] = FALSE]
                      ELSE reasons
    BY <1>2 DEF RowStep
  <2>3. "all_criteria_pass" \notin RejectEvent /\ "approvals_complete" \notin RejectEvent
    BY DEF RejectEvent
  <2> HIDE DEF to
  <2>4. \A b \in AssignmentId : b # a => status'[b] = status[b] /\ reasons'[b] = reasons[b]
    BY <2>2 DEF TypeOK
  <2>5. status'[a] = to
    BY <2>2 DEF TypeOK
  <2>6. to = "rejected" => reasons'[a] = TRUE
    BY <2>1, <2>2 DEF TypeOK
  <2>7. to = "verified" => reasons'[a] = FALSE
    BY <2>1, <2>2, <2>3 DEF TypeOK
  <2>8. to = "closed" => reasons'[a] = reasons[a] /\ status[a] = "verified"
    BY <2>1, <2>2, <2>3
  <2>9. to = "closed" => reasons'[a] = FALSE
    BY <2>8 DEF ReasonsMatchVerdict, InStatus, TypeOK
  <2>10. \A b \in AssignmentId :
           /\ status'[b] = "rejected" => reasons'[b]
           /\ status'[b] \in {"verified", "closed"} => ~reasons'[b]
    BY <2>4, <2>5, <2>6, <2>7, <2>9 DEF ReasonsMatchVerdict, InStatus
  <2> QED
    BY <2>10 DEF ReasonsMatchVerdict, InStatus
<1>3. ASSUME NEW a \in AssignmentId, BeginStep(a) PROVE ReasonsMatchVerdict'
  BY <1>3 DEF BeginStep, ReasonsMatchVerdict, InStatus, TypeOK
<1>4. ASSUME NEW a \in AssignmentId, NewStep(a) PROVE ReasonsMatchVerdict'
  BY <1>4 DEF NewStep, ReasonsMatchVerdict, InStatus, TypeOK
<1> QED
  BY <1>1, <1>2, <1>3, <1>4, StepShape DEF Shaped

\* A REJECTED assignment has reasons attached, a VERIFIED or CLOSED one has none.
THEOREM ReasonsAgree == Spec => []ReasonsMatchVerdict
<1>1. Init => ReasonsMatchVerdict
  BY DEF Init, ReasonsMatchVerdict, InStatus, Absent
<1> QED
  BY <1>1, ReasonsStep, TypeCorrect, FreezeIsReversible, PTL DEF Spec

-----------------------------------------------------------------------------
(* Authority.  The attestations a body demands are on record from the      *)
(* moment it is VERIFIED, and approvals are only added afterwards.         *)

HasAttestations(a) == Attests[body[a]] \subseteq Recorded(a, decisions, "attested")

AuthorityInv ==
  /\ \A a \in Present : body[a] \in Template
  /\ \A a \in InStatus({"verified", "closed"}) : HasAttestations(a)
  /\ \A a \in InStatus({"closed"}) : ApprovalsComplete(a, decisions)

\* What is on record stays on record.
LEMMA RecordGrows ==
  ASSUME NEW a \in AssignmentId, NEW kind, decisions \subseteq decisions', body'[a] = body[a]
  PROVE  Recorded(a, decisions, kind) \subseteq Recorded(a, decisions, kind)'
BY DEF Recorded

\* An assignment that keeps its body keeps its attestations and approvals.
LEMMA AuthorityGrows ==
  ASSUME NEW a \in AssignmentId, decisions \subseteq decisions', body'[a] = body[a]
  PROVE  /\ HasAttestations(a) => HasAttestations(a)'
         /\ ApprovalsComplete(a, decisions) => ApprovalsComplete(a, decisions)'
<1>1. Recorded(a, decisions, "attested") \subseteq Recorded(a, decisions, "attested")'
  BY RecordGrows
<1>2. Recorded(a, decisions, "approved") \subseteq Recorded(a, decisions, "approved")'
  BY RecordGrows
<1> QED
  BY <1>1, <1>2 DEF HasAttestations, ApprovalsComplete

\* No step verifies without the attestations or closes without the approvals.
LEMMA AuthorityStep ==
  ASSUME TypeOK, FrozenRemembersPrior, AuthorityInv, [Next]_vars PROVE AuthorityInv'
<1>1. CASE StillStep
  <2>1. UNCHANGED <<status, body>> /\ decisions \subseteq decisions'
    BY <1>1 DEF StillStep
  <2>2. \A a \in AssignmentId :
          /\ HasAttestations(a) => HasAttestations(a)'
          /\ ApprovalsComplete(a, decisions) => ApprovalsComplete(a, decisions)'
    BY <2>1, AuthorityGrows
  <2> QED
    BY <2>1, <2>2 DEF AuthorityInv, Present, InStatus
<1>2. ASSUME NEW a \in AssignmentId, NEW row \in Transitions, RowStep(a, row)
      PROVE  AuthorityInv'
  <2> DEFINE to == Target(row, prior[a])
  <2>1. /\ to = "verified" => row.event = "all_criteria_pass"
        /\ to = "closed" => row.event = "approvals_complete" /\ row.from = "verified"
    BY <1>2, RowTarget
  <2>2. /\ row.from = status[a]
        /\ status' = [status EXCEPT ![a] = to]
        /\ body' = body
        /\ decisions \subseteq decisions'
        /\ row.event = "all_criteria_pass" => HasAttestations(a)
        /\ row.event = "approvals_complete" => ApprovalsComplete(a, decisions')
    BY <1>2 DEF RowStep, HasAttestations
  <2>3. \A b \in AssignmentId :
          /\ HasAttestations(b) => HasAttestations(b)'
          /\ ApprovalsComplete(b, decisions) => ApprovalsComplete(b, decisions)'
    BY <2>2, AuthorityGrows
  <2>4. row.from # Absent
    BY DEF Transitions, Row, Absent
  <2>5. ApprovalsComplete(a, decisions') => ApprovalsComplete(a, decisions)'
    BY <2>2 DEF ApprovalsComplete, Recorded
  <2> HIDE DEF to
  <2>6. status'[a] = to /\ \A b \in AssignmentId : b # a => status'[b] = status[b]
    BY <2>2 DEF TypeOK
  <2>7. \A b \in Present' : body'[b] \in Template
    BY <2>2, <2>4, <2>6 DEF AuthorityInv, Present
  <2>8. to \in {"verified", "closed"} => HasAttestations(a)
    BY <2>1, <2>2 DEF AuthorityInv, InStatus
  <2>9. \A b \in InStatus({"verified", "closed"})' : HasAttestations(b)'
    BY <2>3, <2>6, <2>8 DEF AuthorityInv, InStatus
  <2>10. to = "closed" => ApprovalsComplete(a, decisions)'
    BY <2>1, <2>2, <2>5
  <2>11. \A b \in InStatus({"closed"})' : ApprovalsComplete(b, decisions)'
    BY <2>3, <2>6, <2>10 DEF AuthorityInv, InStatus
  <2> QED
    BY <2>7, <2>9, <2>11 DEF AuthorityInv
<1>3. ASSUME NEW a \in AssignmentId, BeginStep(a) PROVE AuthorityInv'
  <2>1. UNCHANGED <<body, decisions>> /\ status' = [status EXCEPT ![a] = "verifying"]
    BY <1>3 DEF BeginStep
  <2>2. \A b \in AssignmentId :
          /\ HasAttestations(b) => HasAttestations(b)'
          /\ ApprovalsComplete(b, decisions) => ApprovalsComplete(b, decisions)'
    BY <2>1, AuthorityGrows
  <2>3. Present' = Present
    BY <1>3 DEF BeginStep, Present, TypeOK, Absent
  <2> QED
    BY <2>1, <2>2, <2>3 DEF AuthorityInv, InStatus, TypeOK
<1>4. ASSUME NEW a \in AssignmentId, NewStep(a) PROVE AuthorityInv'
  <2>1. /\ decisions' = decisions
        /\ \E t \in Template : body' = [body EXCEPT ![a] = t]
        /\ \/ status' = [status EXCEPT ![a] = "draft"]
           \/ status' = [status EXCEPT ![a] = "ready"]
    BY <1>4 DEF NewStep
  <2>2. \A b \in AssignmentId : b # a => body'[b] = body[b] /\ status'[b] = status[b]
    BY <2>1 DEF TypeOK
  <2>3. body'[a] \in Template /\ status'[a] \in {"draft", "ready"}
    BY <2>1 DEF TypeOK
  <2>4. \A b \in AssignmentId : b # a =>
          /\ HasAttestations(b) => HasAttestations(b)'
          /\ ApprovalsComplete(b, decisions) => ApprovalsComplete(b, decisions)'
    BY <2>1, <2>2, AuthorityGrows
  <2> QED
    BY <2>2, <2>3, <2>4 DEF AuthorityInv, Present, InStatus
<1> QED
  BY <1>1, <1>2, <1>3, <1>4, StepShape DEF Shaped

\* With every role of its mode authorized on record, an assignment is closed by those
\* the manifest gives the authority to close it.
LEMMA RolesGiveAuthority == ASSUME TypeOK, AuthorityInv PROVE ClosedWithAuthority
<1> SUFFICES ASSUME NEW a \in InStatus({"closed"})
             PROVE  /\ \A role \in Required(body[a]) : OnRecord(a, role, "approved")
                    /\ \A role \in Attests[body[a]] : OnRecord(a, role, "attested")
                    /\ ModeOf[body[a]] # "fast" =>
                         \E d \in decisions : /\ d.assignment = a
                                              /\ d.kind = "approved"
                                              /\ d.actor \in Owners \ {OwnerOf[body[a]]}
                    /\ body[a] \in FounderGated =>
                         Entry(a, "founder", Founder, "approved") \in decisions
  BY DEF ClosedWithAuthority
<1>1. body[a] \in Template /\ HasAttestations(a) /\ ApprovalsComplete(a, decisions)
  BY DEF AuthorityInv, InStatus, Present, Absent
<1>2. \A role \in Required(body[a]) :
        \E d \in decisions : /\ d.assignment = a
                             /\ d.role = role
                             /\ d.kind = "approved"
                             /\ Authorized(role, d.actor, OwnerOf[body[a]])
  BY <1>1 DEF ApprovalsComplete, Recorded
<1>3. \A role \in Required(body[a]) : OnRecord(a, role, "approved")
  BY <1>2 DEF OnRecord
<1>4. \A role \in Attests[body[a]] : OnRecord(a, role, "attested")
  BY <1>1 DEF HasAttestations, Recorded, OnRecord
<1>5. ModeOf[body[a]] # "fast" => "reviewer" \in Required(body[a])
  BY <1>1, PackAssumption DEF Required, Mode
<1>6. \A p : Authorized("reviewer", p, OwnerOf[body[a]]) => p \in Owners \ {OwnerOf[body[a]]}
  BY DEF Authorized
<1>7. body[a] \in FounderGated => "founder" \in Required(body[a])
  BY DEF Required
<1>8. \A p : Authorized("founder", p, OwnerOf[body[a]]) => p = Founder
  BY DEF Authorized
<1>9. ModeOf[body[a]] # "fast" =>
        \E d \in decisions : /\ d.assignment = a
                             /\ d.kind = "approved"
                             /\ d.actor \in Owners \ {OwnerOf[body[a]]}
  BY <1>2, <1>5, <1>6
<1>10. ASSUME body[a] \in FounderGated
       PROVE  Entry(a, "founder", Founder, "approved") \in decisions
  <2>1. PICK d \in decisions : /\ d.assignment = a
                               /\ d.role = "founder"
                               /\ d.kind = "approved"
                               /\ d.actor = Founder
    BY <1>2, <1>7, <1>8, <1>10
  <2>2. d \in Decision
    BY DEF TypeOK
  <2>3. d = Entry(a, "founder", Founder, "approved")
    BY <2>1, <2>2 DEF Decision, Entry
  <2> QED
    BY <2>3
<1> QED
  BY <1>3, <1>4, <1>9, <1>10

\* Nothing closes without the approvals of its mode and work type, the attestations its
\* criteria demand and, above fast mode, an owner other than its own.
THEOREM AuthorityHolds == Spec => []ClosedWithAuthority
<1>1. Init => AuthorityInv
  BY DEF Init, AuthorityInv, Present, InStatus, Absent
<1> QED
  BY <1>1, AuthorityStep, RolesGiveAuthority, TypeCorrect, FreezeIsReversible, PTL DEF Spec

-----------------------------------------------------------------------------
(* Nobody is waited for in vain.  An assignment that is not CLOSED lacks   *)
(* an approval, whatever its status: those given before a rejection stay   *)
(* on record, and the decision that completes them closes it.              *)

AwaitInv ==
  /\ \A a \in Present : body[a] \in Template
  /\ \A d \in decisions : d.assignment \in Present
  /\ \A a \in Present \ InStatus({"closed"}) : ~ApprovalsComplete(a, decisions)

\* An assignment that has a file keeps it, and its body.
LEMMA PresentStays ==
  ASSUME TypeOK, [Next]_vars, NEW b \in Present PROVE b \in Present' /\ body'[b] = body[b]
<1>1. ASSUME NEW a \in AssignmentId, NEW row \in Transitions, RowStep(a, row)
      PROVE  b \in Present' /\ body'[b] = body[b]
  BY <1>1 DEF RowStep, Present, TypeOK, Status, Absent
<1>2. ASSUME NEW a \in AssignmentId, BeginStep(a) PROVE b \in Present' /\ body'[b] = body[b]
  BY <1>2 DEF BeginStep, Present, TypeOK, Absent
<1>3. ASSUME NEW a \in AssignmentId, NewStep(a) PROVE b \in Present' /\ body'[b] = body[b]
  BY <1>3 DEF NewStep, Present, TypeOK, Absent
<1>4. CASE StillStep
  BY <1>4 DEF StillStep, Present
<1> QED
  BY <1>1, <1>2, <1>3, <1>4, StepShape DEF Shaped

\* An assignment that appears has the body of a template.
LEMMA NewBody ==
  ASSUME TypeOK, [Next]_vars, NEW b \in Present', b \notin Present PROVE body'[b] \in Template
<1>1. ASSUME NEW a \in AssignmentId, NEW row \in Transitions, RowStep(a, row) PROVE FALSE
  <2>1. row.from # Absent
    BY DEF Transitions, Row, Absent
  <2> QED
    BY <1>1, <2>1 DEF RowStep, Present, TypeOK
<1>2. ASSUME NEW a \in AssignmentId, BeginStep(a) PROVE FALSE
  BY <1>2 DEF BeginStep, Present, TypeOK, Absent
<1>3. ASSUME NEW a \in AssignmentId, NewStep(a) PROVE body'[b] \in Template
  BY <1>3 DEF NewStep, Present, TypeOK, Absent
<1>4. CASE StillStep
  BY <1>4 DEF StillStep, Present
<1> QED
  BY <1>1, <1>2, <1>3, <1>4, StepShape DEF Shaped

\* Only approve and attest put decisions on record.
LEMMA DecisionShape ==
  ASSUME [Next]_vars
  PROVE  \/ decisions' = decisions
         \/ \E a \in AssignmentId, p \in Person, role \in Role :
              Approve(a, p, role) \/ Attest(a, p, role)
<1> DEFINE Goal == \/ decisions' = decisions
                   \/ \E a \in AssignmentId, p \in Person, role \in Role :
                        Approve(a, p, role) \/ Attest(a, p, role)
<1>1. ASSUME NEW a \in AssignmentId, Operate(a) PROVE decisions' = decisions
  BY <1>1 DEF Operate, Classify, Start, Submit, VerifyBegin, VerifyPass, VerifyFail, Interrupt,
              Resume, Block, Unblock, Escalate
<1>2. ASSUME NEW a \in AssignmentId, NEW p \in Person, Decide(a, p) PROVE Goal
  BY <1>2 DEF Decide, Reject, Cancel
<1>3. ASSUME \/ \E a \in AssignmentId, t \in Authored, deps \in SUBSET AssignmentId : Create(a, t, deps)
             \/ \E a \in AssignmentId, t \in Template : GenerateNext(a, t)
             \/ GenerateUndetermined
             \/ EscalateProject
             \/ \E e \in EscalationId, outcome \in Outcome : Resolve(e, outcome)
             \/ UNCHANGED vars
      PROVE  decisions' = decisions
  BY <1>3 DEF Create, GenerateNext, GenerateUndetermined, EscalateProject, Resolve, Register, vars
<1> QED
  BY <1>1, <1>2, <1>3 DEF Next

\* No step leaves an assignment open with all its approvals.
LEMMA AwaitStep == ASSUME TypeOK, AwaitInv, [Next]_vars PROVE AwaitInv'
<1>1. \A b \in Present' : body'[b] \in Template
  BY PresentStays, NewBody DEF AwaitInv
<1>2. \A d \in decisions' : d.assignment \in Present'
  <2>1. ASSUME NEW a \in AssignmentId, NEW p \in Person, NEW role \in Role,
               Approve(a, p, role) \/ Attest(a, p, role), NEW d \in decisions'
        PROVE  d.assignment \in Present
    BY <2>1 DEF Approve, Attest, Entry, AwaitInv, Present, Absent
  <2> QED
    BY <2>1, DecisionShape, PresentStays DEF AwaitInv
<1>3. ASSUME NEW b \in Present', status'[b] # "closed", ApprovalsComplete(b, decisions)' PROVE FALSE
  <2>1. b \in AssignmentId
    BY DEF Present
  <2>2. \A role \in Required(body'[b]) :
          \E d \in decisions' : /\ d.assignment = b
                                /\ d.role = role
                                /\ d.kind = "approved"
                                /\ Authorized(role, d.actor, OwnerOf[body'[b]])
    BY <1>3 DEF ApprovalsComplete, Recorded
  <2>3. CASE b \in Present
    <3>1. body'[b] = body[b] /\ ~ApprovalsComplete(b, decisions)
      BY <1>3, <2>3, PresentStays, ClosedStaysClosed DEF AwaitInv, InStatus
    <3>2. Required(body[b]) \subseteq Role
      BY <2>3, PackAssumption DEF AwaitInv, Required, Mode, Role
    <3>3. PICK d \in decisions' \ decisions : d.assignment = b /\ d.kind = "approved"
      BY <2>2, <3>1, <3>2 DEF ApprovalsComplete, Recorded
    <3>4. PICK p \in Person, role \in Role : Approve(b, p, role)
      <4>1. PICK a \in AssignmentId, p \in Person, role \in Role :
              Approve(a, p, role) \/ Attest(a, p, role)
        BY <3>3, DecisionShape
      <4>2. ~Attest(a, p, role)
        BY <3>3 DEF Attest, Entry
      <4>3. Approve(a, p, role) => a = b
        BY <3>3 DEF Approve, Entry
      <4> QED
        BY <4>1, <4>2, <4>3
    <3>5. ApprovalsComplete(b, decisions')
      BY <2>2, <3>1, <3>2 DEF ApprovalsComplete, Recorded
    <3>6. PICK actor : Move(b, "approvals_complete", actor)
      BY <3>4, <3>5 DEF Approve
    <3>7. \A row \in Transitions : row.event = "approvals_complete" => row.to = "closed"
      BY DEF Transitions, Row
    <3>8. status'[b] = "closed"
      BY <2>1, <3>6, <3>7 DEF Move, Permits, Target, PriorState, TypeOK
    <3> QED
      BY <1>3, <3>8
  <2>4. CASE b \notin Present
    <3>1. body'[b] \in Template
      BY <2>4, NewBody
    <3>2. PICK role : role \in Required(body'[b])
      BY <3>1, PackAssumption DEF Required, Mode
    <3>3. PICK d \in decisions' : d.assignment = b
      BY <2>2, <3>2
    <3>4. ASSUME NEW a \in AssignmentId, NEW p \in Person, NEW r \in Role,
                 Approve(a, p, r) \/ Attest(a, p, r)
          PROVE  d.assignment \in Present
      BY <3>4 DEF Approve, Attest, Entry, AwaitInv, Present, Absent
    <3> QED
      BY <2>4, <3>3, <3>4, DecisionShape DEF AwaitInv
  <2> QED
    BY <2>3, <2>4
<1> QED
  BY <1>1, <1>2, <1>3 DEF AwaitInv, Present, InStatus

\* A VERIFIED assignment, also one rejected in review and verified again, always lacks an
\* approval its mode or work type requires: none waits with all of them on record.
THEOREM ApprovalAwaited == Spec => []VerifiedAwaitsApproval
<1>1. Init => AwaitInv
  BY DEF Init, AwaitInv, Present, InStatus, Absent
<1>2. AwaitInv => VerifiedAwaitsApproval
  BY DEF AwaitInv, VerifiedAwaitsApproval, InStatus, Present, Absent
<1> QED
  BY <1>1, <1>2, AwaitStep, TypeCorrect, PTL DEF Spec

-----------------------------------------------------------------------------
(* The pipeline.                                                           *)

\* A transition moves an assignment that has a file, and no CANCELLED one.
LEMMA MovePresent ==
  ASSUME TypeOK, NEW a \in AssignmentId, NEW event, NEW actor, Move(a, event, actor)
  PROVE  Present' = Present
<1>1. \A row \in Transitions : row.from # Absent
  BY DEF Transitions, Row, Absent
<1>2. status[a] # Absent
  BY <1>1 DEF Move, Permits
<1>3. PICK to \in Status : status' = [status EXCEPT ![a] = to]
  BY DEF Move
<1> QED
  BY <1>2, <1>3 DEF Present, TypeOK, Status, Absent

\* An assignment appears only by create or by generate_next.
LEMMA IssueShape ==
  ASSUME TypeOK, [Next]_vars, NEW b \in AssignmentId, b \notin Present, b \in Present'
  PROVE  \/ \E t \in Authored, deps \in SUBSET AssignmentId : Create(b, t, deps)
         \/ \E t \in Template : GenerateNext(b, t)
<1>1. ASSUME NEW a \in AssignmentId, Operate(a) PROVE FALSE
  <2>1. CASE VerifyBegin(a)
    <3>1. PICK from \in Submitted(a), row \in Transitions :
            /\ Permits(row, from, "verify_start", "kernel")
            /\ status' = [status EXCEPT ![a] = row.to]
      BY <2>1 DEF VerifyBegin
    <3>2. from = "evidence_submitted"
      BY <3>1 DEF Permits, Transitions, Row
    <3>3. status[a] # Absent
      BY <3>2 DEF Submitted, Absent
    <3> QED
      BY <3>1, <3>3 DEF Present, TypeOK
  <2>2. CASE \E event, actor : Move(a, event, actor)
    BY <2>2, MovePresent
  <2>3. CASE status' = status
    BY <2>3 DEF Present
  <2> QED
    BY <1>1, <2>1, <2>2, <2>3
       DEF Operate, Classify, Start, Submit, VerifyPass, VerifyFail, Interrupt, Resume, Block,
           Unblock, Escalate
<1>2. ASSUME NEW a \in AssignmentId, NEW p \in Person, Decide(a, p) PROVE FALSE
  <2>1. CASE \E event, actor : Move(a, event, actor)
    BY <2>1, MovePresent
  <2>2. CASE status' = status
    BY <2>2 DEF Present
  <2> QED
    BY <1>2, <2>1, <2>2 DEF Decide, Approve, Attest, Reject, Cancel
<1>3. ASSUME NEW e \in EscalationId, NEW outcome \in Outcome, Resolve(e, outcome) PROVE FALSE
  <2>1. CASE status' = status
    BY <2>1 DEF Present
  <2>2. CASE /\ escalation[e].scope # Project
             /\ Move(escalation[e].scope, FounderEvent(outcome), "founder")
    <3>1. escalation[e].scope \in AssignmentId
      BY <2>2 DEF TypeOK
    <3> QED
      BY <2>2, <3>1, MovePresent
  <2> QED
    BY <1>3, <2>1, <2>2 DEF Resolve
<1>4. CASE GenerateUndetermined \/ EscalateProject \/ UNCHANGED vars
  BY <1>4 DEF GenerateUndetermined, EscalateProject, vars, Present
<1>5. ASSUME NEW a \in AssignmentId, NEW t, NEW deps, Register(a, t, deps), NEW s,
             status' = [status EXCEPT ![a] = s]
      PROVE  a = b
  BY <1>5 DEF Present, TypeOK
<1>6. ASSUME NEW a \in AssignmentId, NEW t \in Authored, NEW deps \in SUBSET AssignmentId,
             Create(a, t, deps)
      PROVE  a = b
  BY <1>5, <1>6 DEF Create
<1>7. ASSUME NEW a \in AssignmentId, NEW t \in Template, GenerateNext(a, t) PROVE a = b
  BY <1>5, <1>7 DEF GenerateNext
<1> QED
  BY <1>1, <1>2, <1>3, <1>4, <1>6, <1>7 DEF Next

\* CANCELLED has no row out of it.
LEMMA CancelledStays ==
  ASSUME TypeOK, [Next]_vars, NEW b \in InStatus({"cancelled"}) PROVE status'[b] = "cancelled"
<1>1. \A row \in Transitions : row.from # "cancelled"
  BY DEF Transitions, Row
<1>2. ASSUME NEW a \in AssignmentId, NEW row \in Transitions, RowStep(a, row)
      PROVE  status'[b] = "cancelled"
  BY <1>1, <1>2 DEF RowStep, InStatus, TypeOK
<1>3. ASSUME NEW a \in AssignmentId, BeginStep(a) \/ NewStep(a) PROVE status'[b] = "cancelled"
  BY <1>3 DEF BeginStep, NewStep, InStatus, TypeOK, Absent
<1>4. CASE StillStep
  BY <1>4 DEF StillStep, InStatus
<1> QED
  BY <1>2, <1>3, <1>4, StepShape DEF Shaped

\* Every assignment was made from a template of the pack or of a person.
BodiesKnown == \A a \in Present : body[a] \in Template

\* A nonempty set of bounded naturals has a greatest member.
LEMMA Greatest ==
  ASSUME NEW n \in Nat, NEW T \in SUBSET (0..n), T # {}
  PROVE  \E x \in T : \A y \in T : y <= x
<1> DEFINE R == {n - t : t \in T}
<1>1. R \subseteq Nat /\ R # {}
  <2>1. \A t \in T : n - t \in Nat
    OBVIOUS
  <2>2. PICK t \in T : TRUE
    OBVIOUS
  <2>3. n - t \in R
    BY <2>2
  <2> QED
    BY <2>1, <2>3
<1>2. PICK m \in R : \A y \in R : ~ (<<y, m>> \in OpToRel(<, Nat))
  <2>1. IsWellFoundedOn(OpToRel(<, Nat), Nat)
    BY NatLessThanWellFounded
  <2> HIDE DEF R
  <2> QED
    BY <1>1, <2>1, WFMin
<1>3. \A y \in R : ~ (y < m)
  BY <1>1, <1>2 DEF OpToRel
<1>4. PICK x \in T : m = n - x
  BY <1>2
<1>5. ASSUME NEW y \in T PROVE y <= x
  <2>1. ~ (n - y < n - x)
    BY <1>3, <1>4
  <2> QED
    BY <2>1
<1> QED
  BY <1>5

\* The latest closed assignment, where there is one, is an assignment.
LEMMA LatestPresent == Latest # NoAssignment => Latest \in InStatus({"closed"})
<1> SUFFICES ASSUME Latest # NoAssignment PROVE Latest \in InStatus({"closed"})
  OBVIOUS
<1> DEFINE done == InStatus({"closed"})
<1>1. done # {} /\ Latest = CHOOSE a \in done : \A b \in done : b <= a
  BY DEF Latest
<1>2. done \in SUBSET (0..MaxAssignments) /\ MaxAssignments \in Nat
  BY BoundsAssumption DEF InStatus, AssignmentId
<1> HIDE DEF done
<1>3. \E a \in done : \A b \in done : b <= a
  BY <1>1, <1>2, Greatest
<1> QED
  BY <1>1, <1>3 DEF done

\* A step that only the pipeline issues is issued by generate_next, from the first
\* place of the pipeline that no assignment alive or closed was made from.
LEMMA PhaseIssued ==
  ASSUME TypeOK, BodiesKnown, [Next]_vars, NEW b \in AssignmentId, b \notin Present,
         b \in Present', body'[b] \in PipelineOnly
  PROVE  /\ body'[b] \notin Consumed
         /\ \E k \in DOMAIN Pipeline : /\ body'[b] = Pipeline[k]
                                      /\ \A j \in 1..(k - 1) : Pipeline[j] \in Consumed
<1> USE DEF PipelineOnly
<1>1. body'[b] \in PackTemplates
  BY DEF PackTemplates
<1>2. ASSUME NEW t \in Authored, NEW deps, Create(b, t, deps) PROVE FALSE
  <2>1. body'[b] = t
    BY <1>2 DEF Create, Register, TypeOK
  <2> QED
    BY <1>1, <2>1, PackAssumption
<1>3. PICK t \in Template : GenerateNext(b, t)
  BY <1>2, IssueShape
<1>4. body'[b] = t /\ Successor(t)
  BY <1>3 DEF GenerateNext, Register, TypeOK
<1>5. Latest # NoAssignment => body[Latest] \in Template
  BY LatestPresent DEF BodiesKnown, InStatus, Present, Absent
<1> QED
  BY <1>4, <1>5 DEF Successor

\* The bodies stay known.
LEMMA BodiesStep == ASSUME TypeOK, BodiesKnown, [Next]_vars PROVE BodiesKnown'
BY PresentStays, NewBody DEF BodiesKnown, Present

PhaseInv == BodiesKnown /\ NoDuplicatePhase

\* No step gives a phase of the pipeline a second assignment.
LEMMA PhaseStep == ASSUME TypeOK, PhaseInv, [Next]_vars PROVE PhaseInv'
<1>1. BodiesKnown'
  BY BodiesStep DEF PhaseInv
<1> DEFINE Alive == Present \ InStatus({"cancelled"})
<1>2. ASSUME NEW a \in Alive', a \in Present PROVE a \in Alive /\ body'[a] = body[a]
  BY <1>2, CancelledStays, PresentStays DEF InStatus, Present
<1>3. ASSUME NEW a \in Alive', a \in Present, NEW b \in Alive', b \notin Present,
             body'[a] = body'[b], body'[b] \in PipelineOnly
      PROVE  FALSE
  <2>1. body'[b] \notin Consumed
    BY <1>3, PhaseIssued DEF PhaseInv, Present
  <2>2. a \in Alive /\ body'[a] = body[a]
    BY <1>2, <1>3
  <2> QED
    BY <1>3, <2>1, <2>2 DEF Consumed
<1>4. ASSUME NEW a \in Alive', a \notin Present, NEW b \in Alive', b \notin Present PROVE a = b
  <2>1. a \in AssignmentId /\ b \in AssignmentId /\ a \in Present' /\ b \in Present'
    BY DEF Present
  <2>2. PICK s : status' = [status EXCEPT ![a] = s]
    BY <1>4, <2>1, IssueShape DEF Create, GenerateNext
  <2> QED
    BY <1>4, <2>1, <2>2 DEF Present, TypeOK
<1>5. NoDuplicatePhase'
  BY <1>2, <1>3, <1>4 DEF NoDuplicatePhase, PhaseInv, PipelineOnly
<1> QED
  BY <1>1, <1>5 DEF PhaseInv

\* No phase of the pipeline is under way twice: work parked as BLOCKED or ESCALATED keeps
\* its phase, and only a cancelled attempt is made again.
THEOREM PhasesOnce == Spec => []NoDuplicatePhase
<1>1. Init => PhaseInv
  BY DEF Init, PhaseInv, BodiesKnown, NoDuplicatePhase, Present
<1>2. PhaseInv => NoDuplicatePhase
  BY DEF PhaseInv
<1> QED
  BY <1>1, <1>2, PhaseStep, TypeCorrect, PTL DEF Spec

\* generate_next never passes over a phase: when it issues one, every phase before it has
\* an assignment that was not cancelled.
THEOREM PhasesInOrder == Spec => NoPhaseSkipped
<1> DEFINE Whole ==
      \A a \in AssignmentId, i \in DOMAIN Pipeline :
        Issues(a, Pipeline[i]) /\ Pipeline[i] \in PipelineOnly /\ FirstAt(i) =>
          \A j \in 1..(i - 1) : \E b \in Present : /\ body[b] = Pipeline[j]
                                                   /\ status[b] # "cancelled"
<1>1. ASSUME TypeOK, BodiesKnown, [Next]_vars PROVE Whole
  <2> SUFFICES ASSUME NEW a \in AssignmentId, NEW i \in DOMAIN Pipeline,
                      Pipeline[i] \in PipelineOnly, FirstAt(i), Issues(a, Pipeline[i]),
                      NEW j \in 1..(i - 1)
               PROVE  Pipeline[j] \in Consumed
    BY DEF Consumed, InStatus, Present
  <2>1. body'[a] = Pipeline[i] /\ a \notin Present /\ a \in Present'
    BY DEF Issues
  <2>2. PICK k \in DOMAIN Pipeline : /\ Pipeline[i] = Pipeline[k]
                                    /\ \A l \in 1..(k - 1) : Pipeline[l] \in Consumed
    BY <1>1, <2>1, PhaseIssued
  <2>3. DOMAIN Pipeline = 1..Len(Pipeline) /\ Len(Pipeline) \in Nat
    BY PackAssumption
  <2>4. ~ (k < i)
    BY <2>2, <2>3 DEF FirstAt
  <2>5. j \in 1..(k - 1)
    BY <2>3, <2>4
  <2> QED
    BY <2>2, <2>5
<1>2. Init => BodiesKnown
  BY DEF Init, BodiesKnown, Present
<1>3. TypeOK /\ BodiesKnown /\ [Next]_vars => BodiesKnown'
  BY BodiesStep
<1>4. TypeOK /\ BodiesKnown /\ [Next]_vars => [Whole]_vars
  BY <1>1
<1> QED
  BY <1>2, <1>3, <1>4, TypeCorrect, PTL DEF Spec, NoPhaseSkipped

-----------------------------------------------------------------------------
(* The lifecycle implements the work slot.                                 *)

\* Every step of the service takes, releases, closes or drops as the slot allows, or
\* leaves the slot alone.
LEMMA SlotStep ==
  ASSUME TypeOK, PointerFollowsStatus, [Next]_vars PROVE [Slot!Next]_(Slot!vars)
<1>1. ASSUME UNCHANGED <<active, InStatus({"closed"}), InStatus({"cancelled"})>>
      PROVE  [Slot!Next]_(Slot!vars)
  BY <1>1 DEF Slot!vars
<1>2. CASE StillStep
  BY <1>1, <1>2 DEF StillStep, InStatus
<1>3. ASSUME NEW a \in AssignmentId, BeginStep(a) PROVE [Slot!Next]_(Slot!vars)
  <2>1. active' = active
    BY <1>3 DEF BeginStep, PointerFollowsStatus, ActiveSlot
  <2>2. UNCHANGED <<InStatus({"closed"}), InStatus({"cancelled"})>>
    BY <1>3 DEF BeginStep, InStatus, TypeOK
  <2> QED
    BY <1>1, <2>1, <2>2
<1>4. ASSUME NEW a \in AssignmentId, NewStep(a) PROVE [Slot!Next]_(Slot!vars)
  <2>1. UNCHANGED <<InStatus({"closed"}), InStatus({"cancelled"})>>
    BY <1>4 DEF NewStep, InStatus, TypeOK, Absent
  <2> QED
    BY <1>1, <1>4, <2>1 DEF NewStep
<1>5. ASSUME NEW a \in AssignmentId, NEW row \in Transitions, RowStep(a, row)
      PROVE  [Slot!Next]_(Slot!vars)
  <2> DEFINE to == Target(row, prior[a])
             from == status[a]
  <2>1. /\ from \notin {"closed", "cancelled"}
        /\ to = "closed" => from \notin ActiveSlot
        /\ to \in ActiveSlot /\ from \notin ActiveSlot => SlotFree(a)
    <3>1. /\ row.from \notin {"closed", "cancelled"}
          /\ row.to = "closed" => row.from \notin ActiveSlot
          /\ row.to = PriorState => row.from = "escalated" /\ row.event = "founder_resolve_proceed"
          /\ row.event = "founder_resolve_proceed" => row.to = PriorState
      BY DEF Transitions, Row, PriorState, ActiveSlot
    <3>2. row.from = from
      BY <1>5 DEF RowStep
    <3>3. to \in ActiveSlot /\ from \notin ActiveSlot => SlotFree(a)
      BY <1>5, <3>1, <3>2, RowSlot DEF RowStep, Target
    <3> QED
      BY <3>1, <3>2, <3>3 DEF Target, ActiveSlot
  <2>2. /\ status' = [status EXCEPT ![a] = to]
        /\ active' = PointerAfter(a, from, to)
    BY <1>5 DEF RowStep
  <2>3. active = a <=> from \in ActiveSlot
    BY DEF PointerFollowsStatus
  <2>4. a # NoAssignment
    BY NullAssumption
  <2> HIDE DEF to, from
  <2>5. \A S \in {"closed", "cancelled"} :
          InStatus({S})' = IF to = S THEN InStatus({S}) \union {a} ELSE InStatus({S})
    BY <2>1, <2>2 DEF InStatus, TypeOK, from
  <2>6. a \notin InStatus({"closed"}) \union InStatus({"cancelled"})
    BY <2>1 DEF InStatus, from
  <2>7. CASE to \in ActiveSlot /\ from \notin ActiveSlot
    <3>1. active = NoAssignment
      BY <2>1, <2>3, <2>7 DEF SlotFree, PointerFollowsStatus, InStatus, TypeOK
    <3>2. Slot!Take(a)
      BY <2>2, <2>5, <2>6, <2>7, <3>1 DEF Slot!Take, Slot!Over, PointerAfter, ActiveSlot
    <3> QED
      BY <3>2 DEF Slot!Next
  <2>8. CASE to \in ActiveSlot /\ from \in ActiveSlot
    <3>1. UNCHANGED <<active, InStatus({"closed"}), InStatus({"cancelled"})>>
      BY <2>2, <2>3, <2>5, <2>8 DEF PointerAfter, ActiveSlot
    <3> QED
      BY <1>1, <3>1
  <2>9. CASE to = "cancelled"
    <3>1. active' = IF active = a THEN NoAssignment ELSE active
      BY <2>2, <2>3, <2>9 DEF PointerAfter, ActiveSlot
    <3>2. Slot!Drop(a)
      BY <2>5, <2>6, <2>9, <3>1 DEF Slot!Drop, Slot!Over
    <3> QED
      BY <3>2 DEF Slot!Next
  <2>10. CASE to = "closed"
    <3>1. active # a /\ active' = active
      BY <2>1, <2>2, <2>3, <2>10 DEF PointerAfter, ActiveSlot
    <3>2. Slot!Close(a)
      BY <2>5, <2>6, <2>10, <3>1 DEF Slot!Close, Slot!Over
    <3> QED
      BY <3>2 DEF Slot!Next
  <2>11. CASE to \notin ActiveSlot \union {"cancelled", "closed"} /\ from \in ActiveSlot
    <3>1. Slot!Release
      BY <2>2, <2>3, <2>4, <2>5, <2>11 DEF Slot!Release, PointerAfter
    <3> QED
      BY <3>1 DEF Slot!Next
  <2>12. CASE to \notin ActiveSlot \union {"cancelled", "closed"} /\ from \notin ActiveSlot
    <3>1. UNCHANGED <<active, InStatus({"closed"}), InStatus({"cancelled"})>>
      BY <2>2, <2>5, <2>12 DEF PointerAfter
    <3> QED
      BY <1>1, <3>1
  <2> QED
    BY <2>7, <2>8, <2>9, <2>10, <2>11, <2>12
<1> QED
  BY <1>2, <1>3, <1>4, <1>5, StepShape DEF Shaped

\* The lifecycle implements the single work slot: what starts, verdicts, freezes and
\* founder decisions do to assignments is taking, releasing, closing and dropping.
THEOREM LifecycleImplementsSlot == Spec => ImplementsWorkSlot
<1>1. Init => Slot!Init
  BY DEF Init, Slot!Init, InStatus, Absent
<1> QED
  BY <1>1, SlotStep, TypeCorrect, PointerAgrees, PTL DEF Spec, ImplementsWorkSlot, Slot!Spec
=============================================================================
