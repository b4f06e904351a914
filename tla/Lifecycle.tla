---- MODULE Lifecycle ----
(***************************************************************************)
(* The kernel's write path: LifecycleService (application/lifecycle.py)    *)
(* over the assignments, escalations and recorded decisions of one         *)
(* project.  Each public operation of the service is one action, with the  *)
(* guards that make it raise and everything it writes.  `verify` is the    *)
(* one exception: it runs the project's own commands for as long as they   *)
(* take, so it is a VerifyBegin and, later, a verdict or an interruption.  *)
(*                                                                         *)
(* An operation that raises before it writes is a disabled action.  The    *)
(* audit chain and the crash of an operation between two of its writes are *)
(* the subject of KernelStore; here no write is lost, so the integrity     *)
(* guard at the head of every operation passes.                            *)
(***************************************************************************)
EXTENDS Naturals, Sequences, FiniteSets, StateMachine

CONSTANTS
  MaxAssignments,  \* bound on the assignment ids issued
  MaxEscalations,  \* bound on the escalation ids issued
  MaxApprovals,    \* bound on the approvals on record
  MaxAttestations, \* bound on the attestations on record
  Person,          \* identities that run the kernel
  Founder,         \* manifest.project.founder
  Owners,          \* manifest.owners
  Template,        \* assignment bodies: pack templates and hand-written ones
  Authored,        \* the bodies people register through create()
  Pipeline,        \* the pack's phase pipeline, a sequence of templates
  NextOf,          \* a body's explicit `next` template, or NoTemplate
  OwnDeps,         \* the depends_on of each template that declares it
  ModeOf,          \* the workflow mode classification gives a body
  FounderGated,    \* bodies whose work type is merge, deployment or external action
  OwnerOf,         \* the owner a body names
  Attests,         \* the roles whose attestation a body's criteria demand
  NoTemplate,      \* no explicit `next`, and the body of an absent assignment
  NoAssignment,    \* the empty active pointer, and no predecessor
  Project          \* the scope of a project-level escalation

AssignmentId == 1..MaxAssignments
EscalationId == 1..MaxEscalations
Role == {"owner", "reviewer", "founder"}
Mode == {"fast", "reviewed", "governed"}
Outcome == {"proceed", "cancel", "rescope"}  \* FounderDecision
Absent == "absent"

\* The templates the pack issues: those generate_next can choose.
PackTemplates ==
  {Pipeline[i] : i \in DOMAIN Pipeline} \union ({NextOf[t] : t \in Template} \ {NoTemplate})

ASSUME BoundsAssumption ==
  /\ MaxAssignments \in Nat
  /\ MaxEscalations \in Nat
  /\ MaxApprovals \in Nat
  /\ MaxAttestations \in Nat

ASSUME ManifestAssumption ==
  /\ Founder \in Person
  /\ Owners \subseteq Person

ASSUME PackAssumption ==
  /\ Pipeline \in Seq(Template)
  /\ Authored \subseteq Template
  /\ NextOf \in [Template -> Template \union {NoTemplate}]
  /\ DOMAIN OwnDeps \subseteq Template
  /\ OwnDeps \in [DOMAIN OwnDeps -> SUBSET AssignmentId]
  /\ ModeOf \in [Template -> Mode]
  /\ FounderGated \subseteq Template
  /\ OwnerOf \in [Template -> Person]
  /\ Attests \in [Template -> SUBSET Role]
  /\ Authored \intersect PackTemplates = {}

ASSUME NullAssumption ==
  /\ NoTemplate \notin Template
  /\ NoAssignment \notin AssignmentId
  /\ Project \notin AssignmentId

VARIABLES
  status,      \* each assignment's status, or Absent while it has no file
  body,        \* the body each assignment was made from
  depends,     \* each assignment's depends_on
  prior,       \* the status each assignment held when it last became ESCALATED
  reasons,     \* whether rejection reasons are attached
  decisions,   \* approval_recorded and attestation_recorded entries of the log
  escalation,  \* each escalation's scope, and "open" or the founder's outcome
  active,      \* the active-assignment pointer file
  evaluating   \* assignments whose verification is running

vars == <<status, body, depends, prior, reasons, decisions, escalation, active, evaluating>>

Decision == [assignment : AssignmentId, role : Role, actor : Person,
             kind : {"approved", "attested"}]

NoEscalation == [state |-> "none", scope |-> Project]

\* Every variable keeps to its domain: in particular the pointer file names an
\* assignment, and the recorded prior status is one the machine knows.
TypeOK ==
  /\ status \in [AssignmentId -> Status \union {Absent}]
  /\ body \in [AssignmentId -> Template \union {NoTemplate}]
  /\ depends \in [AssignmentId -> SUBSET AssignmentId]
  /\ prior \in [AssignmentId -> Status \union {Absent}]
  /\ reasons \in [AssignmentId -> BOOLEAN]
  /\ decisions \subseteq Decision
  /\ escalation \in [EscalationId -> [state : {"none", "open"} \union Outcome,
                                      scope : AssignmentId \union {Project}]]
  /\ active \in AssignmentId \union {NoAssignment}
  /\ evaluating \subseteq AssignmentId

Init ==
  /\ status = [a \in AssignmentId |-> Absent]
  /\ body = [a \in AssignmentId |-> NoTemplate]
  /\ depends = [a \in AssignmentId |-> {}]
  /\ prior = [a \in AssignmentId |-> Absent]
  /\ reasons = [a \in AssignmentId |-> FALSE]
  /\ decisions = {}
  /\ escalation = [e \in EscalationId |-> NoEscalation]
  /\ active = NoAssignment
  /\ evaluating = {}

-----------------------------------------------------------------------------
(* Reads of the stored state.                                              *)

Present == {a \in AssignmentId : status[a] # Absent}
InStatus(S) == {a \in AssignmentId : status[a] \in S}

SlotFreeOfActive(a) == \A b \in InStatus({"active"}) : b = a  \* mutation: work being verified does not count

\* _assert_active_slot_free: nobody else occupies the slot.
SlotFree(a) == \A b \in InStatus(ActiveSlot) : b = a

\* DependencyGraph._detect_cycle: in no set of registered assignments does every
\* member depend on the set.
Acyclic(registered, deps) ==
  {S \in (SUBSET registered) \ {{}} : \A a \in S : deps[a] \intersect S # {}} = {}

\* DependencyGraph.evaluate: a missing dependency is as unsatisfied as an open one.
Satisfied(deps) == \A d \in deps : status[d] = "closed"

OpenProjectEscalation ==
  \E e \in EscalationId : escalation[e] = [state |-> "open", scope |-> Project]

\* _blocking_escalation
Held(a) == \E e \in EscalationId : /\ escalation[e].state = "open"
                                   /\ escalation[e].scope \in {a, Project}

\* is_authorized
Authorized(role, p, owner) ==
  CASE role = "founder"  -> p = Founder
    [] role = "owner"    -> p \in Owners /\ p \in {owner, Founder}
    [] role = "reviewer" -> p \in Owners /\ p # owner

\* required_roles
Required(t) ==
  (CASE ModeOf[t] = "fast"     -> {"owner"}
     [] ModeOf[t] = "reviewed" -> {"reviewer"}
     [] ModeOf[t] = "governed" -> {"reviewer", "founder"})
  \union (IF t \in FounderGated THEN {"founder"} ELSE {})

RecordedAnyKind(a, log, kind) ==  \* mutation: the kind of decision is not looked at
  {r \in Role : \E d \in log : d.assignment = a /\ d.role = r}

\* The roles whose decision of this kind is on record by an authorized identity
\* (_authorized_approvals, _recorded_decision_fact).
Recorded(a, log, kind) ==
  {r \in Role : \E d \in log : /\ d.assignment = a
                               /\ d.role = r
                               /\ d.kind = kind
                               /\ Authorized(r, d.actor, OwnerOf[body[a]])}

ApprovalsComplete(a, log) == Required(body[a]) \subseteq Recorded(a, log, "approved")

-----------------------------------------------------------------------------
(* The single write path, _transition.                                     *)

PointerKept(a, from, to) ==  \* mutation: the pointer is never cleared
  IF to \in ActiveSlot THEN a ELSE active

\* The active pointer after `a` moves from one status to another.
PointerAfter(a, from, to) ==
  IF to \in ActiveSlot THEN a
  ELSE IF from \in ActiveSlot THEN NoAssignment
  ELSE active

PriorSentinel(a, to) ==  \* mutation: the table's sentinel is recorded as the status
  IF to = "escalated" THEN [prior EXCEPT ![a] = PriorState] ELSE prior

PriorOnLeaving(a, to) ==  \* mutation: recorded when the freeze ends, not when it begins
  IF status[a] = "escalated" THEN [prior EXCEPT ![a] = to] ELSE prior

\* _prior_status: the from-status of the last record into ESCALATED.
PriorAfter(a, to) ==
  IF to = "escalated" THEN [prior EXCEPT ![a] = status[a]] ELSE prior

Move(a, event, actor) ==
  \E row \in Transitions :
    LET to == Target(row, prior[a]) IN
    /\ Permits(row, status[a], event, actor)
    /\ to \in Status
    /\ status' = [status EXCEPT ![a] = to]
    /\ prior' = PriorAfter(a, to)
    /\ active' = PointerAfter(a, status[a], to)

OwnerActor(p) == IF p = Founder THEN "founder" ELSE "owner"

-----------------------------------------------------------------------------
(* Registration and classification.                                        *)

\* next_id
IsNextId(a) == /\ a \notin Present
               /\ \A b \in AssignmentId : b < a => b \in Present

\* create, of a body whose owner the manifest lists.
Register(a, t, deps) ==
  /\ IsNextId(a)
  /\ OwnerOf[t] \in Owners
  /\ a \notin deps
  /\ body' = [body EXCEPT ![a] = t]
  /\ depends' = [depends EXCEPT ![a] = deps]
  /\ UNCHANGED <<prior, reasons, decisions, active, evaluating>>

Create(a, t, deps) ==
  /\ Register(a, t, deps)
  /\ status' = [status EXCEPT ![a] = "draft"]
  /\ UNCHANGED escalation

ClassifiableOnVerified(a, registered, deps) ==  \* mutation: a verified dependency is enough
  /\ Acyclic(registered, deps)
  /\ \A d \in deps[a] : status[d] \in {"closed", "verified"}
  /\ ~Held(a)

\* The gates of classify_ok: the graph builds, dependencies closed, no blocker.
Classifiable(a, registered, deps) ==
  /\ Acyclic(registered, deps)
  /\ Satisfied(deps[a])
  /\ ~Held(a)

\* classify_assignment; deferred, it leaves a DRAFT as it is.
Classify(a) ==
  /\ status[a] = "draft"
  /\ Classifiable(a, Present, depends)
  /\ Move(a, "classify_ok", "kernel")
  /\ UNCHANGED <<body, depends, reasons, decisions, escalation, evaluating>>

-----------------------------------------------------------------------------
(* Execution and verification.                                             *)

Start(a) ==
  /\ SlotFree(a)
  /\ Move(a, "start", "kernel")
  /\ UNCHANGED <<body, depends, reasons, decisions, escalation, evaluating>>

Submit(a) ==
  /\ Move(a, "submit", "executor")
  /\ UNCHANGED <<body, depends, reasons, decisions, escalation, evaluating>>

\* verify submits the claim of an ACTIVE assignment before anything else.
Submitted(a) ==
  IF status[a] = "active"
    THEN {row.to : row \in {r \in Transitions : Permits(r, "active", "submit", "executor")}}
    ELSE {status[a]}

\* verify up to the engine.
VerifyBegin(a) ==
  \E from \in Submitted(a), row \in Transitions :
    /\ Permits(row, from, "verify_start", "kernel")
    /\ status' = [status EXCEPT ![a] = row.to]
    /\ active' = PointerAfter(a, from, row.to)
    /\ evaluating' = evaluating \union {a}
    /\ UNCHANGED <<body, depends, prior, reasons, decisions, escalation>>

VerifyPassKeepingReasons(a) ==  \* mutation: an earlier rejection's reasons survive
  /\ a \in evaluating
  /\ Attests[body[a]] \subseteq Recorded(a, decisions, "attested")
  /\ Move(a, "all_criteria_pass", "kernel")
  /\ evaluating' = evaluating \ {a}
  /\ UNCHANGED <<body, depends, reasons, decisions, escalation>>

\* Every criterion passed: those about the repository as they may, those about a
\* human attestation if one is on record.
VerifyPass(a) ==
  /\ a \in evaluating
  /\ Attests[body[a]] \subseteq Recorded(a, decisions, "attested")
  /\ Move(a, "all_criteria_pass", "kernel")
  /\ reasons' = [reasons EXCEPT ![a] = FALSE]
  /\ evaluating' = evaluating \ {a}
  /\ UNCHANGED <<body, depends, decisions, escalation>>

\* A criterion failed, or the engine raised: both reject, with reasons.
VerifyFail(a) ==
  /\ a \in evaluating
  /\ \E event \in {"any_criterion_fail", "verifier_error"} : Move(a, event, "kernel")
  /\ reasons' = [reasons EXCEPT ![a] = TRUE]
  /\ evaluating' = evaluating \ {a}
  /\ UNCHANGED <<body, depends, decisions, escalation>>

\* The process running the engine ends without a verdict: killed, or stopped by a
\* KeyboardInterrupt, which `except Exception` does not catch.
Interrupt(a) ==
  /\ a \in evaluating
  /\ evaluating' = evaluating \ {a}
  /\ UNCHANGED <<status, body, depends, prior, reasons, decisions, escalation, active>>

Resume(a) ==
  /\ SlotFree(a)
  /\ Move(a, "resume", "kernel")
  /\ UNCHANGED <<body, depends, reasons, decisions, escalation, evaluating>>

-----------------------------------------------------------------------------
(* Human decisions.                                                        *)

Entry(a, role, p, kind) == [assignment |-> a, role |-> role, actor |-> p, kind |-> kind]

\* The bounds on the log: one more decision of this kind, or one already there.
RoomFor(d) ==
  \/ d \in decisions
  \/ Cardinality({c \in decisions : c.kind = d.kind}) <
       (IF d.kind = "approved" THEN MaxApprovals ELSE MaxAttestations)

ApproveStaleCount(a, p, role) ==  \* mutation: approvals counted before this one is recorded
  LET d == Entry(a, role, p, "approved") IN
  /\ status[a] = "verified"
  /\ Authorized(role, p, OwnerOf[body[a]])
  /\ RoomFor(d)
  /\ decisions' = decisions \union {d}
  /\ IF ApprovalsComplete(a, decisions)
       THEN Move(a, "approvals_complete", IF role = "owner" THEN OwnerActor(p) ELSE role)
       ELSE UNCHANGED <<status, prior, active>>
  /\ UNCHANGED <<body, depends, reasons, escalation, evaluating>>

\* approve: recorded, and the assignment closes once the mode's roles have all spoken.
Approve(a, p, role) ==
  LET d == Entry(a, role, p, "approved") IN
  /\ status[a] = "verified"
  /\ Authorized(role, p, OwnerOf[body[a]])
  /\ RoomFor(d)
  /\ decisions' = decisions \union {d}
  /\ IF ApprovalsComplete(a, decisions')
       THEN Move(a, "approvals_complete", IF role = "owner" THEN OwnerActor(p) ELSE role)
       ELSE UNCHANGED <<status, prior, active>>
  /\ UNCHANGED <<body, depends, reasons, escalation, evaluating>>

Attest(a, p, role) ==
  LET d == Entry(a, role, p, "attested") IN
  /\ a \in Present
  /\ Authorized(role, p, OwnerOf[body[a]])
  /\ RoomFor(d)
  /\ decisions' = decisions \union {d}
  /\ UNCHANGED <<status, body, depends, prior, reasons, escalation, active, evaluating>>

\* reject: a person who is not the founder speaks as the reviewer.
Reject(a, p) ==
  /\ Move(a, "review_reject", IF p = Founder THEN "founder" ELSE "reviewer")
  /\ reasons' = [reasons EXCEPT ![a] = TRUE]
  /\ UNCHANGED <<body, depends, decisions, escalation, evaluating>>

BlockOccupant(a) ==  \* mutation: block parks whatever occupies the slot
  /\ status[a] \in ActiveSlot
  /\ status' = [status EXCEPT ![a] = "blocked"]
  /\ active' = PointerAfter(a, status[a], "blocked")
  /\ UNCHANGED <<body, depends, prior, reasons, decisions, escalation, evaluating>>

Block(a) ==
  /\ Move(a, "block", IF status[a] = "ready" THEN "kernel" ELSE "owner")
  /\ UNCHANGED <<body, depends, reasons, decisions, escalation, evaluating>>

Unblock(a) ==
  /\ Acyclic(Present, depends)
  /\ Satisfied(depends[a])
  /\ Move(a, "unblock", "kernel")
  /\ UNCHANGED <<body, depends, reasons, decisions, escalation, evaluating>>

Cancel(a, p) ==
  /\ Move(a, "cancel", OwnerActor(p))
  /\ UNCHANGED <<body, depends, reasons, decisions, escalation, evaluating>>

-----------------------------------------------------------------------------
(* Escalation.                                                             *)

\* Escalation(id=next_id(), ...), saved open.
OpenEscalation(scope) ==
  \E e \in EscalationId :
    /\ escalation[e].state = "none"
    /\ \A f \in EscalationId : f < e => escalation[f].state # "none"
    /\ escalation' = [escalation EXCEPT ![e] = [state |-> "open", scope |-> scope]]

EscalateProject ==
  /\ OpenEscalation(Project)
  /\ UNCHANGED <<status, body, depends, prior, reasons, decisions, active, evaluating>>

\* escalate, scoped to an assignment: _plan_freeze finds the actor that may freeze
\* it, or that it is frozen already.
Escalate(a) ==
  /\ a \in Present
  /\ IF status[a] = "escalated"
       THEN UNCHANGED <<status, prior, active>>
       ELSE Move(a, "escalate", IF status[a] = "ready" THEN "kernel" ELSE "owner")
  /\ OpenEscalation(a)
  /\ UNCHANGED <<body, depends, reasons, decisions, evaluating>>

FounderEvent(outcome) ==
  CASE outcome = "proceed" -> "founder_resolve_proceed"
    [] outcome = "cancel"  -> "founder_resolve_cancel"
    [] outcome = "rescope" -> "founder_resolve_rescope"

RedrivesUnchecked(a, outcome) ==  \* mutation: INV-1 is not checked again on proceed
  status[a] = "escalated"

\* Proceeding restores the status before the freeze, which may need the slot back.
Redrives(a, outcome) ==
  /\ status[a] = "escalated"
  /\ (outcome = "proceed" /\ prior[a] \in ActiveSlot) => SlotFree(a)

\* resolve, by the founder: the escalation is recorded with its outcome first, and
\* stays so when its assignment is not moved -- it is project-level, its assignment is not
\* frozen, or the proceed is refused because the slot is taken.
Resolve(e, outcome) ==
  /\ escalation[e].state = "open"
  /\ escalation' = [escalation EXCEPT ![e].state = outcome]
  /\ IF escalation[e].scope # Project /\ Redrives(escalation[e].scope, outcome)
       THEN Move(escalation[e].scope, FounderEvent(outcome), "founder")
       ELSE UNCHANGED <<status, prior, active>>
  /\ UNCHANGED <<body, depends, reasons, decisions, evaluating>>

-----------------------------------------------------------------------------
(* Next-assignment generation.                                             *)

\* _first_pending: the assignments that already claim the pipeline.
Pending ==
  InStatus({"active", "evidence_submitted", "verifying", "verified", "rejected",
            "ready", "draft"})

\* The closed assignment with the greatest id.
Latest ==
  LET done == InStatus({"closed"}) IN
  IF done = {} THEN NoAssignment ELSE CHOOSE a \in done : \A b \in done : b <= a

ConsumedByAll == {body[a] : a \in Present}  \* mutation: a cancelled attempt consumes its template

ConsumedByLive == {body[a] : a \in Pending \union InStatus({"closed"})}  \* mutation: parked work does not

\* _consumed_templates
Consumed == {body[a] : a \in Present \ InStatus({"cancelled"})}

\* decide: the latest closed assignment's explicit `next`, else the first template of
\* the pipeline not yet consumed; no template when the pipeline is exhausted.
Successor(t) ==
  IF Latest # NoAssignment /\ NextOf[body[Latest]] # NoTemplate
    THEN t = NextOf[body[Latest]]
    ELSE \E i \in DOMAIN Pipeline : /\ t = Pipeline[i]
                                    /\ t \notin Consumed
                                    /\ \A j \in 1..(i - 1) : Pipeline[j] \in Consumed

\* generate_next past its early returns: nothing pending, no project-level
\* escalation, and something closed unless the project is empty.
Generating ==
  /\ ~OpenProjectEscalation
  /\ Pending = {}
  /\ Latest # NoAssignment \/ Present = {}

\* bind_template: the predecessor, unless the template declares its own.
BoundDeps(t) ==
  IF t \in DOMAIN OwnDeps THEN OwnDeps[t]
  ELSE IF Latest = NoAssignment THEN {}
  ELSE {Latest}

\* _materialise: create, then classify; a deferred classification leaves the draft.
GenerateNext(a, t) ==
  /\ Generating
  /\ Successor(t)
  /\ Register(a, t, BoundDeps(t))
  /\ status' = [status EXCEPT ![a] =
                  IF Classifiable(a, Present \union {a}, depends') THEN "ready" ELSE "draft"]
  /\ UNCHANGED escalation

\* NEXT_UNDETERMINED: the founder is asked instead.
GenerateUndetermined ==
  /\ Generating
  /\ ~\E t \in Template : Successor(t)
  /\ EscalateProject

-----------------------------------------------------------------------------
Operate(a) ==
  \/ Classify(a) \/ Start(a) \/ Submit(a)
  \/ VerifyBegin(a) \/ VerifyPass(a) \/ VerifyFail(a) \/ Interrupt(a)
  \/ Resume(a) \/ Block(a) \/ Unblock(a) \/ Escalate(a)

Decide(a, p) ==
  \/ \E role \in Role : Approve(a, p, role) \/ Attest(a, p, role)
  \/ Reject(a, p) \/ Cancel(a, p)

Next ==
  \/ \E a \in AssignmentId : Operate(a)
  \/ \E a \in AssignmentId, p \in Person : Decide(a, p)
  \/ \E a \in AssignmentId, t \in Authored, deps \in SUBSET AssignmentId : Create(a, t, deps)
  \/ \E a \in AssignmentId, t \in Template : GenerateNext(a, t)
  \/ GenerateUndetermined
  \/ EscalateProject
  \/ \E e \in EscalationId, outcome \in Outcome : Resolve(e, outcome)

Spec == Init /\ [][Next]_vars

-----------------------------------------------------------------------------
(* Safety.                                                                 *)

\* INV-1: at most one assignment is ACTIVE, EVIDENCE_SUBMITTED or VERIFYING, however
\* starts, resumptions, freezes and founder decisions are interleaved.
SingleActiveSlot == \A a, b \in InStatus(ActiveSlot) : a = b

\* The pointer file "cannot disagree with the assignment files" (_transition): it
\* names the occupant of the slot and nothing else.
PointerFollowsStatus == \A a \in AssignmentId : active = a <=> status[a] \in ActiveSlot

\* Nothing leaves DRAFT, and nothing returns to READY, ahead of its dependencies: the
\* assignments an executable assignment depends on are CLOSED and stay CLOSED.
WorkFollowsDependencies ==
  \A a \in Present \ InStatus({"draft", "cancelled"}) : Satisfied(depends[a])

\* An ESCALATED assignment remembers a status the founder can send it back to, even
\* after several freezes: proceed never finds its prior status missing (resolve).
FrozenRemembersPrior ==
  \A a \in InStatus({"escalated"}) : prior[a] \in {"ready", "active", "blocked"}

\* While the verification engine runs, no other operation moves its assignment, so
\* the verdict it writes back is about the status it read.
EvaluatedIsVerifying == \A a \in evaluating : status[a] = "verifying"

\* approve closes at the decision that completes the required roles: no VERIFIED
\* assignment, not even one rejected after review and verified again, already has
\* every approval it needs.
VerifiedAwaitsApproval ==
  \A a \in InStatus({"verified"}) : ~ApprovalsComplete(a, decisions)

OnRecord(a, role, kind) ==
  \E d \in decisions : d.assignment = a /\ d.role = role /\ d.kind = kind

\* A CLOSED assignment has on record every approval its mode and work type require and
\* every attestation its criteria demand; above fast mode, an owner of the project
\* other than its own owner approved it; and gated work has the founder's own approval.
ClosedWithAuthority ==
  \A a \in InStatus({"closed"}) :
    /\ \A role \in Required(body[a]) : OnRecord(a, role, "approved")
    /\ \A role \in Attests[body[a]] : OnRecord(a, role, "attested")
    /\ ModeOf[body[a]] # "fast" =>
         \E d \in decisions : /\ d.assignment = a
                              /\ d.kind = "approved"
                              /\ d.actor \in Owners \ {OwnerOf[body[a]]}
    /\ body[a] \in FounderGated =>
         Entry(a, "founder", Founder, "approved") \in decisions

\* Rejection reasons are attached exactly as long as they apply: a REJECTED assignment
\* carries the reasons its next briefing shows, a VERIFIED or CLOSED one carries none.
ReasonsMatchVerdict ==
  /\ \A a \in InStatus({"rejected"}) : reasons[a]
  /\ \A a \in InStatus({"verified", "closed"}) : ~reasons[a]

\* The lifecycle implements the single work slot: its steps take, release, close and
\* drop as WorkSlot allows, and all others leave the slot alone.
Slot == INSTANCE WorkSlot WITH
          Task <- AssignmentId,
          Nobody <- NoAssignment,
          holder <- active,
          closed <- InStatus({"closed"}),
          dropped <- InStatus({"cancelled"})

ImplementsWorkSlot == Slot!Spec

-----------------------------------------------------------------------------
(* Properties of generation.                                               *)

Issues(a, t) == a \notin Present /\ a \in Present' /\ body'[a] = t

\* Templates only the pipeline issues.
PipelineOnly ==
  {Pipeline[i] : i \in DOMAIN Pipeline} \ {NextOf[t] : t \in Template}

\* The first place of the pipeline that names its template: a pack may name one twice.
FirstAt(i) == \A j \in 1..(i - 1) : Pipeline[j] # Pipeline[i]

\* A cancelled attempt "should be reissuable, otherwise a rescope would silently skip a
\* pipeline step" (_consumed_templates): a step is issued only when every earlier step
\* has an assignment that is not cancelled.
NoPhaseSkipped ==
  [][\A a \in AssignmentId, i \in DOMAIN Pipeline :
       Issues(a, Pipeline[i]) /\ Pipeline[i] \in PipelineOnly /\ FirstAt(i) =>
         \A j \in 1..(i - 1) : \E b \in Present : /\ body[b] = Pipeline[j]
                                                  /\ status[b] # "cancelled"]_vars

\* No step of the pipeline is under way twice: two assignments made from one of its
\* templates are never both alive or closed, also when the first was parked as BLOCKED
\* or ESCALATED while generation went on.
NoDuplicatePhase ==
  \A a, b \in Present \ InStatus({"cancelled"}) :
    body[a] = body[b] /\ body[a] \in PipelineOnly => a = b

-----------------------------------------------------------------------------
(* What the repository says of this code and the code does not do.         *)

\* "CANCELLED + new DRAFT issued": a founder's rescope of a frozen assignment issues a
\* new draft (PROJECTOS_V0_1_FOUNDATION_SPEC.md, state_machine.py).
RescopeReissues ==
  [][\A e \in EscalationId :
       /\ escalation[e].state = "open"
       /\ escalation'[e].state = "rescope"
       /\ escalation[e].scope \in InStatus({"escalated"})
       => \E b \in AssignmentId : status[b] = Absent /\ status'[b] = "draft"]_vars

\* "An open escalation on the active assignment freezes it in ESCALATED": no occupant
\* of the slot has an open escalation of its own.
OpenEscalationFreezes ==
  \A e \in EscalationId :
    escalation[e].state = "open" => escalation[e].scope \notin InStatus(ActiveSlot)

\* "A generated pipeline is sequential by default" (bind_template): a step of the
\* pipeline that declares no dependencies of its own leaves DRAFT only when an
\* assignment for every earlier step is CLOSED.
PhasesSequential ==
  \A i, j \in DOMAIN Pipeline, b \in Present \ InStatus({"draft", "cancelled"}) :
    i < j /\ body[b] = Pipeline[j] /\ Pipeline[j] \in PipelineOnly \ DOMAIN OwnDeps =>
      \E a \in InStatus({"closed"}) : body[a] = Pipeline[i]
====
