------------------------------ MODULE Console ------------------------------
(***************************************************************************)
(* One project as its commands drive it (cli/commands.py), and what the    *)
(* read-only views say of it: the planner (workspace_plan.py), which names *)
(* one next action and which of them `workspace run` may execute; the      *)
(* queue, the status, the doctor, the agent advisor, and the dashboard,    *)
(* focus, inbox and action handoff that join them.                         *)
(*                                                                         *)
(* The state is the kernel's (Lifecycle), with the health of its           *)
(* directory and of the pack.  A view is an operator: it reads and writes  *)
(* nothing.  `next` and `run` are several calls of the service, so another *)
(* terminal may act between them; every other command is one call.         *)
(***************************************************************************)
EXTENDS Lifecycle

CONSTANTS
  Terminal,    \* where commands are typed
  WorkOf,      \* the kind of agent a body's work type asks for, or "founder"
  ExecutorOf,  \* the executor a body declares
  MaxBlocks,   \* bound on the blocks people declare
  MaxFaults,   \* bound on how much is wrong at a time: see Faults
  Nothing      \* a terminal between commands, and no subject

ASSUME AgentAssumption ==
  /\ WorkOf \in [Template -> {"code", "chat", "cowork", "founder"}]
  /\ ExecutorOf \in [Template -> {"code", "cowork", "human"}]
  /\ MaxBlocks \in Nat
  /\ MaxFaults \in Nat

ASSUME NothingIsNoAct == Nothing \notin AssignmentId \union [verb : {"generate", "unblock", "start", "resume"}, on : AssignmentId \union {Nothing}]

VARIABLES
  kernel,     \* the project's .projectos: absent, intact, or with a broken chain
  installed,  \* the kernel's copy of the pack
  supplied,   \* the workspace has the pack init-project installs
  declared,   \* project.yaml names a pack
  drawn,      \* what each terminal has read and is about to act on
  blocks      \* how often people blocked work

health == <<kernel, installed, supplied, declared>>
consoleVars == <<vars, health, drawn, blocks>>

\* The kernel's pack loads and the service issues what it names; or its pack.yaml is
\* there, but it does not load or what it names next is refused (a template it lacks, an
\* agent or a risk flag nobody declares); or it has no pack.yaml.
Pack == {"whole", "unusable", "gone"}

Act == [verb : {"generate", "unblock", "start", "resume"}, on : AssignmentId \union {Nothing}]

ConsoleTypeOK ==
  /\ TypeOK
  /\ kernel \in {"absent", "intact", "broken"}
  /\ installed \in Pack
  /\ supplied \in BOOLEAN /\ declared \in BOOLEAN
  /\ drawn \in [Terminal -> Act \union {Nothing}]
  /\ blocks \in 0 .. MaxBlocks

ConsoleInit ==
  /\ Init
  /\ kernel = "absent"
  /\ installed = "gone"
  /\ supplied \in BOOLEAN /\ declared \in BOOLEAN
  /\ drawn = [t \in Terminal |-> Nothing]
  /\ blocks = 0

-----------------------------------------------------------------------------
(* Reads.                                                                   *)

Least(S) == CHOOSE a \in S : \A b \in S : a <= b

InFlightOrder == <<"active", "evidence_submitted", "verifying", "verified", "rejected">>
PendingOrder == InFlightOrder \o <<"ready", "draft">>

\* By the place of the status in the order, then by id.
FirstOf(order) ==
  LET claims == {c \in (DOMAIN order) \X AssignmentId : status[c[2]] = order[c[1]]}
      Before(c, d) == c[1] < d[1] \/ (c[1] = d[1] /\ c[2] <= d[2])
  IN  IF claims = {} THEN NoAssignment ELSE (CHOOSE c \in claims : \A d \in claims : Before(c, d))[2]

Current == FirstOf(InFlightOrder)
FirstPending == FirstOf(PendingOrder)  \* _first_pending

OpenEscalations == {e \in EscalationId : escalation[e].state = "open"}

\* legal_events: the table knows the event from this status.
Legal(s, event) == s \in {row.from : row \in {r \in Transitions : r.event = event}}

-----------------------------------------------------------------------------
(* The planner.                                                             *)

Recommend(category, command, subject, act) ==
  [category |-> category, command |-> command, subject |-> subject, act |-> act]

\* Only what needs no placeholder and no authority carries an act.
Advise(category, command, subject) == Recommend(category, command, subject, Nothing)

ForInflight[a \in AssignmentId] ==
  CASE status[a] = "verified" /\ Legal("verified", "approvals_complete") -> Advise("run", "complete", a)
    [] status[a] = "rejected" /\ Legal("rejected", "resume")             -> Advise("run", "next", a)
    [] status[a] \in {"evidence_submitted", "verifying"} /\ Legal(status[a], "verify_start") -> Advise("run", "verify", a)
    [] status[a] = "active"                                              -> Advise("external", "verify", a)
    [] OTHER                                                             -> Advise("external", "show", a)

\* _pack_installed: its pack.yaml is there, or project.yaml names none to look for.
PackInstalled == declared => installed # "gone"

\* Mutant of ForIdle: whether the kernel has the pack is not looked at.
ForIdleUnequipped ==
  LET First(s) == IF InStatus({s}) = {} THEN Nothing ELSE Least(InStatus({s})) IN
  IF First("blocked") # Nothing
    THEN Recommend("run", "unblock", First("blocked"), [verb |-> "unblock", on |-> First("blocked")])
  ELSE IF First("ready") # Nothing
    THEN Recommend("run", "next", First("ready"), [verb |-> "generate", on |-> Nothing])
  ELSE IF First("draft") # Nothing THEN Advise("external", "show", First("draft"))
  ELSE IF InStatus({"closed"}) # {} THEN Advise("complete", "next", Latest)
  ELSE Recommend("run", "next", Nothing, [verb |-> "generate", on |-> Nothing])

ForIdle ==
  LET First(s) == IF InStatus({s}) = {} THEN Nothing ELSE Least(InStatus({s})) IN
  IF First("blocked") # Nothing
    THEN Recommend("run", "unblock", First("blocked"), [verb |-> "unblock", on |-> First("blocked")])
  ELSE IF First("ready") # Nothing
    THEN Recommend("run", "next", First("ready"), [verb |-> "generate", on |-> Nothing])
  ELSE IF First("draft") # Nothing THEN Advise("external", "show", First("draft"))
  ELSE IF InStatus({"closed"}) # {} THEN Advise("complete", "next", Latest)
  ELSE IF ~PackInstalled THEN Advise("external", "doctor", Nothing)
  ELSE Recommend("run", "next", Nothing, [verb |-> "generate", on |-> Nothing])

\* Mutant of Plan: escalations are looked at before the chain.
PlanEscalationFirst ==
  IF kernel = "absent" THEN Advise("run", "init-project", Nothing)
  ELSE IF OpenEscalations # {} THEN Advise("founder", "resolve", Least(OpenEscalations))
  ELSE IF kernel = "broken" THEN Advise("blocked", "doctor", Nothing)
  ELSE IF Current # NoAssignment THEN ForInflight[Current]
  ELSE ForIdle

Plan ==
  IF kernel = "absent" THEN Advise("run", "init-project", Nothing)
  ELSE IF kernel = "broken" THEN Advise("blocked", "doctor", Nothing)
  ELSE IF OpenEscalations # {} THEN Advise("founder", "resolve", Least(OpenEscalations))
  ELSE IF Current # NoAssignment THEN ForInflight[Current]
  ELSE ForIdle

-----------------------------------------------------------------------------
(* The other views.                                                         *)

\* Mutant of Bucket: frozen work goes with what needs no attention.
BucketFrozenAside(s) ==
  CASE s \in ActiveSlot  -> "active"
    [] s = "ready"       -> "ready"
    [] s = "blocked"     -> "blocked"
    [] s = "closed"      -> "completed"
    [] OTHER             -> "other"

Bucket(s) ==
  CASE s \in ActiveSlot               -> "active"
    [] s = "ready"                    -> "ready"
    [] s \in {"blocked", "escalated"} -> "blocked"
    [] s = "closed"                   -> "completed"
    [] OTHER                          -> "other"

Queue == IF kernel = "absent" THEN [b \in {} |-> {}]
         ELSE [b \in {Bucket(status[a]) : a \in Present} |-> {a \in Present : Bucket(status[a]) = b}]
Queued(b) == IF b \in DOMAIN Queue THEN Queue[b] ELSE {}

\* The handoff's current assignment, which it reads before it checks the chain.
Shown == IF kernel = "absent" THEN NoAssignment ELSE Current

Integrity == CASE kernel = "absent" -> "not-initialised" [] kernel = "intact" -> "verified" [] kernel = "broken" -> "failed"

\* build_status: what is broken, and what is only incomplete.
Failures == {p \in {"audit"} : Integrity = "failed"}
Warnings == {p \in {"kernel"} : kernel = "absent"}
              \union {p \in {"configured-pack"} : ~supplied}
              \union {p \in {"project-pack"} : ~(declared /\ supplied)}
Condition == IF Failures # {} THEN "failure" ELSE IF Warnings # {} THEN "warning" ELSE "healthy"

\* The doctor's named checks, from the fields of the status.
Diagnosis ==
  [check \in {"configured-packs", "kernel-initialised", "project-pack", "audit-integrity"} |->
     CASE check = "configured-packs" -> IF "configured-pack" \in Warnings THEN "warn" ELSE "pass"
       [] check = "kernel-initialised" -> IF kernel = "absent" THEN "warn" ELSE "pass"
       [] check = "project-pack" -> IF "project-pack" \in Warnings THEN "warn" ELSE "pass"
       [] check = "audit-integrity" -> CASE Integrity = "verified" -> "pass" [] Integrity = "failed" -> "fail" [] OTHER -> "skip"]

Found(result) == \E check \in DOMAIN Diagnosis : Diagnosis[check] = result
DoctorOutcome == IF Found("fail") THEN "fail" ELSE IF Found("warn") THEN "warn" ELSE "pass"

\* _recommend: an agent only when the work type and the executor agree on one.
Agent(a) ==
  LET work == WorkOf[body[a]]  executor == ExecutorOf[body[a]] IN
  IF executor # "human" /\ work # "founder" /\ (work = "code" <=> executor = "code") THEN work ELSE Nothing

\* The dashboard's agent: none without a kernel, an assignment or an intact chain.
Advised == IF Shown = NoAssignment \/ Integrity = "failed" THEN Nothing ELSE Agent(Shown)

\* The founder's ranking, 1 the most urgent and 6 no attention at all.
Urgent(rank) ==
  CASE rank = 1 -> Plan.category = "blocked"
    [] rank = 2 -> Plan.category = "founder"
    [] rank = 3 -> Queued("blocked") # {}
    [] rank = 4 -> Plan.category = "external"
    [] rank = 5 -> Plan.category = "run"
    [] rank = 6 -> TRUE
Rank == Least({r \in 1 .. 6 : Urgent(r)})
InInbox == Rank < 6

\* The action handoff carries an execution package.
Packaged == Integrity # "failed" /\ Shown # NoAssignment /\ Advised # Nothing

\* The dispatch is ready to paste.
Dispatchable == Integrity = "verified" /\ Shown # NoAssignment

\* The inbox item's blockers: what stands in the way, by the view that says so.
Blockers ==
  {view \in {"integrity", "escalation", "queue"} :
     CASE view = "integrity"  -> Rank = 1
       [] view = "escalation" -> Plan.category = "founder"
       [] view = "queue"      -> Queued("blocked") # {}}

-----------------------------------------------------------------------------
(* next and run.                                                            *)

Idle(t) == drawn[t] = Nothing
Holds(t, act) == drawn' = [drawn EXCEPT ![t] = act]

\* Mutant of Verb: rejected work is not resumed.
VerbReadyOnly(s, a) == IF s = "ready" THEN [verb |-> "start", on |-> a] ELSE Nothing

\* What run_next does with the assignment generate_next gives it.
Verb(s, a) == IF s = "rejected" THEN [verb |-> "resume", on |-> a]
              ELSE IF s = "ready" THEN [verb |-> "start", on |-> a]
              ELSE Nothing

Occupied == InStatus(ActiveSlot) # {}

\* What create checks of any pack: the manifest lists the owner, and the work does not
\* depend on itself.
Issuable(t) ==
  /\ OwnerOf[t] \in Owners
  /\ \A a \in BoundDeps(t) : ~IsNextId(a)

\* generate_next returns, or asks the founder; otherwise it raises.
CanDraw ==
  /\ kernel = "intact" /\ ~Occupied /\ ~OpenProjectEscalation
  /\ \/ FirstPending # NoAssignment
     \/ /\ Latest # NoAssignment \/ Present = {}
        /\ installed = "whole"
        /\ \A t \in Template : Successor(t) => Issuable(t)

\* The pending assignment, or the one generated, or a founder's decision asked for.
Draw(t) ==
  /\ CanDraw
  /\ \/ /\ FirstPending # NoAssignment
        /\ Holds(t, Verb(status[FirstPending], FirstPending))
        /\ UNCHANGED vars
     \/ \E a \in AssignmentId, b \in Template : GenerateNext(a, b) /\ Holds(t, Verb(status'[a], a))
     \/ GenerateUndetermined /\ Holds(t, Nothing)
  /\ UNCHANGED <<health, blocks>>

\* Generation would need an id beyond the bounds.
Exhausted ==
  /\ Generating
  /\ IF \E b \in Template : Successor(b) THEN Present = AssignmentId
     ELSE \A e \in EscalationId : escalation[e].state # "none"

NextCommand(t) == Idle(t) /\ Draw(t)

\* workspace run: the plan is read, and what it may execute is delegated.
ReadPlan(t) ==
  /\ Idle(t)
  /\ Plan.act # Nothing
  /\ Holds(t, Plan.act)
  /\ UNCHANGED <<vars, health, blocks>>

CanTake(act) ==
  /\ kernel = "intact"
  /\ CASE act.verb = "generate" -> CanDraw
       [] act.verb = "start"   -> status[act.on] = "ready" /\ SlotFree(act.on)
       [] act.verb = "resume"  -> status[act.on] = "rejected" /\ SlotFree(act.on)
       [] act.verb = "unblock" -> status[act.on] = "blocked" /\ Acyclic(Present, depends) /\ Satisfied(depends[act.on])

\* The call that follows; when its guards no longer hold it raises.
Take(t) ==
  /\ ~Idle(t)
  /\ \/ drawn[t].verb = "generate" /\ Draw(t)
     \/ /\ ~CanTake(drawn[t]) \/ (drawn[t].verb = "generate" /\ Exhausted)
        /\ Holds(t, Nothing) /\ UNCHANGED <<vars, health, blocks>>
     \/ /\ CanTake(drawn[t])
        /\ \/ drawn[t].verb = "start" /\ Start(drawn[t].on)
           \/ drawn[t].verb = "resume" /\ Resume(drawn[t].on)
           \/ drawn[t].verb = "unblock" /\ Unblock(drawn[t].on)
        /\ Holds(t, Nothing) /\ UNCHANGED <<health, blocks>>

-----------------------------------------------------------------------------
(* The commands that are one call of the service.                           *)

Calls(step) == kernel = "intact" /\ step /\ UNCHANGED <<health, drawn>>

Verify(a) == Calls(VerifyBegin(a)) /\ UNCHANGED blocks
Complete(a, p, role) == Calls(Approve(a, p, role) \/ Attest(a, p, role)) /\ UNCHANGED blocks
BlockCommand(a) == blocks < MaxBlocks /\ blocks' = blocks + 1 /\ Calls(Block(a))
UnblockCommand(a) == Calls(Unblock(a)) /\ UNCHANGED blocks
EscalateCommand == Calls(EscalateProject \/ \E a \in AssignmentId : Escalate(a)) /\ UNCHANGED blocks
ResolveCommand(e, outcome) == Calls(Resolve(e, outcome)) /\ UNCHANGED blocks

\* The engine behind verify: a verdict, or none.
Passes(a) == VerifyPass(a) /\ UNCHANGED <<health, drawn, blocks>>
Engine(a) == (VerifyFail(a) \/ Interrupt(a)) /\ UNCHANGED <<health, drawn, blocks>>

\* init-project: the workspace's copy is installed as it is, if there is one.
InitProject ==
  /\ kernel = "absent" /\ supplied
  /\ kernel' = "intact" /\ installed' \in Pack \ {"gone"}
  /\ UNCHANGED <<vars, supplied, declared, drawn, blocks>>

\* What the bound counts.  project.yaml may name no pack at any time.
Faults == {f \in {"chain", "pack", "supply"} :
             CASE f = "chain"  -> kernel = "broken"
               [] f = "pack"   -> kernel # "absent" /\ installed # "whole"
               [] f = "supply" -> ~supplied}

\* People break the chain and restore it, change or lose the kernel's pack and bring it
\* back, and edit the workspace and project.yaml.
Surroundings ==
  /\ \/ /\ kernel' \in {"intact", "broken"} \ {kernel} /\ kernel # "absent"
        /\ UNCHANGED <<installed, supplied, declared>>
     \/ /\ installed' \in Pack \ {installed} /\ kernel # "absent"
        /\ UNCHANGED <<kernel, supplied, declared>>
     \/ supplied' = ~supplied /\ UNCHANGED <<kernel, installed, declared>>
     \/ declared' = ~declared /\ UNCHANGED <<kernel, installed, supplied>>
  /\ Cardinality(Faults') <= MaxFaults
  /\ UNCHANGED <<vars, drawn, blocks>>

ConsoleNext ==
  \/ \E t \in Terminal : NextCommand(t) \/ ReadPlan(t) \/ Take(t)
  \/ \E a \in AssignmentId : Verify(a) \/ Passes(a) \/ Engine(a) \/ BlockCommand(a) \/ UnblockCommand(a)
  \/ \E a \in AssignmentId, p \in Person, role \in Role : Complete(a, p, role)
  \/ EscalateCommand \/ \E e \in EscalationId, outcome \in Outcome : ResolveCommand(e, outcome)
  \/ InitProject \/ Surroundings

ConsoleSpec == ConsoleInit /\ [][ConsoleNext]_consoleVars

\* The founder types what the plan recommends.
Follow(t) ==
  \/ Take(t)
  \/ /\ Idle(t)
     /\ \E plan \in {Plan} :
        CASE plan.command = "next"         -> Draw(t)
          [] plan.command = "unblock"      -> UnblockCommand(plan.subject)
          [] plan.command = "verify"       -> Verify(plan.subject)
          [] plan.command = "complete"     -> Complete(plan.subject, Founder, "owner")
          [] plan.command = "resolve"      -> \E outcome \in Outcome : ResolveCommand(plan.subject, outcome)
          [] plan.command = "init-project" -> InitProject
          [] OTHER                         -> FALSE

\* The plan is followed for ever, and work that is verified again and again passes.
FollowSpec ==
  /\ ConsoleSpec
  /\ WF_consoleVars(\E t \in Terminal : Follow(t))
  /\ SF_consoleVars(\E a \in AssignmentId : Passes(a))

-----------------------------------------------------------------------------
(* Properties.                                                              *)

\* The views speak with one voice about a chain that does not verify, whatever else is
\* going on in the project: the plan is blocked, the status failed, the doctor fails,
\* the project heads the inbox with that as a blocker, and no view hands out work.
OneVoiceOnIntegrity ==
  /\ kernel = "broken" <=> Plan.category = "blocked"
  /\ kernel = "broken" <=> Condition = "failure"
  /\ kernel = "broken" <=> DoctorOutcome = "fail"
  /\ kernel = "broken" <=> "integrity" \in Blockers
  /\ kernel = "broken" => Plan.act = Nothing
  /\ Packaged => Dispatchable

\* No project drops out of the founder's inbox with work that is neither closed nor
\* cancelled, however it was parked.
Unfinished == Present \ InStatus({"closed", "cancelled"})
NothingForgotten == Unfinished # {} \/ kernel # "intact" => InInbox

\* What `run` may execute, the service would do at once.  It refuses only a generation
\* with nothing pending, and for one of these: nothing is left but cancelled or frozen
\* work; the pack is there but does not load or names what is refused; it is not there
\* and project.yaml names none, so that the planner does not look; or what is next has
\* an owner the manifest does not list, or depends on itself.
NoPredecessor == Present # {} /\ Present = InStatus({"cancelled", "escalated"})
GenerationFails ==
  \/ NoPredecessor
  \/ installed = "unusable"
  \/ installed = "gone" /\ ~declared
  \/ \E t \in Template : Successor(t) /\ ~Issuable(t)
PlannedActWorks ==
  Plan.act # Nothing /\ ~CanTake(Plan.act) =>
    Plan.act.verb = "generate" /\ Pending = {} /\ GenerationFails

\* "A fully-determined safe action": as documented, without the exceptions.
PlannedActAlwaysWorks == Plan.act # Nothing => CanTake(Plan.act)

\* "A stale recommendation can never be acted on": what is started is what the plan
\* would have started now.
StaleNeverTaken ==
  [][\A t \in Terminal : ~Idle(t) /\ drawn[t].verb = "unblock" /\ status # status' /\ Take(t)
        => Plan.act = drawn[t]]_consoleVars

\* Someone who keeps following the plan finishes the pipeline, provided the project's
\* files are left sound: each phase is closed, or the project comes back for ever to one
\* of the places where the plan leads nowhere.  It verifies again and again work whose
\* criteria wait for an attestation, and approves as the owner what waits for another
\* role; and it has nothing to say of work whose verification was stopped, nor of
\* cancelled or frozen work alone.
Finished == \A i \in DOMAIN Pipeline : \E a \in InStatus({"closed"}) : body[a] = Pipeline[i]
AwaitsAttestation(a) == ~(Attests[body[a]] \subseteq Recorded(a, decisions, "attested"))
AwaitsApproval(a) == ~(Required(body[a]) \subseteq Recorded(a, decisions, "approved") \union {"owner"})
DeadEnd ==
  \/ \E a \in InStatus({"verifying", "rejected"}) : AwaitsAttestation(a)
  \/ \E a \in InStatus({"verified"}) : AwaitsApproval(a)
  \/ \E a \in InStatus({"verifying"}) : a \notin evaluating
  \/ NoPredecessor
Sound == IF kernel = "absent" THEN supplied ELSE kernel = "intact" /\ installed = "whole"
PlanIsFinished == <>[]Sound => <>Finished \/ []<>DeadEnd
=============================================================================
