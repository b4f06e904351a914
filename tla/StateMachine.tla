---- MODULE StateMachine ----
(***************************************************************************)
(* The assignment state machine: the closed table of legal transitions     *)
(* (domain/state_machine.py) and the statuses it ranges over               *)
(* (domain/enums.py).  Pure definitions, no state: Lifecycle resolves      *)
(* every step of an assignment through it.                                *)
(***************************************************************************)

Status == {"draft", "ready", "active", "evidence_submitted", "verifying",
           "verified", "closed", "rejected", "blocked", "escalated", "cancelled"}

\* Statuses that occupy the one execution slot (Status.is_active_slot).
ActiveSlot == {"active", "evidence_submitted", "verifying"}

\* The sentinel target of founder_resolve_proceed: the status held before ESCALATED.
PriorState == "__prior__"

Row(from, event, to, actors) ==
  [from |-> from, event |-> event, to |-> to, actors |-> actors]

Transitions ==
  { Row("draft",              "classify_ok",             "ready",              {"kernel"}),
    Row("draft",              "cancel",                  "cancelled",          {"owner", "founder"}),
    Row("ready",              "start",                   "active",             {"kernel"}),
    Row("ready",              "block",                   "blocked",            {"kernel"}),
    Row("ready",              "escalate",                "escalated",          {"kernel"}),
    Row("active",             "submit",                  "evidence_submitted", {"executor"}),
    Row("active",             "escalate",                "escalated",          {"executor", "owner", "kernel"}),
    Row("active",             "cancel",                  "cancelled",          {"founder"}),
    Row("active",             "block",                   "blocked",            {"owner", "kernel"}),
    Row("evidence_submitted", "verify_start",            "verifying",          {"kernel"}),
    Row("verifying",          "all_criteria_pass",       "verified",           {"kernel"}),
    Row("verifying",          "any_criterion_fail",      "rejected",           {"kernel"}),
    Row("verifying",          "verifier_error",          "rejected",           {"kernel"}),
    Row("verified",           "approvals_complete",      "closed",             {"owner", "reviewer", "founder"}),
    Row("verified",           "review_reject",           "rejected",           {"reviewer", "founder"}),
    Row("rejected",           "resume",                  "active",             {"kernel"}),
    Row("blocked",            "unblock",                 "ready",              {"kernel"}),
    Row("blocked",            "escalate",                "escalated",          {"owner", "kernel"}),
    Row("escalated",          "founder_resolve_proceed", PriorState,           {"founder"}),
    Row("escalated",          "founder_resolve_cancel",  "cancelled",          {"founder"}),
    Row("escalated",          "founder_resolve_rescope", "cancelled",          {"founder"}) }

\* lookup() and permits(): `row` takes an assignment in `from` on `event` by `actor`.
\* An unlisted pair, or an actor the row does not permit, has no row at all.
Permits(row, from, event, actor) ==
  /\ row.from = from
  /\ row.event = event
  /\ actor \in row.actors

\* Where the row leads an assignment whose status before its last escalation was
\* `before`: no status at all when a proceed finds no escalation in the history.
Target(row, before) == IF row.to = PriorState THEN before ELSE row.to
====
