---------------------------- MODULE FleetApplier ----------------------------
(***************************************************************************)
(* fleet_applier.py: the scheduled sweep that decides what a pending       *)
(* manifest may ask of the fleet's tasks.  It reads the brake, the manifest, *)
(* the reviewed catalogue, the brake again and the ledger of applied ids,  *)
(* appends its decisions to the audit log and writes a status file.        *)
(* A definition of the catalogue is its digest.  The elevated step that    *)
(* applies what was allowed, and fills the ledger, is not in the           *)
(* repository.                                                             *)
(***************************************************************************)
EXTENDS Naturals, SequencesExt

CONSTANTS
  Task,       \* names a catalogue can hold
  Digest,     \* what a definition hashes to
  Manifest,   \* manifest ids
  Requests,   \* the operations of each manifest
  MaxSweeps,  \* bound on the sweeps
  NoTask, Outside, NoDigest, NoManifest

Permitted == {"register", "enable", "report"}
Destructive == {"delete", "unregister", "disable", "stop", "remove", "change"}
Entry == [op : Permitted \union Destructive \union {"unknown"},
          task : Task \union {NoTask, Outside},
          smuggles : BOOLEAN,
          pin : Digest \union {NoDigest}]

ASSUME NamesAreDistinct ==
  NoTask \notin Task /\ Outside \notin Task /\ NoDigest \notin Digest /\ NoManifest \notin Manifest
ASSUME RequestsAreEntries == Requests \in [Manifest -> Seq(Entry) \ {<<>>}]

VARIABLES
  pending,    \* the manifest in the file the sweep is given, and whether its stamp verifies
  catalogue,  \* the reviewed definitions
  off,        \* the kill switch exists
  applied,    \* manifest ids in the ledger
  sweep,      \* where the sweep is
  sweeps,     \* how many have begun
  braked,     \* what it read of the brake when it began
  read,       \* the manifest and the catalogue it read
  outcomes,   \* its verdicts, in the order of the operations
  audited,    \* the audit log: rows with the definitions and the ledger of their moment
  status      \* the last status file

applierVars == <<pending, catalogue, off, applied, sweep, sweeps, braked, read, outcomes, audited, status>>
requested == <<pending, catalogue, off, applied>>

NoRead == [id |-> NoManifest, catalogue |-> [t \in Task |-> NoDigest]]
NoStatus == [id |-> NoManifest, stopped |-> FALSE, outcomes |-> <<>>]

Rulings == {"ALLOW", "REFUSE_BRAKE", "REFUSE_MALFORMED", "REFUSE_UNKNOWN_OP", "REFUSE_UNKNOWN_TASK",
            "REFUSE_NON_FLEET", "REFUSE_SMUGGLED_FIELD", "REFUSE_DIGEST_MISMATCH",
            "REFUSE_DESTRUCTIVE", "REFUSE_REPLAY"}

Catalogue == [Task -> Digest \union {NoDigest}]

ApplierTypeOK ==
  /\ pending \in [id : Manifest \union {NoManifest}, authentic : BOOLEAN]
  /\ catalogue \in Catalogue
  /\ off \in BOOLEAN /\ braked \in BOOLEAN
  /\ applied \subseteq Manifest
  /\ sweep \in {"idle", "begun", "read", "planned", "audited"}
  /\ sweeps \in 0 .. MaxSweeps
  /\ read \in [id : Manifest \union {NoManifest}, catalogue : Catalogue]
  /\ outcomes \in Seq(Rulings)
  /\ \A row \in audited : row.entry \in Entry /\ row.verdict \in Rulings
  /\ status.id \in Manifest \union {NoManifest} /\ status.stopped \in BOOLEAN

ApplierInit ==
  /\ pending = [id |-> NoManifest, authentic |-> FALSE]
  /\ catalogue \in Catalogue
  /\ off = FALSE /\ braked = FALSE
  /\ applied = {}
  /\ sweep = "idle" /\ sweeps = 0 /\ read = NoRead /\ outcomes = <<>>
  /\ audited = {} /\ status = NoStatus

-----------------------------------------------------------------------------
(* judge_operation: the reasons to refuse, the first that applies wins.     *)

Applies(v, entry, defs) ==
  CASE v = "REFUSE_SMUGGLED_FIELD" -> entry.smuggles
    [] v = "REFUSE_DESTRUCTIVE" -> entry.op \in Destructive
    [] v = "REFUSE_UNKNOWN_OP" -> entry.op \notin Permitted
    [] v = "REFUSE_MALFORMED" -> entry.task = NoTask
    [] v = "REFUSE_NON_FLEET" -> entry.task = Outside
    [] v = "REFUSE_UNKNOWN_TASK" -> entry.task \in Task /\ defs[entry.task] = NoDigest
    [] v = "REFUSE_DIGEST_MISMATCH" ->
         entry.pin # NoDigest /\ entry.task \in Task /\ entry.pin # defs[entry.task]
    [] OTHER -> TRUE

Checks == <<"REFUSE_SMUGGLED_FIELD", "REFUSE_DESTRUCTIVE", "REFUSE_UNKNOWN_OP", "REFUSE_MALFORMED",
            "REFUSE_NON_FLEET", "REFUSE_UNKNOWN_TASK", "REFUSE_DIGEST_MISMATCH", "ALLOW">>

\* Mutant of Judge: the operation is not looked at.
JudgeAnyOp(entry, defs) ==
  LET Left == SelectSeq(Checks, LAMBDA v : v \notin {"REFUSE_DESTRUCTIVE", "REFUSE_UNKNOWN_OP"})
  IN  Left[SelectInSeq(Left, LAMBDA v : Applies(v, entry, defs))]

Judge(entry, defs) == Checks[SelectInSeq(Checks, LAMBDA v : Applies(v, entry, defs))]

\* plan: the brake and a replay refuse the whole manifest.
Plan(id, defs) ==
  [i \in DOMAIN Requests[id] |->
     CASE off -> "REFUSE_BRAKE"
       [] ~off /\ id \in applied -> "REFUSE_REPLAY"
       [] OTHER -> Judge(Requests[id][i], defs)]

-----------------------------------------------------------------------------
(* One sweep of main.                                                       *)

BeginSweep ==
  /\ sweep = "idle"
  /\ sweeps < MaxSweeps
  /\ pending.id # NoManifest
  /\ sweeps' = sweeps + 1
  /\ braked' = off
  /\ sweep' = "begun"
  /\ UNCHANGED <<requested, read, outcomes, audited, status>>

\* A manifest that is not there, or whose stamp does not verify, ends the sweep
\* before anything is logged or reported.
ReadManifest ==
  /\ sweep = "begun"
  /\ IF pending.authentic
     THEN read' = [id |-> pending.id, catalogue |-> catalogue] /\ sweep' = "read"
     ELSE sweep' = "idle" /\ UNCHANGED read
  /\ UNCHANGED <<requested, sweeps, braked, outcomes, audited, status>>

PlanManifest ==
  /\ sweep = "read"
  /\ outcomes' = Plan(read.id, read.catalogue)
  /\ sweep' = "planned"
  /\ UNCHANGED <<requested, sweeps, braked, read, audited, status>>

\* The row of each operation, with what it was decided from.
PlanRows == {[id |-> read.id, entry |-> Requests[read.id][i], verdict |-> outcomes[i],
          defs |-> read.catalogue] : i \in DOMAIN outcomes}

AuditPlan ==
  /\ sweep = "planned"
  /\ audited' = audited \union PlanRows
  /\ sweep' = "audited"
  /\ UNCHANGED <<requested, sweeps, braked, read, outcomes, status>>

WriteStatus ==
  /\ sweep = "audited"
  /\ status' = [id |-> read.id, stopped |-> braked, outcomes |-> outcomes]
  /\ sweep' = "idle" /\ read' = NoRead /\ outcomes' = <<>>
  /\ UNCHANGED <<requested, sweeps, braked, audited>>

ApplierStopped ==
  /\ sweep # "idle"
  /\ sweep' = "idle" /\ read' = NoRead /\ outcomes' = <<>>
  /\ UNCHANGED <<requested, sweeps, braked, audited, status>>

\* The issuer, the reviewers, the founder and the elevated step.
ApplierSurroundings ==
  /\ \/ \E p \in [id : Manifest, authentic : BOOLEAN] :
          pending' = p /\ UNCHANGED <<catalogue, off, applied>>
     \/ \E t \in Task, d \in Digest : catalogue' = [catalogue EXCEPT ![t] = d] /\ UNCHANGED <<pending, off, applied>>
     \/ off' = ~off /\ UNCHANGED <<pending, catalogue, applied>>
     \/ \E row \in audited : row.verdict = "ALLOW" /\ applied' = applied \union {row.id}
                             /\ UNCHANGED <<pending, catalogue, off>>
  /\ UNCHANGED <<sweep, sweeps, braked, read, outcomes, audited, status>>

ApplierNext == BeginSweep \/ ReadManifest \/ PlanManifest \/ AuditPlan \/ WriteStatus \/ ApplierStopped \/ ApplierSurroundings

ApplierSpec == ApplierInit /\ [][ApplierNext]_applierVars

-----------------------------------------------------------------------------
(* Properties.                                                              *)

\* Whatever a manifest asks for, only a permitted operation on a reviewed task, in
\* the very definition the manifest was written against, is ever allowed.
Fence(entry, defs) ==
  /\ entry.op \in Permitted /\ ~entry.smuggles
  /\ entry.task \in Task
  /\ defs[entry.task] # NoDigest
  /\ entry.pin \in {NoDigest, defs[entry.task]}
AllowedIsReviewed == \A row \in audited : row.verdict = "ALLOW" => Fence(row.entry, row.defs)

\* A decision is shown on the phone only after it is in the audit log, sweeps that
\* are stopped half-way included.
ShownIsAudited ==
  \A i \in DOMAIN status.outcomes :
    \E row \in audited : row.id = status.id /\ row.entry = Requests[status.id][i] /\ row.verdict = status.outcomes[i]

\* The status "answers whether the applier is stopped": the head and the verdicts come
\* from two readings of the brake.
StatusTellsTheBrake == status.stopped => ToSet(status.outcomes) \subseteq {"REFUSE_BRAKE"}
=============================================================================
