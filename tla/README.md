# ProjectOS in TLA+

A verification development for ProjectOS, the "operating system" for AI-executed projects under
`src/src/projectos`. ProjectOS moves *assignments* (units of work given to an executor, usually an AI
session) through a closed state machine, records every decision on a hash-chained audit log, and runs a
*fleet* of seats that pick assignments up from a shared inbox. Everything is a file; every command is a
process that reads files, decides, and writes files.

Contents: [inventory](#inventory) - [modules](#the-modules) - [runs](#the-runs) - [fairness](#fairness) -
[proofs](#the-proofs) - [findings](#findings) - [plan](#plan).

## Inventory

Paths are relative to `src/src/projectos` unless they start with `src/`.

### The kernel

**Transition table** (`domain/state_machine.py`, `domain/enums.py`). 21 rows `(from, event, to, actors)`;
no state. One target is a sentinel: `founder_resolve_proceed` leads to the status held before the freeze.
*Correct when* no operation reaches a status by another way than a row.

**Lifecycle service** (`application/lifecycle.py`, with the pure rules it calls: `domain/approvals.py`,
`domain/dependency.py`, `domain/next_engine.py`, `domain/escalation.py`,
`infrastructure/template_binding.py`). *State:* the assignments (status, body, dependencies, history,
reasons, criteria), the escalations, the approvals and attestations on the log, the active-assignment
pointer. *Operations:* create, classify, start, submit, verify, resume, approve, attest, reject, block,
unblock, cancel, escalate, resolve, generate_next. Every one begins with the integrity guard and moves
an assignment only by `_transition`. *Hard:* an assignment leaves the execution slot by six routes and
returns by three, two of them (resume, a founder's proceed) long after it left; the status to return to is
recovered from the history; verification runs for minutes between its two halves; approvals, reasons and
escalations are saved separately from the transitions they belong to; generation must agree with what was
cancelled, parked or rescoped. *Correct when* one assignment at most is in the slot (INV-1) and the pointer
names it; dependencies stay closed; nothing closes without its mode's authority, and nothing that has it
waits; a pipeline's phase is neither skipped nor issued twice.

**Kernel store** (`domain/audit.py`, `infrastructure/audit_log.py`, `infrastructure/repositories.py`,
`application/integrity.py`). *State:* the append-only log, one YAML file per assignment and escalation, the
pointer file. *Operations:* `read_all`, `append`, `save`, `set_active`, `verify_state`, and `seal_next`.
*Hard:* nothing is locked, and one transition is four file operations: read the last entry, append, save,
set the pointer. A process can be killed between any two; another can run between any two. *Correct when*
the chain links, files cite only what is logged, and an interruption costs at most one transition.

**Classification, evidence and the rule engine** (`domain/classification.py`, `domain/rule_engine.py`,
`domain/routing.py`, `domain/evidence.py`, `application/verification.py`). Pure functions of an assignment, a
manifest and the repository under work.

**Command line and views** (`cli/main.py`, `cli/commands.py`, and the planner, queue, status, doctor, advisor,
dashboard, focus, inbox and handoff under `infrastructure/`). *State:* none of their own. *Operations:* one command
is one call of the service, except `next` and `run`, which read, decide and call; a view reads and renders.
*Hard:* what was read may be stale when the call is made; six views describe the same project in their own
vocabularies; a project can be parked in a way that no view shows. *Correct when* the views agree, what the planner
calls executable works, nothing unfinished drops out of sight, and following the plan leads to the end.

**Manifest and packs**, **validation and plumbing**: configuration and wiring.

### The fleet

| component | state | hard |
| --- | --- | --- |
| Inbox lease (`infrastructure/inbox_lease.py`) | one lease file: holder, id, expiry | acquire is read, decide, write without a lock; renew and release go by the holder's name; an expiry may pass, or the holder be gone, at any point |
| Inbox signing (`inbox_auth.py`, `inbox_guard.py`) | the assignments in the inbox and their stamps, the incidents, the audit trail | the directory changes during a sweep, and one file that does not decode ends it; a cap per sweep that counts what is refused; the lease is read per file and the clock per sweep; everything is recorded at the end; a file a seat renamed must come back |
| Claim gate, seat wake (`claim_gate.py`, `src/scripts/wake.ps1`) | the seat lock, claims, reports, INBOX and DONE | a stale lock is noticed, removed and replaced in three steps; the gate looks twice, at a directory that changes, and the engine works on a staged copy; a copy fails unseen; the DONE lines are carried out whatever was reported; a claim outlives its wake |
| Chat auto-restock (`chat_auto_restock.py`) | seats' reports, INBOX and DONE, the founder's queue, a journal of the report in hand, the consumed items | a crash between a side effect and the commit of the journal; consumed items recorded at the end only; directories, reports and queue that others change between two looks, or leave unreadable |
| API runner (`api_runner.py`) | the spending ledger, by day | the budget is read before the call and the cost recorded after it; a line that is cut off takes the next one with it |
| Key ring (in `inbox_auth.py`) | each machine's keyring, the stamps, the enforcement switch in each machine's checkout | a rotation is several steps on several machines, and a file signed under one state of it is read under another; a switch reaches each checkout when it is pulled |
| Fleet applier (`fleet_applier.py`) | brake, manifest, catalogue, ledger, audit log, status file | each is read at a moment of its own; a sweep may be killed between log and status |
| Fleet law, tiers (`fleet_law.py`, `domain/tiers.py`) | the law files in a synchronised folder | uploads land under duplicate names or before their content, renames come late, a file may not open, reports cite the law |
| Defect sweep (`defect_sweep.py`, `domain/standing_question.py`) | the register of defect classes | it is read whole, tests run for minutes, and it is written back whole, while people edit it |
| Workspace registry (`workspace*.py`) | `Workspace.yaml`, each place's `project.yaml`, packs, new kernels | creation in steps, unlocked and killable; a pack is removed and copied file by file; a half-made kernel counts as made |
| Fleet clock and board | none of their own | read-only |

### How they interact

The command line calls one lifecycle operation per process. The lifecycle calls the store for every read and
write and the rule engine during verify; the pure rules are called with what it read. Processes interact
only through the files: there are no messages, locks (outside the fleet's scripts) or callbacks. An
orchestrator takes the lease and writes assignments into the inbox that name it; a timer starts the signer's
sweep, which reads the lease, stamps what it may and records what it refused; seats act only on stamped files,
and the founder can stamp the rest by hand. A seat's wake asks the claim gate, stages a copy of the live folder, lets its engine work on
that, asks again and publishes; its reports are what the restocker settles. The fleet reaches a kernel only through the same commands. A run of verify
executes the project's own commands, so it is the one operation during which others are *expected*.

`PROJECT.json` lists every component with its status, and the hazards found in the code, line by line, with
the property that covers each.

## The modules

| module | models | depends on |
| --- | --- | --- |
| `StateMachine` | the transition table; pure | - |
| `WorkSlot` | abstract: one slot that tasks take, give up, and are closed or dropped outside of | - |
| `Lifecycle` | the lifecycle service, one action per operation | `StateMachine`; implements `WorkSlot` |
| `KernelStore` | the same operations as sequences of file operations of unlocked processes | `StateMachine`; implements `WorkSlot` while commands do not overlap |
| `InboxLease` | the writer lease: acquire, renew, release, expiry, unlocked | - |
| `InboxSigner` | the inbox, the signer's sweep, the founder's batch; composed with the lease | `InboxLease` |
| `Restocker` | the restocker's pass: journal, reports, the move to DONE, the queue, the issue of backlog items | - |
| `SeatWake` | a seat's wakes: lock, claim gate, staging, publication, beside an interactive session | - |
| `SpendGovernor` | the runners' budget | - |
| `KeyRing` | keyrings, rotation, sign and verify, enforcement | - |
| `FleetApplier` | the sweep that judges a manifest | - |
| `FleetLaw` | which file is the law | - |
| `DefectSweep` | the sweep over the register of defects | - |
| `Registry` | the workspace, its projects and their kernels, made by unlocked commands | - |
| `Console` | one project's commands and views | `Lifecycle` |
| `LifecycleProofs`, `ConsoleProofs`, `KernelStoreProofs`, `InboxLeaseProofs`, `InboxSignerProofs`, `RestockerProofs`, `SeatWakeProofs` | theorems | their component; `ConsoleProofs` also `LifecycleProofs`, `InboxSignerProofs` also `InboxLeaseProofs` |
| `FleetProofs` | theorems | `SpendGovernor`, `KeyRing`, `FleetApplier`, `FleetLaw`, `DefectSweep`, `Registry` |
| `MCSlot`, `MCAuthority`, `MCPipeline`, `MCStore`, `MCLease`, `MCInbox`, `MCRestock`, `MCWake`, `MCConsole` | instances for TLC | their component |
| `MCFleet` | six tools that share no state: each behaviour exercises one | the six modules of `FleetProofs` |

The two modules of the kernel split the code by *what can go wrong*. `Lifecycle` treats an operation as one step,
which is what it is to a user who runs one command at a time, and keeps every check it makes. `KernelStore`
keeps the file operations and treats the checks that concern neither files nor the slot as a reason to
stop: an operation becomes a *plan*, the list of the things it does to the files after its guard.

### Lifecycle

| variable | in the code |
| --- | --- |
| `status`, `body`, `depends`, `reasons` | `Assignment.status`, the fields a template or a caller gives it, `depends_on`, `rejection_reasons` |
| `prior` | what `_prior_status` would find in the history: the from-status of the last record into ESCALATED |
| `decisions` | `approval_recorded` and `attestation_recorded` entries of the log |
| `escalation` | scope and state of each escalation file |
| `active` | the active-assignment pointer |
| `evaluating` | the assignments whose verification engine is running in some process |

An operation that raises before it writes is a disabled action; one that raises after a write is modelled
with that write (`Resolve` refused by the slot keeps the escalation's outcome). `verify` is
`VerifyBegin`, then `VerifyPass`, `VerifyFail` or `Interrupt`. `Move` is `_transition`: it finds the row,
refuses an actor the row does not permit, and writes status, history and pointer. `GenerateNext` is the whole of
`generate_next`: the decision, the binding, `create` and `classify` in one action, whose classification may
be deferred.

Abstracted: text and identifiers (an assignment is its number), the criteria of a verification (any verdict
may come, except that a pass needs the attestations its criteria demand), the mode and gates of a body
(constants: they are functions of the body and the manifest), the history except for `prior`.

### KernelStore

A process goes through `ReadLog`, `VerifyFiles` (the two reads of the guard), `Load`, then its plan:
`CheckSlot`, `Reload`, `Rewrite`, and for every entry `Seal` (read the last entry), `AppendEntry`, and, if it
is a transition, `Save` and `SetPointer`. `Stop` ends a process at any point: killed, interrupted or refused
by a check of `Lifecycle`. `PlanOf` and `Plans` list what each operation does to the files, in the code's order.

A hash is the pair of a sequence and a writer: two processes write different timestamps and actors, so two
entries of one sequence never have the same hash, and one process never writes one sequence twice unless the log
lost it. `overlap` is an auxiliary variable, TRUE from the first moment two operations have been in progress
at once; the properties `AloneUnharmed` and `AloneImplementsSlot` are about logs where that never happened.

The model starts with all assignments created. Escalation files, the digest of immutable fields and the
monthly files of the log are left out; a guard that finds a missing or altered file is not modelled.

### InboxLease

| variable | in the code |
| --- | --- |
| `clock` | the `now` that callers pass |
| `lease` | `INBOX-WRITER-LEASE.json`; `Torn` is a file that `read_lease` raises on |
| `told` | the lease in the decision a surface was last given, and under which it issues |
| `op` | where each surface is in an operation, and the `now` and lease id it carries |
| `issued` | the lease ids generated, so that a new one is new |

`Acquire`, `Renew` and `Release` are the reads and decisions; `Truncate` and `Write` are `_write`, whose
`write_text` empties the file first; `Unlink` is the end of release. `renew` calls `acquire`, which reads the
file a second time (`RenewAcquires`) with the first `now`. A refusal or an unreadable file changes nothing and is a
disabled action. `Vanish` is a session that ends, in an operation or between two. The clock may go on between any two
steps. `overlap` is auxiliary, as in `KernelStore`.

A surface that keeps to the module's rules goes by what it was told and by the time (`Holds`), so the exclusion of
issuers is stated of that and not of the file, which has one holder by its shape.

### InboxSigner

| variable | in the code |
| --- | --- |
| `dir` | the files of the inbox, each under its assignment's name (`plain`) or behind a refusal's prefix (`trapped`) |
| `sweep` | the locals of `auto_sign_once`: the listed paths, candidates, `moment`, the text read, `signed`, and `refused` (incidents) |
| `vouch` | the texts `batch_sign` has listed and not yet come to |
| `trail` | the names `_write_auto_sign_trail` logged as signed |
| `incidents` | `auto-sign-incidents.json`; `Malformed` stands for a file that does not parse |

A sweep is `SweepBegin` (list the directory), `Sort` per file (recover it from its prefix, read it, class it),
`Sorted` (the cap and the clock), `Check` and `Stamp` per candidate (read, guard, lease; write back what was
read), `Signed`, `RecordIncidents` and `RewriteIncidents` (the record is read, truncated, and written), `WriteTrail`. It raises
at a file that is gone or does not decode, or at a lease that cannot be read (`SweepRaises`), and may be killed anywhere
(`SweepKilled`), in the middle of a `write_text` too, which leaves an empty file. `Vouch`, `VouchStamp` and `VouchEnds`
are the founder's batch.

Outside the code, and modelled from how it treats them: `Issue` (an orchestrator writes a file, with `stamp_lease`'s
line if it was told of a lease), `Edit`, `SeatRefuses`. `mishaps` bounds edits, refusals by seats, kills
and batches together.

Abstracted: a text is what it asks for, its LEASE line and its stamp, or `garbled`, which `read_text` raises on; the guard's patterns are the one bit
`reserved` (the law, or a founder-only act); names sort as numbers. Both kinds of stamp verify, with the same key; which of
the two made it is kept because properties need it. One sweep runs at a time: the timer's unit is a oneshot service, which systemd
does not start twice (`src/deploy/droplet/systemd/projectos-signer.service`). The brake is a sweep that is not started. Incidents are
known by their file; when they are marked resolved is left out.

### Restocker

| variable | in the code |
| --- | --- |
| `report` | the content of each report file; its digest, since two contents have two digests |
| `inbox`, `done` | the assignment files, each known by the item it is about and the stamp in its name |
| `torn` | the assignments whose text was never written: `write_text` has opened the file and no more |
| `queue` | the lines of `FOUNDER-QUEUE.md` |
| `pool` | the latest backlog file: none, one that parses, one on which `parse_pool` raises |
| `marker` | `CHAT-RESTOCK-MARKER.json` |
| `pass` | where `_run_locked` is, and its locals: `state`, the candidates left, what `_find_assignment` returned, what was read of the queue, the seats left, the item in hand |
| `acted`, `issues` | auxiliary: the side effects each report has had, the writes of each item |

`Begin` loads the marker, lists the candidates and makes the two checks that stop a pass (`Unchanged`). For each report in
`Turn`: `Journal`, `ParseAndVerify`, `Find` and `Move`, or `ReadQueue` and `AppendLine` when any of these raises a
`RestockError`, then `Commit`. Then `Restock`, and for each seat `LookForSeat`, `LookInInbox`, `LookInDone`, `Open` and `Fill`; `End` writes
the marker. An `OSError` (a file that is gone) or a `UnicodeDecodeError` (`Undecodable` contents of a
report, `GarbledLine` in the queue; nothing catches it) ends the pass (`Raises`); `Killed` ends it anywhere. The marker then still has the report in flight, and the next pass begins with that one.

Outside the code: `SeatReports`, `ReportChanges`, `Issued`, `SeatMoves`, `OtherAppends`, `NewBacklog`. `MaxMishaps` bounds
kills and what others change, except for reports that are written and assignments that seats file, which are free.

Abstracted: whether a report parses and its commit verifies (one set of contents parses, and any verification may fail, as a fetch may),
the patterns of names, the manifest of approved items, the reason in a line of the queue, so that a report that is parked for two reasons
has one line here and two there. `_exclusive_lock` is the one pass at a time: the system releases it when its holder dies. Left
out: the loading of the configuration and the pass's own report. The restocker takes no writer lease and writes no LEASE line into what it
issues, so `Restocker` is not composed with `InboxLease`: the signer's fence, when it is on, refuses every item it issues.

### SeatWake

| variable | in the code |
| --- | --- |
| `inbox`, `done`, `stamped`, `young`, `renamed` | the assignment files tagged for the seat: where they are, signed, younger than the grace window, behind a `REFUSED-` prefix |
| `claims`, `reports` | the claim files, and how many reports on each assignment reached the live folder |
| `lock` | the wake that the lock file names; its owner is alive while it is `Busy` |
| `session` | the assignment of the seat's interactive session |
| `pc`, `target`, `seen`, `own`, `reported`, `lines` | where `wake.ps1` is, what the gate judged, what was staged, and what the engine wrote: its claim, perhaps a report on that assignment, and the assignments that its lines in `DONE-MOVES` name |

`CheckLock`, `ClearLock`, `TakeLock` are the three steps of the lock. `ListInbox` and `ReadNames` are one call of the gate, which
reads INBOX and names at two moments; the second call comes after the engine and ignores the wake's own claim. `StageIn`, `EngineClaims` or
`EngineIdles`, `PublishClaim`, `PublishReport`, `MoveDone` follow. `Copy-Item` goes on when it fails (`Copies`), `Kill` may come anywhere and leaves
the lock. The engine is external: on its staged copy it claims the oldest unclaimed file, as the prompt says, or does nothing; whether it
reports and which staged files its DONE lines name are free, each on its own, and `MoveDone` carries out every line, as `Publish-Stage` does. Files are copied in the order of their names, which begin with the
minute they were written in: a report is written after its claim, so the claim goes first. (Of one minute, the seat's name and then `CLAIM` decide; a report whose name sorts before `CLAIM` in the same minute would go first, and is left out.)
`overlapped` and `lostCopy` are auxiliary. Left out: the backoff after failures, boards, usage lines, and the CHIEF seat's staging.

### SpendGovernor, KeyRing, FleetApplier, FleetLaw, DefectSweep

- `SpendGovernor`: `DecideSpend` is `decide`, with the pools it considers in order, the reserve and the day's total as the ledger can be read;
  `CallVendor` is external; `RecordCost` appends. `RunnerKilled` cuts a line off or loses it; a line appended to one that was cut off makes both unreadable, and
  `day_spend` skips what it cannot read. `charged` is what the vendor took, `recorded` what a reader adds up.
- `KeyRing`: a ring is the list of entries of the source in effect; `Load`, `Sign`, `Verify`, `Finish`, `Act` are one command, between whose steps
  the founder's rotation goes on line by line (`AppendKey`, `RetireKey`) and the registry of one machine's checkout after another is rewritten or pulled (`Declare`, `Restored`), so that two machines may disagree on the mode. `strayed` is TRUE once a step of a rotation
  was taken too early: the signer got a key that another machine lacks, or the last line of a key was deleted that something still needs. A text is its first stamp, whether it matches, and whether a second one follows.
- `FleetApplier`: `BeginSweep`, `ReadManifest`, `PlanManifest`, `AuditPlan`, `WriteStatus`, each with what it reads at its moment. `Checks` is the list of
  refusals in the code's order and `Judge` takes the first that applies. What applies the allowed operations is not in the repository.
- `FleetLaw`: `Boot` is `resolve_law` over the folder as it is. A file is a name, a version and whether it is `legible`: it opens, and its head says the version. `Candidates` passes over what is not, as `_declared_version` does.
  `Upload` (whole, or with the head to come), `Sync`, `Supersede`, `Report` are what synchronisation and seats do to the folder.
- `DefectSweep`: `ReadRegister`, `Observe` or `TimesOut` per class, `WriteRegister`, `AppendRecord`; `EditRegister` and `EditTree` are people.

### Registry

A place under `Projects/` is its number in the order of the walk, a `project.yaml` its id and its repository. `Add` is `add_project`, `ReadList`,
`WriteScratch`, `Replace` are the unlocked read and the replacement of `Workspace.yaml` through its one temporary name, `WriteProject` the `project.yaml`;
`Bootstrap`, `WriteSkeleton`, `WriteExample`, `WriteStarter` make a workspace; `Discover` and `Walk` register what is on disk; `InitKernel`, `WriteManifest`,
`WritePointer` make a kernel, with the pack's installation in between, operation by operation: `FindPack` and its listing, `RemoveFile`, `RemoveDirectory` (`rmtree`), `MakeDirectory`, `CopyFile`, `EndCopy` (`copytree`). A kernel is the set of its `Parts`,
the pack's files among them, and `left` what a command has still to remove or copy by the listing it made: of two commands at one kernel, each may remove what the other copies, and raises at what it does not find.
`Resolves` is `resolve_workspace` without its report. `Kill` ends a command between any two operations.
`overlapped`, `killed`, `clashed` are auxiliary, and so is `disturbed`: the kernels at which a command was killed or two met, and that no command has begun to make alone since. Left out: branches and remotes, the depth and the ignore rules of discovery, a
`project.yaml` that a kill cuts off.

### Console

The state is `Lifecycle`'s, with `kernel` (absent, intact, a chain that does not verify), `installed` (the kernel's copy of the pack is whole, cannot be used, or is gone), `supplied` (the workspace has the pack), `declared` (`project.yaml` names one) and, per terminal, `drawn`: the act it has read and is about to make.
Every view is an operator over that state: `Plan` (`build_plan`), `Queue`, `Condition` (status), `Diagnosis` (doctor), `Advised`, `Urgent` (dashboard), `InInbox`, `Blockers`,
`Packaged` (handoff), `Dispatchable`. `Draw` and `ReadPlan` are the reads of `next` and `run`, `Take` their call; the other commands are actions of `Lifecycle` with the
arguments the command line gives them. `CanDraw` and `CanTake` are the conditions under which the service does what is asked and does not raise: `CanDraw` has the whole of `generate_next`, down to the owner that `create` looks up and
the pack, whose other refusals (a template it lacks, an agent or a flag that nobody declares) are the value `unusable`. `PackInstalled` is the planner's own look at the pack. `Surroundings` breaks and restores chain, packs and `project.yaml`. Left out: several projects in one view, git branches, rendering.

### Mutation operators

A definition whose comment says `Mutant of X` or `mutation:` is a variant of `X`, with a bug that the code does not have: a check
dropped, an order swapped, a stale value used. No action uses it. Put in place of the original, each makes TLC find
its property violated; `PROJECT.json` pairs them.

## The runs

`StampedIsServed`, `EveryAssignmentAnswered`, `EveryReportSettled`, `EveryIdleSeatRestocked` and `PlanIsFinished` are liveness properties, all others are safety. Every run
allows deadlock: bounds on ids, on the log and on the clock end behaviours, and nobody has an obligation to run
a command; a sweep with nothing to do goes round for ever.

| run | module, cfg | states | properties |
| --- | --- | --- | --- |
| `slot` | `MCSlot` | 106 thousand | `TypeOK`, `SingleActiveSlot`, `PointerFollowsStatus`, `WorkFollowsDependencies`, `FrozenRemembersPrior`, `EvaluatedIsVerifying`, `ImplementsWorkSlot` |
| `authority` | `MCAuthority` | 59 thousand | `VerifiedAwaitsApproval`, `ClosedWithAuthority`, `ReasonsMatchVerdict` |
| `pipeline` | `MCPipeline` | 210 thousand | `NoDuplicatePhase`, `NoPhaseSkipped` |
| `store` | `MCStore`, one process | 1.45 million | `AloneUnharmed` |
| `contention` | `MCStore`, `StoreContention.cfg`, two processes | 533 thousand | `FilesCiteLog`, `FilesFollowTheTable` |
| `lease` | `MCLease` | 479 thousand, up to symmetry | `AloneSingleIssuer`, `LeaseIdNamesIssuer` |
| `takeover` | `MCInbox`, two orchestrators | 2.2 million, up to symmetry | `AloneTakeoverIsFinal` |
| `signing` | `MCInbox`, `MCSigner.cfg` | 215 thousand | `StampIsOnWork`, `EveryAssignmentAnswered` |
| `restock` | `MCRestock` | 356 thousand | `JournalCovers`, `IssuedOnce`, `EveryReportSettled`, `EveryIdleSeatRestocked` |
| `wake` | `MCWake` | 549 thousand | `SerialOneReport`, `DoneHasReport`, `StampedIsServed` |
| `fleet` | `MCFleet` | 1.0 million | `DayCapHolds`, `RotationRefusesNothing`, `EnforcingHolds`, `AllowedIsReviewed`, `LawIsNewest`, `SweepKeepsDeclarations`, `AloneResolves`, `KernelIsWhole`, `RegistrationsKept` |
| `console` | `MCConsole` | 231 thousand | `OneVoiceOnIntegrity`, `NothingForgotten`, `PlannedActWorks`, `PlanIsFinished` |

`AloneUnharmed` joins what an interruption must not do while one process runs at a time: the chain links, one transition at most is
lost, and one assignment holds the slot. `Recounts` says that a file's history has a record for entries of its
assignment alone, in the order of the log; the one transition that no file may have is the log's last line.

**Bounds, and why they are enough.**
- `slot`: two assignments and two escalations. A conflict over the slot needs two assignments; one of them
  can be frozen while ACTIVE, replaced, sent back, frozen again (the second escalation) and sent back to a
  different status. Dependencies may point at either, at both, or form a cycle. One person who holds every
  role, since authority is another run's question.
- `authority`: the founder, a lead and a guest that owns nothing; a governed body that demands an
  attestation, a fast one whose work type is gated. Four approvals let every required role speak and one
  more decision be redundant or by the wrong identity; work may be rejected and verified again any
  number of times.
- `pipeline`: three phases, the first with an explicit `next` outside the pipeline, the third with a
  dependency of its own, and one assignment more than phases, so that one can be cancelled and
  reissued. One escalation, of the project or of a phase.
- `store`: seven entries: a whole operation with an append of its own, its loss, and the operations
  that follow on both assignments, up to the second one's turn in the slot.
- `contention`: three entries suffice for both processes to append over the same last entry, save over
  each other, and one of them to go on.
- `lease`: two surfaces, and a time to live of two within five ticks, so that a lease can be renewed before it
  lapses, lapse, be taken over and lapse again; four ids, two for each surface. The surfaces are interchangeable,
  hence the symmetry.
- `takeover`: two leases with one tick to live, so that one can end while a sweep goes on, and two files, one under each. No
  mishaps: the property is about leases, and a changed file has another run.
- `signing`: two files and a cap of one, so that one is deferred; three mishaps, which is a refusal by a seat, an edit (also into
  what does not decode) and a kill, in any combination. The same properties hold with three files, a cap of two and two mishaps. No lease: the transition
  switch is off, and the fence is the other run's.

- `restock`: two reports, so that one can arrive before the one in flight and one can be left behind, both about the one item, so that one
  finds what the other has done; two stamps, so that an assignment can be issued again beside the old one; two contents,
  one of which is a finished report and one does not decode (a report that is read and parked is the finished one whose commit does not verify); two mishaps, for a kill and a change, or two kills.
- `wake`: two files, so that one is older than the other and can come back before it; one wake beside a session (a second wake only adds what the
  lock does not prevent, see `OneHolder` below; the theorems hold for any number); two minutes, so that two claims on one file differ or agree; two mishaps. Any engine: a report or none, and any lines.
- `fleet`: two runners, two pools whose order matters, a cap of two with calls of up to two, two days, one lost record. Two machines, one of
  which signs, two keys and two entries: a whole rotation. The keys have two kinds of behaviour, so that rotation steps in a wrong order and two registries that disagree are not multiplied: `rotation` takes any steps with the registries left alone, `switch` switches them
  during a rotation in its order. (`KeySpec`, which the theorems are about, has both.) Two manifests that ask for everything `Checks` refuses, two sweeps. Three versions of the law, two seats.
  Two classes, one test, two edits. Two commands at a time of three, three places of which two share a name, two ids; a pack of two files, so that part of one can be left. Three commands are a registration and two creations, one after the
  other, killed, or together; that a third creation, alone, mends what two left takes a fourth, and rests on the theorem. No tool reads another's files, so
  that one behaviour of `MCFleet` runs one of them.
- `console`: a phase that is reviewed, by another owner, with a criterion the owner attests, and one that is fast; one assignment more than phases, one escalation, one block, one attestation, one thing wrong with the files at a time (`MaxFaults`), one terminal. Nine
  approvals are more than these can use, so that the bound never stops one. The commands
  that are one call need no terminal, so that they come between the two halves of `next` and `run`.

## Fairness

The specifications of the kernel and of the lease assume no fairness. Every step of theirs is
taken because a person or a script ran a command; nothing in the code schedules one, retries one or
obliges anybody to answer an escalation. A liveness property under weak fairness of, say, `Approve` would
be a statement about people. What can be said without it is said as safety: `VerifiedAwaitsApproval`
(nothing is left waiting that already has what it waits for) and `FrozenRemembersPrior` (a proceed always
has somewhere to go).

`InboxSigner!FairSpec` assumes `WF_vars(Sweeping)`: a sweep that has begun goes on, and when none is in progress one
begins. `Sweeping` is always enabled, and its steps are those of one process that the timer starts again and again
(`OnUnitActiveSec=10min` in `projectos-signer.timer`, `PT2M` in `src/docs/fleet_tasks.json`) and that waits for nothing. Nothing else
is fair: an orchestrator need not issue, and people and seats need not act. Faults are
bounded by `MaxMishaps`, which is the usual reading of "if faults stop": a signer killed in every sweep answers nothing.

Under it, every unstamped assignment is stamped or gets an incident, with one exception that the property names
(`RefusalsFillTheCap`) and that is real: see `DeferredToLaterSweep` below. Nor is anything answered while each sweep ends at a file (`SweepsEnd`): one that does not decode, or a torn lease; see `OneFileHoldsUpItself`.

`SeatWake!FairSpec` assumes `WF_vars(WakeRuns(w))` (a wake is a process that goes on, and the timer starts another), `SF_vars(CheckLock(w))` (a scheduled wake gets to
the lock again and again, and in the end when it is free), `WF_vars(Age(f))` (time passes), `WF_vars(SessionFinishes)` (a session ends with a report) and
`SF_vars(EngineCompletes(w))`: an engine that is started again and again one time reports on what it claimed and moves that. The last two are about what the code cannot see to.
Under it, stamped work is done or held up by a claim on it or on older work. Without the exception it does not hold (`YieldingIsBrief`).

`Console!FollowSpec` assumes that somebody follows the plan for ever (`WF`, over all terminals) and that work which is verified again and again passes one time (`SF` on
`Passes`). It says that the *advice* is good: once the files are left sound, following it finishes the pipeline, or the project comes back for ever to one of four `DeadEnd`s. The plan knows one approver, the owner, and discloses as much
(`required_inputs`, "reviewed/governed modes need a reviewer / founder too", `workspace_plan.py:211-214`): reviewed work is approved as the owner again and again, and work whose criteria wait for an attestation is verified and rejected again and again. It has no next step
for work whose verification was stopped, nor for cancelled or frozen work alone. Each of the four is needed: without it TLC finds a behaviour that goes in that circle. Two that one might expect are not in this instance: a frozen first phase is passed over because its `next` names a second
attempt's template, and no draft is deferred, as these bodies classify.

`Restocker!FairSpec` assumes `WF_vars(Passing)`, for the same reasons: the task `WAKE-CHAT-RESTOCK` of `src/docs/fleet_tasks.json` starts a
wake of the restocker's seat every 20 minutes of its ten hours a day, and a pass is one process that waits for nothing but `git`. Two things are
assumed that this code does not see to: that the wake gets as far as the pass (`wake.ps1` may back off, for a bounded time), and that a fetch ends one way or
the other (`_run_git` sets no timeout; one that is killed is a `Killed` pass). One exception is `Jammed`: a report that was changed after it
was journaled or settled stops every pass at its start, until somebody changes it back ("fails closed", `src/wake-prompt-chat.md:53`).
The other is `Choked`: a report in flight, or a queue, that does not decode ends every pass, which no document says; see `MalformedIsParked`.

## The proofs

`PROJECT.json` lists the theorems. They hold for every number of assignments, escalations, people, processes
and entries, for every pack and manifest that satisfies the named assumptions (`BoundsAssumption`,
`ManifestAssumption`, `PackAssumption`, `NullAssumption` of `Lifecycle`; `StoreAssumption` of `KernelStore`),
which say no more than that constants have their types and null values are not values.

**The single slot** (`LifecycleProofs`). That at most one assignment is in the slot is not inductive together
with the type invariant alone: a step that keeps the statuses right could leave the pointer wrong, and the
statement "the pointer names exactly the occupant" is both what the code's comment claims and what is
inductive. `SlotInv` is the type invariant and `PointerFollowsStatus`. `RowSlot` reads off the table that only
start, resume and proceed may lead into the slot from outside; `MoveKeepsPointer` shows that any transition
keeps the invariant if those three are taken with the slot free; the step has one case per action. INV-1
follows, since a pointer has one value.

**The rest of the lifecycle** (`LifecycleProofs`). Instead of one case per action in every proof, `StepShape`
shows once, action by action, that every step has one of four shapes: no assignment moves (`StillStep`), one moves
by a row of the table with what its event demands checked and written (`RowStep`), verify begins
(`BeginStep`), one is registered (`NewStep`). Each invariant is then one case per shape:
- `EvaluatedIsVerifying`, `FrozenRemembersPrior`, `ReasonsMatchVerdict` are inductive with the type invariant;
  each uses a fact about the rows (what leaves VERIFYING, what leads to ESCALATED, what leaves REJECTED).
- `WorkFollowsDependencies` needs `ClosedStaysClosed`: CLOSED has no row out of it.
- `ClosedWithAuthority` follows from `AuthorityInv`: from VERIFIED on, the attestations of the criteria are on
  record; when CLOSED, all required roles are, by identities authorized for the body it then has.
- `VerifiedAwaitsApproval` follows from `AwaitInv`, which says more: *every* assignment that is not CLOSED lacks an
  approval, because decisions outlive a rejection and the one that completes the set closes at once;
  and no decision is about an assignment that does not exist yet.
- `NoDuplicatePhase` and `NoPhaseSkipped` by `PhaseIssued`: a phase that only the pipeline issues comes from the first place of the pipeline that no assignment, alive or closed, was made
  from; what is alive stays so under its template, or is cancelled. A pipeline may name a template twice: the generator's search stops at the first place, `FirstAt`, and an
  order of phases can only be stated of first places.
- `LifecycleImplementsSlot`: with the pointer agreeing (above), each shape is a step of `WorkSlot` or leaves its
  variables alone; a row splits on whether it enters, leaves, closes or cancels (`SlotStep`).

**The files** (`KernelStoreProofs`). Three invariants, each over what is on disk *and* what processes hold in
memory, because what a process holds is what it will write, however stale:
1. `TypeInv`: types; sequences never exceed their place on the log, so that the bound on the log bounds them
   too (`LogBounds`); a process at work has a plan left (`PlansPending`). `Greatest` and `LastEntryIn` justify the
   choice of the last entry by an argument on a nonempty set of bounded naturals.
2. `CiteInv`: what files and memories cite is on the log. The log only grows (`HashesGrow`), and a
   transition adds the hash of the entry just appended (`RefsGrow`).
3. `PathInv`: histories in files and memories are paths of the table, and an entry about to be appended
   goes on from the assignment in memory. `MovedFollows` is the one step that extends a path.

None of these needs the processes to exclude each other: this is what remains true of the files when
commands overlap, and `SingleActiveFile` below is what does not.

`AloneUnharmed` is about logs without overlap, with a process killed between any two file operations. `AloneAt` says where the one process can be and what the
files are there: between a transition's append and its save, the log is one transition ahead of one file, and everything else
recounts it. A process stopped there leaves a log that no later guard accepts, so the difference never grows to two. The slot is free or its
own because the plan that takes it checks the slot first (`Guarded`), and nobody writes between. `Recounts` compares by place,
not with a filter of the log, since what a filter holds is an induction over the sequence.

`FilesImplementSlot`: with the same invariants, the files of a single user implement `WorkSlot`, the abstract specification that `Lifecycle` implements too (`AloneImplementsSlot`; the occupant is
the assignment whose file has a status of the slot, since the pointer may be stale after a kill). Nothing but `Save` changes a file (`FilesStay`); `SaveIsRow` says that it saves a row of the table from
the status on file, by `PathInv`, and into the slot only when nobody else is in it, by `AloneAt`. So a kill between an append and its save loses a step of the slot, and never leaves half of one.
It is in no run; as a PROPERTY of `MCStore.cfg` without the symmetry TLC finds it to hold in 2.9 million states, and to fail when
`CheckSlot` lets everything pass.

**The lease** (`InboxLeaseProofs`), under `LeaseAssumption` and `NullLeaseAssumption`.
- `AloneSingleIssuer` needs `AloneInv`: without overlap one surface at most is in an operation, and a live lease a
  surface was told of is *on file* under its name, unless that surface is itself writing the next one; in that case
  nobody else acts. Two live leases would then be the same file. `EntersAlone` is the step that begins an operation, where the file
  is either free, lapsed, or its own.
- `LeaseIdNamesIssuer` needs `IdInv`, about every place an id can be (the file, a grant, an operation that
  will write it): an id is in use by one name, and none in use is greater than `issued`. Only `Acquire` brings in an id, a
  new one; every other step passes on what its name has (`IdsKept`). It needs no exclusion.

**The signer** (`InboxSignerProofs`). `StampIsOnWork` by `StampInv`: what a sweep holds between check and stamp is a text the guard let
pass. A rename moves a text, an edit spoils its stamp, the founder's stamp is another one. It holds for any interleaving of
people, seats and sweeps because the sweep writes back what it read.

`AloneTakeoverIsFinal` by `FinalInv`. A sweep looks at the lease and stamps some steps later, when that lease may have ended; so the order of stamps is not
the order of leases at the time of the stamp. What is inductive is an order over three places: no lease that the signer used, or is about to use, comes after
the one on file or the one an operation is about to write (`NotBefore`), and what it is about to stamp is not older than what it has stamped. `FileStep` shows that
the file only moves forward: a renewal passes on the id on file, an acquisition brings in a new one, a file torn by a kill has none and lets nobody write. Only `Stamp`
puts the signer's stamp on a file (`OthersStampNot`, `SweepStamps`).

**The restocker** (`RestockerProofs`), under `RestockAssumption`.
- `JournalCovers` by `JournalInv`: what a pass holds of the journal is what is in the marker; while it handles a report or parks it, that report
  is the one in flight; between two reports the one in flight is still to come; and it issues with none in flight. `Turn` is why the step
  that journals another report cannot forget one.
- `IssuedOnce` by `IssueInv`: an issued item has a file in INBOX or DONE ever after (`FilesStay`: what leaves INBOX arrives in DONE, and nothing leaves
  DONE), and a pass that found none in INBOX still has the one in DONE before it. The order of the two looks is what makes it hold: the other
  way round, a seat could file the assignment between them.

**The wakes** (`SeatWakeProofs`), for any number of wakes, however they overlap and wherever they are killed.
- `WakeTypeCorrect`: `TypeOK` says that a wake past its engine has a claim of its own, which the others rest on. `OldestIsOne` needs that a nonempty set of
  naturals has a least member (`LeastMember`, from the library's well-founded order).
- `DoneHasReport` is an action property: of what a *step* files. By `ReportInv`: a wake that is about to move and whose engine reported has that report in the folder, unless a copy was lost; reports only accumulate (`ReportsGrow`), and only two steps add to DONE (`OnlyReportedMoves`).
  Every other step is `Unmoved`. The exception `BareLine` is a line for an assignment that the engine which wrote it did not report on; that such a line is carried out is the finding `DoneAlwaysReported`.
- `SerialOneReport` by `SerialInv`: one worker at a time; what was reported stays claimed; an engine's staged claims are those of the folder, so that what it claims was
  neither claimed nor reported on. It holds whether or not the gate's second look finds anything; where workers do overlap, `RecheckSeesCollision` shows what is missing.

**The fleet's tools** (`FleetProofs`).
- `DayCapHolds`: runners that asked but have not recorded can push a day over the cap, each by one call. `CapInv` counts: charges are what is recorded and
  what is owed, owed and promised units are disjoint sets of pairs of a runner and a unit (`Column`, `DisjointUnion`, `Slots`, `Counts`), and there are `MaxCost` for each runner.
- `LawIsNewest` by `LawInv`: unless no file is named like the law, one that is is as new as all that was uploaded; an answer is given only when there is one candidate (`OnlyCandidate`), so a newer law is that one, or is named like it and could not be read.
- `EnforcingHolds` by `RegistryInv`: a reader finds what its own checkout was made to declare, nothing, or a half-written file; the last two count as enforcing or are the exception.
- `RotationRefusesNothing` by `RotationInv`: in the runbook's order every machine has the signer's keys, the signer still has those a command under way has loaded, and
  a text that was signed and left alone carries one of them. `SigningKeyHeld`: of the keys of a ring one is listed last, and it is the ring's. `RetireKey` deletes one
  *line*, as the runbook says; `LineDeleted` is what that takes away when keys are listed twice.
- `SweepKeepsDeclarations` by `CopyInv`: what a sweep that was not overtaken holds is what is on file, and observations declare nothing (`ObservationsDeclareNothing`).
- `AllowedIsReviewed` and `ShownIsAudited` by `PlanInv`, with `AllowedPasses`: the first reason that applies is "ALLOW" only if none of the others does.
- `KernelIsWhole` by `KernelsInv`: of a kernel that is not `disturbed`, `KernelSound` says that one command at most works on it, and that what this one has listed and not yet removed or copied is what is there, at each of its steps; whatever the directory held before it began.
  `KernelSteps` and `KernelUntouched` are what each operation changes, of its own kernel and of the others.
- `RegistrationsKept` by `AloneListInv`: what a command that runs alone has read of the list is still so when it replaces it.

- `AloneResolves` by `SoundInv`: with no overlap and no kill the list is *sound* (each name once, each place with a `project.yaml`, no id twice) except for the one place whose `project.yaml` the
  running command is about to write. A discovery registers from what it knows, which is the list, what it found on the way, and nothing that somebody wrote behind it; that
  is why the property has `~clashed`. It assumes that `Workspace.yaml` being absent and being torn are two things (`MarksAreNoLists`).

**The commands and the views** (`ConsoleProofs`).
- `ConsoleDrivesLifecycle`: a command adds guards of its own and may act on what it read earlier, and is still a step of `Lifecycle` or none. `HoldInv` is what it needs of what a
  terminal holds: an act on an assignment. So every theorem of `LifecycleProofs` holds of a project that is driven by its commands, from any number of terminals.
- `PlannedActWorks` needs more than that: `GraphInv`, that whatever is past DRAFT has its dependencies closed and that the graph is acyclic. It is true of the commands and not of the service, which lets a
  caller register any dependencies: here only generation registers (`CommandShape`), it binds what is closed, and no command cancels a draft. `PlanAct` reads off the plan which act it
  offers and what the statuses then are. Unblock, start and resume are shown to work without exception, and so is a generation with something pending or with nothing wrong with the pack and the next template; `GenerationFails` names the reasons that are left, each of them a fact of the files,
  and the finding `PlannedActAlwaysWorks` shows each.
- `NothingForgotten`: `RankIs` and the cases of the plan. Work that the plan passes over without a word is frozen, and `Queue` lists frozen work as blocked.
- `OneVoiceOnIntegrity`: the cases of `Integrity` through each view. `NothingIsNoAct` says that the absence of an act is not one.

They need the assumptions on constants of each module (that bounds are numbers, that null values are not values), and nothing about their size.

**Model-checked only.** Every safety property of every run is proved. Out of the prover's reach are the liveness properties
`StampedIsServed`, `EveryAssignmentAnswered`, `EveryReportSettled`, `EveryIdleSeatRestocked` and `PlanIsFinished`. Not proved either, and in no run: the type invariants of `InboxSigner`
(its sweep sorts a directory, by a library operator that chooses a permutation) and of the modules of which an inductive invariant above states only the part
it needs. There is no recursive operator.

## Findings

`PROJECT.json` quotes for each the sentence of the repository that it contradicts. Where a property states the sentence, adding it to the named
configuration makes TLC show what the code does instead (as an INVARIANT, unless it is marked as a PROPERTY).

| what | property, configuration |
| --- | --- |
| two overlapping starts can both take the slot, with a chain that links, so that nothing notices | `SingleActiveFile`, `StoreContention.cfg` with `MaxLog = 4` |
| a transition is not one unit: a process that ends between the append and the save leaves a project whose every later operation is refused | `OneUnit`, `MCStore.cfg` |
| the pointer can disagree with the files after a stop between `save` and `set_active` | - |
| a founder's rescope cancels the assignment and issues no new draft | `RescopeReissues` (PROPERTY), `MCSlot.cfg` |
| of two escalations of one assignment, resolving either unfreezes it; the other stays open on an ACTIVE assignment | `OpenEscalationFreezes`, `MCSlot.cfg` |
| `resolve` spends the escalation before the slot check can refuse it | - |
| an interrupted `verify` leaves VERIFYING, which only a verdict can leave | - |
| generation goes past a BLOCKED or ESCALATED phase, and the pipeline is no longer sequential | `PhasesSequential`, `MCPipeline.cfg` |
| files the guard refuses stay first in the directory and count against the cap, and can keep everything behind them from ever being looked at | `DeferredToLaterSweep` (PROPERTY), `MCSigner.cfg` |
| a sweep that ends early leaves stamps that no log records | `SignaturesRecorded`, `MCSigner.cfg` |
| the founder's batch stamps what a file has become, not what was listed | `VouchedAsListed` (PROPERTY), `MCSigner.cfg` |
| a kill while the incidents are rewritten loses the unresolved ones | `IncidentsKept` (PROPERTY), `MCSigner.cfg` |
| a holder killed while it writes the lease blocks the inbox beyond any expiry | `BlockedOnlyByExpiry`, `MCLease.cfg` |
| a restocker killed after a move can park the report of an assignment it has moved | `ParkedUntouched`, `MCRestock.cfg` |
| one killed while it writes an assignment leaves an empty one, and its item counts as consumed | `IssuedWhole`, `MCRestock.cfg` |
| it may act on a report that is not the one it journaled | `ActsOnJournaled` (PROPERTY), `MCRestock.cfg` |
| it replaces the founder's queue without the line that somebody appended meanwhile | `QueueOnlyGrows` (PROPERTY), `MCRestock.cfg` |
| the gate's second look judges the oldest assignment, not the one that the wake claims | `RecheckSeesCollision` (PROPERTY), `MCWake.cfg` |
| two wakes that find a stale lock both go on | `OneHolder`, `MCWake.cfg` with `Wake = {w1, w2}` |
| a claim whose wake was killed is yielded to for ever | `YieldingIsBrief` (PROPERTY), `MCWake.cfg` |
| a cost line that is cut off takes the next one with it, and the cap admits more | `CapSurvivesLoss`, `MCFleet.cfg` |
| without balances, a pool at or below its reserve is ruled | `RuledPoolIsRich` (PROPERTY), `MCFleet.cfg` |
| a key that is listed twice keeps its first place, and the last entry does not sign | `LastEntrySigns`, `MCFleet.cfg` with `MaxEntries = 3` |
| a text with two stamps does not verify after it is signed | `SignedVerifies`, `MCFleet.cfg` |
| the status file may show a brake over operations that are allowed | `StatusTellsTheBrake`, `MCFleet.cfg` |
| a sweep may answer NO_MATCH and list classes that were not checked | `NoMatchWasChecked` (PROPERTY), `MCFleet.cfg` |
| it loses what was declared while it ran | `SweepLosesNoEdit` (PROPERTY), `MCFleet.cfg` |
| overlapping registrations can list a name twice, after which every command refuses | `NamesStayUnique`, `MCFleet.cfg` |
| a second project with an id in use is registered, and the workspace no longer resolves | `AddedIdsAreUnique`, `MCFleet.cfg` |
| a kernel that was half-made when its command was killed counts as made | `InitialisedIsWhole`, `MCFleet.cfg` |
| two creations of one kernel at once leave part of a pack, although neither was killed | `TogetherIsWhole`, `MCFleet.cfg` |
| one assignment that does not decode ends every sweep of the signer before it stamps anything | `OneFileHoldsUpItself` (PROPERTY), `MCSigner.cfg` |
| one report that does not decode ends every pass of the restocker, and is never parked | `MalformedIsParked` (PROPERTY), `MCRestock.cfg` |
| a wake files an assignment that its engine did not report on | `DoneAlwaysReported`, `MCWake.cfg` |
| a machine whose checkout was not pulled acts on unstamped work after the switch | `FleetEnforces` (PROPERTY), `MCFleet.cfg` |
| an older law boots while the newest cannot be read | `UnreadLawRefuses` (PROPERTY), `MCFleet.cfg` |
| the plan calls `next` safe to execute, and it refuses: with only cancelled or frozen work, with no pack and none declared, with one that does not load or names what is refused | `PlannedActAlwaysWorks`, `MCConsole.cfg` |
| a stale recommendation is acted on when the guards of its call allow it | `StaleNeverTaken` (PROPERTY), `MCConsole.cfg` |

## Plan

Done: the kernel, the inbox, the restocker, the wakes, the fleet's tools, the workspace registry, and the command line with its views. What is left, in order:

1. *Proofs:* the type invariants that are left; `KernelStore` without overlap and kills as steps of `Lifecycle` (of `WorkSlot` they are).
2. *Composition:* `SeatWake` with `InboxSigner`, in whose place `Sign`, `Refuse` and `Recover` stand now, and with `KeyRing`'s `ShouldAct`.
3. *Kernel, remaining:* creation and escalation files as plans of `KernelStore`.

### Not modelled

- *Classification, routing, the rule engine, evidence:* pure functions whose every outcome `Lifecycle` takes.
- *Manifest and packs:* read-only configuration, constants here.
- *Fleet clock and board, register rendering:* they render state and change nothing that is read back.
- *Project bootstrap and scaffold:* one command makes a repository from templates, and nothing reads it meanwhile.
- *Validation, serialisation, the git adapter:* no state and no protocol.
- *Deployment:* installation, timers and a status file, used here for what they say about scheduling; the Linux wake has no claim gate and no
  staging, and its lock is the three steps `SeatWake` has.
- *Inside the modelled components:* what each section above says is left out, and `PROJECT.json` says by component.
