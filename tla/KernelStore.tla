---- MODULE KernelStore ----
(***************************************************************************)
(* The files under the kernel and the order in which it touches them: the  *)
(* append-only audit log, one file per assignment, and the active pointer. *)
(* Each run of the CLI is a process.  An operation reads the log, then the *)
(* assignment files, and goes on only if they agree (verify_state); it     *)
(* loads its assignment, and from there on every transition is a read of   *)
(* the log's last entry, an append, a write of the whole file from memory  *)
(* and a write of the pointer.  Nothing is locked: a process may be killed *)
(* between any two of these, and another may run between them.             *)
(*                                                                         *)
(* What Lifecycle checks inside one operation (people, dependencies,       *)
(* escalations) is left to Lifecycle: here an operation is a plan, the     *)
(* list of the things it does to the files.  Every assignment has been     *)
(* created before the behaviour starts.                                    *)
(***************************************************************************)
EXTENDS Naturals, Sequences, FiniteSets, StateMachine

CONSTANTS
  Process,   \* runs of the CLI
  Task,      \* the assignments of the project
  MaxLog,    \* bound on the entries of the log
  None       \* no process, no task, no work in hand

ASSUME StoreAssumption == /\ MaxLog \in Nat
                          /\ None \notin Process
                          /\ None \notin Task

VARIABLES
  log,      \* the audit log, in the order its lines were appended
  file,     \* each assignment's file: its status and history
  pointer,  \* the active-assignment pointer file
  stage,    \* how far each process is
  plan,     \* what each process has left to do
  mem,      \* the assignment each process holds in memory
  seen,     \* how much of the log each process has verified or is verifying
  sealed,   \* the entry each process is about to append
  overlap   \* auxiliary: two operations have been in progress at once

vars == <<log, file, pointer, stage, plan, mem, seen, sealed, overlap>>

-----------------------------------------------------------------------------
(* The log.  The timestamp and the actor that an entry's hash covers are   *)
(* its writer here: two writers never produce the same hash.               *)

Hash == (0..MaxLog) \X (Process \union {None})
Genesis == <<0, None>>
HashOf(entry) == <<entry.seq, entry.by>>

\* An approval, a deferral, an escalation's opening: on the chain, in no history.
Bookkeeping == "bookkeeping"

Entry == [seq : 1..MaxLog, by : Process, prev : Hash, task : Task,
          from : Status, to : Status \union {Bookkeeping}]

\* read_all sorts by sequence, keeping the order of the lines among equals: its last
\* entry is the last line of those with the greatest sequence.
LastEntry(entries) ==
  LET greatest == {i \in DOMAIN entries : \A j \in DOMAIN entries : entries[j].seq <= entries[i].seq}
  IN  entries[CHOOSE i \in greatest : \A j \in greatest : j <= i]

\* seal_next
Sealed(p, entries, task, from, to) ==
  LET chained == entries # <<>> IN
  [seq  |-> IF chained THEN LastEntry(entries).seq + 1 ELSE 1,
   prev |-> IF chained THEN HashOf(LastEntry(entries)) ELSE Genesis,
   by |-> p, task |-> task, from |-> from, to |-> to]

Hashes(entries) == {HashOf(entries[i]) : i \in DOMAIN entries}

\* verify_chain, of entries that are in the order of their sequences unless two have
\* the same one, which breaks the chain in any order.
ChainIntact(entries) ==
  \A i \in DOMAIN entries :
    /\ entries[i].seq = i
    /\ entries[i].prev = IF i = 1 THEN Genesis ELSE HashOf(entries[i - 1])

-----------------------------------------------------------------------------
(* The assignment files.                                                   *)

Record == [ref : Hash, from : Status, to : Status]
Work == [task : Task, status : Status, history : Seq(Record)]
NoWork == [task |-> None, status |-> "draft", history |-> <<>>]

Refs(history) == {history[i].ref : i \in DOMAIN history}

\* _verify_status_consistency
StatusConsistent(status, history) ==
  status = IF history = <<>> THEN "draft" ELSE history[Len(history)].to

\* The transitions the log records for a task and its file does not.
Dropped(entries, files) ==
  {entry \in {entries[i] : i \in DOMAIN entries} :
     /\ entry.to # Bookkeeping
     /\ HashOf(entry) \notin Refs(files[entry.task].history)}

\* verify_state
StateVerifies(entries, files) ==
  /\ ChainIntact(entries)
  /\ \A t \in Task : /\ Refs(files[t].history) \subseteq Hashes(entries)
                     /\ StatusConsistent(files[t].status, files[t].history)
  /\ Dropped(entries, files) = {}

\* _prior_status: the from-status of the last record into ESCALATED.
Prior(history) ==
  LET freezes == {i \in DOMAIN history : history[i].to = "escalated"} IN
  IF freezes = {} THEN "none"
  ELSE history[CHOOSE i \in freezes : \A j \in freezes : j <= i].from

InSlot(files) == {t \in Task : files[t].status \in ActiveSlot}

-----------------------------------------------------------------------------
(* Operations as plans.  An event of the table stands for one transition.  *)

Verdict == {"all_criteria_pass", "any_criterion_fail", "verifier_error"}

\* What the operation of an event does after loading its assignment: classify saves the
\* classification first, approve, escalate and resolve append their own entry first and
\* the last two load the assignment again, and reject saves the reasons last.
PlanOf(event) ==
  CASE event = "classify_ok"             -> <<"rewrite", "classify_ok">>
    [] event \in {"start", "resume"}     -> <<"free", event>>
    [] event = "approvals_complete"      -> <<"note", event>>
    [] event = "review_reject"           -> <<event, "rewrite">>
    [] event = "founder_resolve_proceed" -> <<"note", "reload", "free", event>>
    [] event \in {"escalate", "founder_resolve_cancel", "founder_resolve_rescope"}
                                         -> <<"note", "reload", event>>
    [] OTHER                             -> <<event>>

\* The operations that a process may run on an assignment in this status.  verify
\* submits first when the work is still ACTIVE; classify of a deferred draft and every
\* decision that moves nothing only append to the log.
Plans(status) ==
  {PlanOf(row.event) : row \in {r \in Transitions : /\ r.from = status
                                                    /\ r.event \notin Verdict \union {"verify_start"}}}
  \union {<<"note">>}
  \union (IF status = "draft" THEN {<<"rewrite", "note">>} ELSE {})
  \union (IF status = "evidence_submitted"
            THEN {<<"verify_start", v, "rewrite">> : v \in Verdict} ELSE {})
  \union (IF status = "active"
            THEN {<<"submit", "verify_start", v, "rewrite">> : v \in Verdict} ELSE {})

Step == {"note", "reload", "free", "rewrite"} \union {row.event : row \in Transitions}
Working == {"running", "sealed", "appended", "saved"}
Stage == {"idle", "checking", "loading"} \union Working

\* The status an event leads to, from the status and history in memory: an event the
\* table does not list there leads nowhere.
Targets(work, event) ==
  {Target(row, Prior(work.history)) :
     row \in {r \in Transitions : r.from = work.status /\ r.event = event}} \intersect Status

\* The files agree with their types: what a process holds is an assignment it loaded.
TypeOK ==
  /\ log \in Seq(Entry)
  /\ file \in [Task -> [status : Status, history : Seq(Record)]]
  /\ pointer \in Task \union {None}
  /\ stage \in [Process -> Stage]
  /\ plan \in [Process -> Seq(Step)]
  /\ mem \in [Process -> Work \union {NoWork}]
  /\ seen \in [Process -> 0..MaxLog]
  /\ sealed \in [Process -> Entry \union {None}]
  /\ \A p \in Process : /\ stage[p] \in Working => mem[p] \in Work
                        /\ stage[p] = "sealed" => sealed[p] \in Entry
  /\ overlap \in BOOLEAN

Init ==
  /\ log = <<>>
  /\ file = [t \in Task |-> [status |-> "draft", history |-> <<>>]]
  /\ pointer = None
  /\ stage = [p \in Process |-> "idle"]
  /\ plan = [p \in Process |-> <<>>]
  /\ mem = [p \in Process |-> NoWork]
  /\ seen = [p \in Process |-> 0]
  /\ sealed = [p \in Process |-> None]
  /\ overlap = FALSE

-----------------------------------------------------------------------------
\* The process ends, and with it all that it holds in memory.
Quit(p) ==
  /\ stage' = [stage EXCEPT ![p] = "idle"]
  /\ plan' = [plan EXCEPT ![p] = <<>>]
  /\ mem' = [mem EXCEPT ![p] = NoWork]
  /\ seen' = [seen EXCEPT ![p] = 0]
  /\ sealed' = [sealed EXCEPT ![p] = None]

\* On to the next step of the plan with this assignment in memory.
Onward(p, work) ==
  IF Len(plan[p]) = 1 THEN Quit(p)
  ELSE /\ stage' = [stage EXCEPT ![p] = "running"]
       /\ plan' = [plan EXCEPT ![p] = Tail(plan[p])]
       /\ mem' = [mem EXCEPT ![p] = work]
       /\ sealed' = [sealed EXCEPT ![p] = None]
       /\ UNCHANGED seen

AtStep(p, s) == stage[p] = "running" /\ plan[p] # <<>> /\ Head(plan[p]) = s

Loaded(t) == [task |-> t, status |-> file[t].status, history |-> file[t].history]

Stored(work) == [status |-> work.status, history |-> work.history]

\* _guard, first half: audit.read_all().
ReadLog(p) ==
  /\ stage[p] = "idle"
  /\ stage' = [stage EXCEPT ![p] = "checking"]
  /\ seen' = [seen EXCEPT ![p] = Len(log)]
  /\ overlap' = (overlap \/ \E q \in Process \ {p} : stage[q] # "idle")
  /\ UNCHANGED <<log, file, pointer, plan, mem, sealed>>

\* _guard, second half: assignments.list_all(), and verify_state of the two.
VerifyFiles(p) ==
  /\ stage[p] = "checking"
  /\ IF StateVerifies(SubSeq(log, 1, seen[p]), file)
       THEN /\ stage' = [stage EXCEPT ![p] = "loading"]
            /\ UNCHANGED <<plan, mem, seen, sealed>>
       ELSE Quit(p)
  /\ UNCHANGED <<log, file, pointer, overlap>>

\* assignments.get(), and the choice of the operation.
Load(p) ==
  /\ stage[p] = "loading"
  /\ \E t \in Task : \E todo \in Plans(file[t].status) :
       /\ mem' = [mem EXCEPT ![p] = Loaded(t)]
       /\ plan' = [plan EXCEPT ![p] = todo]
  /\ stage' = [stage EXCEPT ![p] = "running"]
  /\ UNCHANGED <<log, file, pointer, seen, sealed, overlap>>

\* _assert_active_slot_free, which a proceed calls only to go back into the slot.
FreeFor(work, event) ==
  \/ InSlot(file) \subseteq {work.task}
  \/ event = "founder_resolve_proceed" /\ Prior(work.history) \notin ActiveSlot

CheckSlot(p) ==
  /\ AtStep(p, "free")
  /\ IF FreeFor(mem[p], plan[p][2]) THEN Onward(p, mem[p]) ELSE Quit(p)
  /\ UNCHANGED <<log, file, pointer, overlap>>

\* escalate and resolve load the assignment again after their own entry; the operation
\* ends there when the event leads nowhere from the status it has now.
Reload(p) ==
  /\ AtStep(p, "reload")
  /\ LET work == Loaded(mem[p].task) IN
     IF Targets(work, plan[p][Len(plan[p])]) # {} THEN Onward(p, work) ELSE Quit(p)
  /\ UNCHANGED <<log, file, pointer, overlap>>

\* The record of the transition that this entry authorises, and the assignment in
\* memory after it.
RecordOf(entry) == [ref |-> HashOf(entry), from |-> entry.from, to |-> entry.to]

Moved(work, entry) ==
  [task |-> work.task, status |-> entry.to, history |-> Append(work.history, RecordOf(entry))]

SealSaving(p) ==  \* mutation: the assignment is saved before its entry is appended
  /\ stage[p] = "running" /\ plan[p] # <<>>
  /\ Len(log) < MaxLog
  /\ \E to \in IF Head(plan[p]) = "note" THEN {Bookkeeping} ELSE Targets(mem[p], Head(plan[p])) :
       LET entry == Sealed(p, log, mem[p].task, mem[p].status, to) IN
       /\ sealed' = [sealed EXCEPT ![p] = entry]
       /\ file' = IF to = Bookkeeping THEN file
                  ELSE [file EXCEPT ![mem[p].task] = Stored(Moved(mem[p], entry))]
  /\ stage' = [stage EXCEPT ![p] = "sealed"]
  /\ UNCHANGED <<log, pointer, plan, mem, seen, overlap>>

SealOnVerified(p) ==  \* mutation: chained to the log as the guard read it
  /\ stage[p] = "running" /\ plan[p] # <<>>
  /\ Len(log) < MaxLog
  /\ \E to \in IF Head(plan[p]) = "note" THEN {Bookkeeping} ELSE Targets(mem[p], Head(plan[p])) :
       sealed' = [sealed EXCEPT ![p] =
                    Sealed(p, SubSeq(log, 1, seen[p]), mem[p].task, mem[p].status, to)]
  /\ stage' = [stage EXCEPT ![p] = "sealed"]
  /\ UNCHANGED <<log, file, pointer, plan, mem, seen, overlap>>

\* The next entry, of a transition or of the operation itself, chained to the last one.
Seal(p) ==
  /\ stage[p] = "running" /\ plan[p] # <<>>
  /\ Len(log) < MaxLog
  /\ \E to \in IF Head(plan[p]) = "note" THEN {Bookkeeping} ELSE Targets(mem[p], Head(plan[p])) :
       sealed' = [sealed EXCEPT ![p] = Sealed(p, log, mem[p].task, mem[p].status, to)]
  /\ stage' = [stage EXCEPT ![p] = "sealed"]
  /\ UNCHANGED <<log, file, pointer, plan, mem, seen, overlap>>

AppendEntry(p) ==
  /\ stage[p] = "sealed"
  /\ Len(log) < MaxLog
  /\ log' = Append(log, sealed[p])
  /\ IF sealed[p].to = Bookkeeping
       THEN Onward(p, mem[p])
       ELSE /\ stage' = [stage EXCEPT ![p] = "appended"]
            /\ mem' = [mem EXCEPT ![p] = Moved(mem[p], sealed[p])]
            /\ sealed' = [sealed EXCEPT ![p] = None]
            /\ UNCHANGED <<plan, seen>>
  /\ UNCHANGED <<file, pointer, overlap>>

SaveMerging(p) ==  \* mutation: the new record goes on top of the history on disk
  /\ stage[p] = "appended"
  /\ file' = [file EXCEPT ![mem[p].task] =
                [status  |-> mem[p].status,
                 history |-> Append(@.history, mem[p].history[Len(mem[p].history)])]]
  /\ stage' = [stage EXCEPT ![p] = "saved"]
  /\ UNCHANGED <<log, pointer, plan, mem, seen, sealed, overlap>>

Save(p) ==
  /\ stage[p] = "appended"
  /\ file' = [file EXCEPT ![mem[p].task] = Stored(mem[p])]
  /\ stage' = [stage EXCEPT ![p] = "saved"]
  /\ UNCHANGED <<log, pointer, plan, mem, seen, sealed, overlap>>

SetPointer(p) ==
  /\ stage[p] = "saved"
  /\ pointer' = IF mem[p].status \in ActiveSlot THEN mem[p].task
                ELSE IF mem[p].history[Len(mem[p].history)].from \in ActiveSlot THEN None
                ELSE pointer
  /\ Onward(p, mem[p])
  /\ UNCHANGED <<log, file, overlap>>

\* The whole file once more: the classification, or the reasons of a verdict.
Rewrite(p) ==
  /\ AtStep(p, "rewrite")
  /\ file' = [file EXCEPT ![mem[p].task] = Stored(mem[p])]
  /\ Onward(p, mem[p])
  /\ UNCHANGED <<log, pointer, overlap>>

\* Killed, refused by a check of Lifecycle, or stopped at the keyboard.
Stop(p) ==
  /\ stage[p] # "idle"
  /\ Quit(p)
  /\ UNCHANGED <<log, file, pointer, overlap>>

Next ==
  \E p \in Process :
    \/ ReadLog(p) \/ VerifyFiles(p) \/ Load(p)
    \/ CheckSlot(p) \/ Reload(p)
    \/ Seal(p) \/ AppendEntry(p) \/ Save(p) \/ SetPointer(p)
    \/ Rewrite(p) \/ Stop(p)

Spec == Init /\ [][Next]_vars

-----------------------------------------------------------------------------
(* Safety, with any number of processes.                                   *)

\* Everything a file cites is on the log, whichever step a process is stopped at: the
\* entry that authorises a transition is appended before the transition is saved.
FilesCiteLog == \A t \in Task : Refs(file[t].history) \subseteq Hashes(log)

\* A record is a row of the table, taken from the status the record before it led to.
Lawful(history, i) ==
  /\ history[i].from = IF i = 1 THEN "draft" ELSE history[i - 1].to
  /\ \E row \in Transitions :
       /\ row.from = history[i].from
       /\ history[i].to = Target(row, Prior(SubSeq(history, 1, i - 1)))

FollowsTheTable(status, history) ==
  /\ StatusConsistent(status, history)
  /\ \A i \in DOMAIN history : Lawful(history, i)

\* A status is always the end of the history it is stored with, and the history is a
\* path of the state machine from DRAFT, also when writers overwrite each other.
FilesFollowTheTable == \A t \in Task : FollowsTheTable(file[t].status, file[t].history)

(* Safety as long as operations have not overlapped.                       *)

\* The chain links, whatever was interrupted: entries of one operation and of the
\* operations after a stopped one follow each other without a gap or a fork.
AloneChainIntact == ~overlap => ChainIntact(log)

\* A history with a record for entries of its task alone, in the order of the log.
Recounts(history, t) ==
  /\ \A i \in DOMAIN history :
       \E k \in DOMAIN log : /\ log[k].task = t /\ log[k].to # Bookkeeping
                            /\ history[i] = RecordOf(log[k])
  /\ \A i, j \in DOMAIN history : i < j => history[i].ref[1] < history[j].ref[1]

\* A stopped operation costs at most its last transition: a file's history is what the
\* log has of its task, record by record, save perhaps one transition, and that one is
\* the last line of the log: nothing is appended over a loss.
AloneLosesOne ==
  ~overlap => /\ \A t \in Task : Recounts(file[t].history, t)
              /\ \A entry \in Dropped(log, file) : entry = log[Len(log)]

\* INV-1 in the files survives stopped operations, although the pointer may be stale.
AloneSingleSlot == ~overlap => Cardinality(InSlot(file)) <= 1

\* Without overlap the files alone, of which the pointer is none, implement the single
\* work slot, also when the process is killed between any two file operations: saves
\* are what moves it, and every save takes, releases, closes or drops as WorkSlot allows.
WithStatus(status) == {t \in Task : file[t].status = status}

Occupant == IF InSlot(file) = {} THEN None ELSE CHOOSE t \in InSlot(file) : TRUE

Slot == INSTANCE WorkSlot WITH
          Nobody <- None,
          holder <- Occupant,
          closed <- WithStatus("closed"),
          dropped <- WithStatus("cancelled")

AloneImplementsSlot ==
  Slot!Init /\ [][~overlap' => [Slot!Next]_(Slot!vars)]_vars

\* What a single user is owed whatever is killed when: a chain that links, one
\* transition lost at most, and one assignment at work.
AloneUnharmed == AloneChainIntact /\ AloneLosesOne /\ AloneSingleSlot

-----------------------------------------------------------------------------
(* What the repository says of this code and the code does not do.         *)

Quiet == \A p \in Process : stage[p] = "idle"

\* _transition "enforces the transition table, writes the audit entry, and persists the
\* assignment as one unit": between operations the log and the files agree.
OneUnit == Quiet => StateVerifies(log, file)

\* "At most one assignment is in an active state at any time" (INV-1), also when two
\* runs of the CLI overlap.
SingleActiveFile == Cardinality(InSlot(file)) <= 1
====
