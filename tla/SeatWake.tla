------------------------------ MODULE SeatWake ------------------------------
(***************************************************************************)
(* One seat taking its assignments: the scheduled wakes of wake.ps1, each  *)
(* of which asks the claim gate (claim_gate.py) before it starts an engine *)
(* and again before it publishes a claim, and an interactive session of    *)
(* the same seat that works on the live folder.                            *)
(*                                                                         *)
(* A file of the INBOX is its place in the name order, a claim file is the *)
(* assignment it names and the minute its name carries.  An engine claims  *)
(* one assignment or none; whether it then also writes a report, and which *)
(* lines it leaves in DONE-MOVES, is chosen freely, each on its own.  The  *)
(* backoff after failures only delays the next wake and is left out, and   *)
(* so are boards, usage lines and logs.                                    *)
(***************************************************************************)
EXTENDS Naturals, FiniteSetsExt

CONSTANTS
  File,        \* assignments tagged for the seat, as their places in name order
  Wake,        \* the seat's scheduled wakes
  Minute,      \* the minutes a claim's name can carry
  MaxMishaps,  \* bound on kills and on copies that fail
  NoFile, NoWake, NoClaim

ASSUME FilesAreOrdered == File \subseteq Nat /\ IsFiniteSet(File) /\ NoFile \notin File
ASSUME MishapsAreBounded == MaxMishaps \in Nat
ASSUME WakesAreNamed == NoWake \notin Wake

VARIABLES
  inbox,       \* names in the live INBOX
  done,        \* names moved to DONE
  stamped,     \* files the signer has stamped
  young,       \* files written less than the grace window ago
  renamed,     \* files a seat renamed REFUSED-...: they sort last
  claims,      \* claim files in the live reports folder
  reports,     \* how many reports on each assignment reached that folder
  lock,        \* the wake the lock file names
  session,     \* the assignment the interactive session works on
  pc, target,  \* where each wake is, and the assignment its gate judged
  seen,        \* the INBOX and the claims it staged, until its engine has looked
  own,         \* the claim its engine wrote
  reported,    \* whether it also wrote a report on the assignment
  lines,       \* the assignments its lines in DONE-MOVES name
  overlapped,  \* history: two of the seat's workers were at work at once
  lostCopy,    \* history: a copy to the live folder failed unseen
  mishaps

folder == <<inbox, done, stamped, young, renamed>>
faults == <<overlapped, lostCopy, mishaps>>
local == <<target, seen, own, reported, lines>>
vars == <<inbox, done, stamped, young, renamed, claims, reports, lock, session,
          pc, target, seen, own, reported, lines, overlapped, lostCopy, mishaps>>

Claim == [file : File, at : Minute]
Gating == {"list", "names", "relist", "renames"}
Holding == Gating \union {"stage", "engine", "publish", "report", "move"}
Place == Holding \union {"idle", "clear", "take"}

TypeOK ==
  /\ inbox \subseteq File /\ done \subseteq File
  /\ stamped \subseteq File /\ young \subseteq File /\ renamed \subseteq File
  /\ claims \subseteq Claim
  /\ reports \in [File -> Nat]
  /\ lock \in Wake \union {NoWake}
  /\ session \in File \union {NoFile}
  /\ pc \in [Wake -> Place]
  /\ target \in [Wake -> File \union {NoFile}]
  /\ seen \in [Wake -> [files : SUBSET File, claims : SUBSET Claim]]
  /\ own \in [Wake -> Claim \union {NoClaim}]
  /\ \A w \in Wake : pc[w] \in {"relist", "renames", "publish", "report", "move"} => own[w] \in Claim
  /\ reported \in [Wake -> BOOLEAN]
  /\ lines \in [Wake -> SUBSET File]
  /\ overlapped \in BOOLEAN /\ lostCopy \in BOOLEAN
  /\ mishaps \in 0 .. MaxMishaps

Nothing == [files |-> {}, claims |-> {}]

Init ==
  /\ inbox = {} /\ done = {} /\ stamped = {} /\ young = {} /\ renamed = {}
  /\ claims = {} /\ reports = [f \in File |-> 0]
  /\ lock = NoWake /\ session = NoFile
  /\ pc = [w \in Wake |-> "idle"]
  /\ target = [w \in Wake |-> NoFile]
  /\ seen = [w \in Wake |-> Nothing]
  /\ own = [w \in Wake |-> NoClaim]
  /\ reported = [w \in Wake |-> FALSE]
  /\ lines = [w \in Wake |-> {}]
  /\ overlapped = FALSE /\ lostCopy = FALSE /\ mishaps = 0

\* The first name in order: a prefix that is not a digit sorts after the dates.
Oldest(files) ==
  IF files \ renamed # {} THEN Min(files \ renamed) ELSE Min(files)

\* Mutant of ClaimsOn: the gate looks for a suffix that no claim file has.
ClaimsOnNone(f, names) == {c \in names : c.file = f /\ f \notin File}

ClaimsOn(f, names) == {c \in names : c.file = f}

-----------------------------------------------------------------------------
(* What happens to the folder from outside: issuers, signer, time, seats.   *)

Issue(f) ==
  /\ f \notin inbox \union done
  /\ inbox' = inbox \union {f}
  /\ young' = young \union {f}
  /\ UNCHANGED <<done, stamped, renamed, claims, reports, lock, session, pc, local, faults>>

Sign(f) ==
  /\ f \in inbox \ (stamped \union renamed)
  /\ stamped' = stamped \union {f}
  /\ UNCHANGED <<inbox, done, young, renamed, claims, reports, lock, session, pc, local, faults>>

Age(f) ==
  /\ f \in young
  /\ young' = young \ {f}
  /\ UNCHANGED <<inbox, done, stamped, renamed, claims, reports, lock, session, pc, local, faults>>

Refuse(f) ==
  /\ f \in inbox \ (stamped \union young \union renamed)
  /\ renamed' = renamed \union {f}
  /\ UNCHANGED <<inbox, done, stamped, young, claims, reports, lock, session, pc, local, faults>>

Recover(f) ==
  /\ f \in renamed
  /\ renamed' = renamed \ {f}
  /\ UNCHANGED <<inbox, done, stamped, young, claims, reports, lock, session, pc, local, faults>>

Busy(w) == pc[w] \in Holding

SessionClaims(at) ==
  /\ session = NoFile
  /\ inbox \intersect stamped # {}
  /\ LET f == Oldest(inbox \intersect stamped) IN
       /\ ClaimsOn(f, claims) = {}
       /\ session' = f
       /\ claims' = claims \union {[file |-> f, at |-> at]}
  /\ overlapped' = (overlapped \/ \E w \in Wake : Busy(w))
  /\ UNCHANGED <<folder, reports, lock, pc, local, lostCopy, mishaps>>

SessionFinishes ==
  /\ session # NoFile
  /\ reports' = [reports EXCEPT ![session] = @ + 1]
  /\ inbox' = inbox \ {session}
  /\ done' = done \union {session}
  /\ session' = NoFile
  /\ UNCHANGED <<stamped, young, renamed, claims, lock, pc, local, faults>>

-----------------------------------------------------------------------------
(* The seat lock: looked at, cleared when stale and written in three steps. *)

OwnerIsLive == lock # NoWake /\ Busy(lock)

CheckLock(w) ==
  /\ pc[w] = "idle"
  /\ ~OwnerIsLive
  /\ pc' = [pc EXCEPT ![w] = IF lock = NoWake THEN "take" ELSE "clear"]
  /\ UNCHANGED <<folder, claims, reports, lock, session, local, faults>>

ClearLock(w) ==
  /\ pc[w] = "clear"
  /\ lock' = NoWake
  /\ pc' = [pc EXCEPT ![w] = "take"]
  /\ UNCHANGED <<folder, claims, reports, session, local, faults>>

TakeLock(w) ==
  /\ pc[w] = "take"
  /\ lock' = w
  /\ pc' = [pc EXCEPT ![w] = "list"]
  /\ overlapped' = (overlapped \/ session # NoFile \/ \E v \in Wake : Busy(v))
  /\ UNCHANGED <<folder, claims, reports, session, local, lostCopy, mishaps>>

\* Exit-Wake: the lock is removed only when it names this process.
Released(w) == IF lock = w THEN NoWake ELSE lock
Reset(w) ==
  /\ target' = [target EXCEPT ![w] = NoFile]
  /\ seen' = [seen EXCEPT ![w] = Nothing]
  /\ own' = [own EXCEPT ![w] = NoClaim]
  /\ reported' = [reported EXCEPT ![w] = FALSE]
  /\ lines' = [lines EXCEPT ![w] = {}]
  /\ pc' = [pc EXCEPT ![w] = "idle"]
Exit(w) == lock' = Released(w) /\ Reset(w)

-----------------------------------------------------------------------------
(* The claim gate: the INBOX is listed, then the names of the live folder.  *)

\* Mutant of MustWait: an unsigned file is waited for without a grace window.
MustWaitUnsigned(f) == f \notin stamped

MustWait(f) == f \notin stamped /\ f \in young

ListInbox(w) ==
  /\ pc[w] \in {"list", "relist"}
  /\ \/ /\ inbox # {}
        /\ ~MustWait(Oldest(inbox))
        /\ target' = [target EXCEPT ![w] = Oldest(inbox)]
        /\ pc' = [pc EXCEPT ![w] = IF @ = "list" THEN "names" ELSE "renames"]
        /\ UNCHANGED <<lock, seen, own, reported, lines>>
     \/ inbox = {} /\ Exit(w)
     \/ inbox # {} /\ MustWait(Oldest(inbox)) /\ Exit(w)
  /\ UNCHANGED <<folder, claims, reports, session, faults>>

\* The claims that count: at publish time the wake's own name is ignored.
Others(w) == ClaimsOn(target[w], claims) \ (IF pc[w] = "renames" THEN {own[w]} ELSE {})

ReadNames(w) ==
  /\ pc[w] \in {"names", "renames"}
  /\ IF Others(w) # {}
     THEN Exit(w)
     ELSE /\ pc' = [pc EXCEPT ![w] = IF @ = "names" THEN "stage" ELSE "publish"]
          /\ target' = [target EXCEPT ![w] = NoFile]
          /\ UNCHANGED <<lock, seen, own, reported, lines>>
  /\ UNCHANGED <<folder, claims, reports, session, faults>>

\* The live folder cannot be read: the wake takes no work.
Unavailable(w) ==
  /\ pc[w] \in Gating
  /\ mishaps < MaxMishaps
  /\ mishaps' = mishaps + 1
  /\ Exit(w)
  /\ UNCHANGED <<folder, claims, reports, session, overlapped, lostCopy>>

-----------------------------------------------------------------------------
(* The work: staged, done by the engine on the staged copy, and published.  *)

StageIn(w) ==
  /\ pc[w] = "stage"
  /\ seen' = [seen EXCEPT ![w] = [files |-> inbox \intersect stamped, claims |-> claims]]
  /\ pc' = [pc EXCEPT ![w] = "engine"]
  /\ UNCHANGED <<folder, claims, reports, lock, session, target, own, reported, lines, faults>>

Unclaimed(w) == {f \in seen[w].files : ClaimsOn(f, seen[w].claims) = {}}

\* The engine claims the oldest staged assignment that no staged name claims.
\* Nothing asks that it reports on what its DONE lines name, or moves what it
\* reported on.
EngineClaims(w, at, reporting, moves) ==
  /\ pc[w] = "engine"
  /\ Unclaimed(w) # {}
  /\ moves \subseteq seen[w].files
  /\ own' = [own EXCEPT ![w] = [file |-> Oldest(Unclaimed(w)), at |-> at]]
  /\ reported' = [reported EXCEPT ![w] = reporting]
  /\ lines' = [lines EXCEPT ![w] = moves]
  /\ pc' = [pc EXCEPT ![w] = "relist"]
  /\ seen' = [seen EXCEPT ![w] = Nothing]
  /\ UNCHANGED <<folder, claims, reports, lock, session, target, faults>>

EngineIdles(w) ==
  /\ pc[w] = "engine"
  /\ Exit(w)
  /\ UNCHANGED <<folder, claims, reports, session, faults>>

\* Copy-Item goes on when it fails, and nothing later asks whether it did.  (A
\* Move-Item that fails leaves what a kill before the move leaves.)
Copies(w, copied) ==
  \/ copied /\ UNCHANGED faults
  \/ /\ ~copied
     /\ mishaps < MaxMishaps
     /\ mishaps' = mishaps + 1
     /\ lostCopy' = TRUE
     /\ UNCHANGED overlapped

\* Mutant of PublishClaim: the DONE moves are applied before the report is copied.
PublishClaimMoving(w, copied) ==
  /\ pc[w] = "publish"
  /\ Copies(w, copied)
  /\ claims' = IF copied THEN claims \union {own[w]} ELSE claims
  /\ pc' = [pc EXCEPT ![w] = "move"]
  /\ UNCHANGED <<folder, reports, lock, session, local>>

\* The files are copied in the order of their names: the claim, which carries
\* the minute the work began, before the report of a later minute.
PublishClaim(w, copied) ==
  /\ pc[w] = "publish"
  /\ Copies(w, copied)
  /\ claims' = IF copied THEN claims \union {own[w]} ELSE claims
  /\ pc' = [pc EXCEPT ![w] = IF reported[w] THEN "report" ELSE "move"]
  /\ UNCHANGED <<folder, reports, lock, session, local>>

PublishReport(w, copied) ==
  /\ pc[w] = "report"
  /\ Copies(w, copied)
  /\ reports' = IF copied THEN [reports EXCEPT ![own[w].file] = @ + 1] ELSE reports
  /\ pc' = [pc EXCEPT ![w] = "move"]
  /\ UNCHANGED <<folder, claims, lock, session, local>>

\* Every line that names a file of the live INBOX is carried out, whether or
\* not the engine wrote a report.
MoveDone(w) ==
  /\ pc[w] = "move"
  /\ LET moved == lines[w] \intersect inbox IN
       /\ inbox' = inbox \ moved
       /\ done' = done \union moved
  /\ Exit(w)
  /\ UNCHANGED <<stamped, young, renamed, claims, reports, session, faults>>

\* A wake that is killed leaves its lock file behind.
Kill(w) ==
  /\ pc[w] # "idle"
  /\ mishaps < MaxMishaps
  /\ mishaps' = mishaps + 1
  /\ Reset(w)
  /\ UNCHANGED <<folder, claims, reports, lock, session, overlapped, lostCopy>>

-----------------------------------------------------------------------------
FolderStep == \E f \in File : Issue(f) \/ Sign(f) \/ Age(f) \/ Refuse(f) \/ Recover(f)

SessionStep == (\E at \in Minute : SessionClaims(at)) \/ SessionFinishes

LockStep(w) == CheckLock(w) \/ ClearLock(w) \/ TakeLock(w)

Publishes(w) == \E copied \in BOOLEAN : PublishClaim(w, copied) \/ PublishReport(w, copied)

Engine(w) ==
  \/ EngineIdles(w)
  \/ \E at \in Minute, reporting \in BOOLEAN, moves \in SUBSET File : EngineClaims(w, at, reporting, moves)

\* An engine that does all of its work: it reports and moves what it claimed.
EngineCompletes(w) ==
  LET f == Oldest(Unclaimed(w)) IN \E at \in Minute : EngineClaims(w, at, TRUE, {f})

WakeRuns(w) ==
  LockStep(w) \/ ListInbox(w) \/ ReadNames(w) \/ StageIn(w) \/ Engine(w) \/ Publishes(w) \/ MoveDone(w)

Next ==
  \/ FolderStep
  \/ SessionStep
  \/ \E w \in Wake : WakeRuns(w) \/ Unavailable(w) \/ Kill(w)

Spec == Init /\ [][Next]_vars

\* A started wake runs on, wakes are scheduled again and again, the signer comes
\* every minute, grace windows end, and an engine that is started again and
\* again finishes its work one time.
Fairness ==
  /\ \A w \in Wake : WF_vars(WakeRuns(w))
  /\ \A w \in Wake : SF_vars(EngineCompletes(w))
  /\ \A w \in Wake : SF_vars(CheckLock(w))
  /\ \A f \in File : WF_vars(Age(f))
  /\ WF_vars(SessionFinishes)

FairSpec == Spec /\ Fairness

-----------------------------------------------------------------------------
(* Properties.                                                              *)

\* When the seat's workers never overlap and every claim reaches the live
\* folder, one assignment is worked on and reported once: a wake killed before
\* its DONE move has left a claim, and the gate of every later wake yields to it.
SerialOneReport ==
  ~overlapped /\ ~lostCopy => \A f \in File : reports[f] <= 1

\* What a step moves to DONE has its report on the live folder, unless a copy
\* failed without notice or the line it carries out was written by an engine
\* that did not report on it: no kill, no collision at the second gate and no
\* other worker of the seat leaves an assignment done with nothing to show.
Reporting(w, f) == reported[w] /\ own[w].file = f
BareLine(f) == \E w \in Wake : pc[w] = "move" /\ f \in lines[w] /\ ~Reporting(w, f)
DoneHasReport ==
  [][~lostCopy => \A f \in done' \ done : reports'[f] > 0 \/ BareLine(f)]_vars

\* Older than f or f itself in the order in which the gate takes assignments.
NotAfter(g, f) == Oldest({f, g}) = g

\* A stamped assignment is finished, or the gate is held up by a live claim on
\* it or on one before it.  Nothing else keeps a seat from its work for ever.
HeldUp(f) == \E g \in inbox : NotAfter(g, f) /\ ClaimsOn(g, claims) # {}
StampedIsServed ==
  \A f \in File : f \in inbox \intersect stamped ~> f \in done \/ HeldUp(f)

\* What the comment at the second gate promises of a claim that another worker
\* published while this wake's engine ran.  The gate judges the assignment that
\* is oldest now, so the code does not keep it.
RecheckSeesCollision ==
  [][\A w \in Wake :
       pc[w] = "renames" /\ pc'[w] = "publish"
         => ClaimsOn(own[w].file, claims) \subseteq {own[w]}]_vars

\* What the comment at the copying promises: no move is applied before its
\* report landed.  The lines are carried out without a look at the reports, so a
\* line an engine wrote for an assignment it did not report on breaks it.
DoneAlwaysReported == ~lostCopy => \A f \in done : reports[f] > 0

\* The seat lock admits one wake at a time.  Cleared and written in separate
\* steps, it does not.
OneHolder == \A v, w \in Wake : Busy(v) /\ Busy(w) => v = w

\* A claim costs a yielding wake one idle cycle, so the assignment is finished
\* in the end.  A claim without its DONE move is yielded to for ever.
YieldingIsBrief == \A f \in File : f \in inbox \intersect stamped ~> f \in done
=============================================================================
