---- MODULE InboxLease ----
(***************************************************************************)
(* The writer lease of the fleet's INBOX (infrastructure/inbox_lease.py):  *)
(* one JSON file that says which orchestrator may issue assignments and    *)
(* until when.  An orchestrator is a surface, a session that runs the      *)
(* module's operations under a holder's name.  Each operation reads the    *)
(* file, decides, and writes or removes it; nothing is locked, the clock   *)
(* goes on between two steps, and a surface may be gone after any of them. *)
(*                                                                         *)
(* An operation that is refused, or that cannot read the file, changes     *)
(* nothing and is a disabled action.  A write truncates the file first.    *)
(***************************************************************************)
EXTENDS Naturals, FiniteSets

CONSTANTS
  Surface,    \* the sessions that issue
  Name,       \* the names they hold the lease under
  NameOf,     \* the name of each surface
  Ttl,        \* how long a lease lasts
  MaxClock,   \* bound on the clock
  MaxLeases,  \* bound on the lease ids generated
  NoLease,    \* no lease file, no lease granted
  Torn        \* a lease file that does not parse

ASSUME LeaseAssumption ==
  /\ NameOf \in [Surface -> Name]
  /\ Ttl \in Nat
  /\ MaxClock \in Nat
  /\ MaxLeases \in Nat

VARIABLES
  clock,   \* the time
  lease,   \* the lease file
  told,    \* the lease each surface was last granted
  op,      \* the operation each surface is in, with its `now` and its lease id
  issued,  \* how many lease ids have been generated
  overlap  \* auxiliary: two operations have been in progress at once

leaseVars == <<clock, lease, told, op, issued, overlap>>

Lease == [id : 1..MaxLeases, holder : Name, expires : 0..(MaxClock + Ttl)]

ASSUME NullLeaseAssumption == NoLease \notin Lease /\ Torn \notin Lease /\ NoLease # Torn

OpStage == {"idle", "renewing", "granted", "writing", "releasing"}
NoOp == [stage |-> "idle", at |-> 0, id |-> 0]

LeaseTypeOK ==
  /\ clock \in 0..MaxClock
  /\ lease \in Lease \union {NoLease, Torn}
  /\ told \in [Surface -> Lease \union {NoLease}]
  /\ op \in [Surface -> [stage : OpStage, at : 0..MaxClock, id : 0..MaxLeases]]
  /\ issued \in 0..MaxLeases
  /\ overlap \in BOOLEAN

LeaseInit ==
  /\ clock = 0
  /\ lease = NoLease
  /\ told = [s \in Surface |-> NoLease]
  /\ op = [s \in Surface |-> NoOp]
  /\ issued = 0
  /\ overlap = FALSE

-----------------------------------------------------------------------------
\* is_expired
Expired(l, now) == now >= l.expires

\* held_by, of the lease on file.
HeldBy(s, now) == /\ lease \in Lease
                  /\ lease.holder = NameOf[s]
                  /\ ~Expired(lease, now)

FreeToAll(s, now) == lease # Torn  \* mutation: a live lease of another does not refuse

\* acquire grants: the lease is free, expired, or this holder's already.
FreeTo(s, now) ==
  \/ lease = NoLease
  \/ lease \in Lease /\ (Expired(lease, now) \/ lease.holder = NameOf[s])

Enter(s, stage, now, id) ==
  /\ op' = [op EXCEPT ![s] = [stage |-> stage, at |-> now, id |-> id]]
  /\ overlap' = (overlap \/ \E t \in Surface \ {s} : op[t].stage # "idle")

Leave(s) == op' = [op EXCEPT ![s] = NoOp] /\ UNCHANGED overlap

AcquireReusing(s) ==  \* mutation: the id on file is kept, whoever it was given to
  /\ op[s].stage = "idle"
  /\ FreeTo(s, clock)
  /\ issued < MaxLeases
  /\ issued' = issued + 1
  /\ Enter(s, "granted", clock, IF lease = NoLease THEN issued' ELSE lease.id)
  /\ UNCHANGED <<clock, lease, told>>

\* acquire, with a new id.
Acquire(s) ==
  /\ op[s].stage = "idle"
  /\ FreeTo(s, clock)
  /\ issued < MaxLeases
  /\ issued' = issued + 1
  /\ Enter(s, "granted", clock, issued')
  /\ UNCHANGED <<clock, lease, told>>

\* renew: a lease this name holds, with its id.
Renew(s) ==
  /\ op[s].stage = "idle"
  /\ HeldBy(s, clock)
  /\ Enter(s, "renewing", clock, lease.id)
  /\ UNCHANGED <<clock, lease, told, issued>>

\* renew calls acquire, which reads the file again.
RenewAcquires(s) ==
  /\ op[s].stage = "renewing"
  /\ IF FreeTo(s, op[s].at)
       THEN Enter(s, "granted", op[s].at, op[s].id)
       ELSE Leave(s)
  /\ UNCHANGED <<clock, lease, told, issued>>

\* _write: opened for writing, then written.
Truncate(s) ==
  /\ op[s].stage = "granted"
  /\ lease' = Torn
  /\ Enter(s, "writing", op[s].at, op[s].id)
  /\ UNCHANGED <<clock, told, issued>>

Write(s) ==
  /\ op[s].stage = "writing"
  /\ lease' = [id |-> op[s].id, holder |-> NameOf[s], expires |-> op[s].at + Ttl]
  /\ told' = [told EXCEPT ![s] = lease']
  /\ Leave(s)
  /\ UNCHANGED <<clock, issued>>

\* release goes by the name on file, expired or not.
Release(s) ==
  /\ op[s].stage = "idle"
  /\ lease \in Lease
  /\ lease.holder = NameOf[s]
  /\ Enter(s, "releasing", clock, 0)
  /\ UNCHANGED <<clock, lease, told, issued>>

Unlink(s) ==
  /\ op[s].stage = "releasing"
  /\ lease' = NoLease
  /\ told' = [told EXCEPT ![s] = NoLease]
  /\ Leave(s)
  /\ UNCHANGED <<clock, issued>>

\* The session ends, in the middle of an operation or between two.
Vanish(s) ==
  /\ op[s].stage # "idle" \/ told[s] # NoLease
  /\ told' = [told EXCEPT ![s] = NoLease]
  /\ Leave(s)
  /\ UNCHANGED <<clock, lease, issued>>

Tick ==
  /\ clock < MaxClock
  /\ clock' = clock + 1
  /\ UNCHANGED <<lease, told, op, issued, overlap>>

LeaseNext ==
  \/ \E s \in Surface :
       \/ Acquire(s) \/ Renew(s) \/ RenewAcquires(s) \/ Truncate(s) \/ Write(s)
       \/ Release(s) \/ Unlink(s) \/ Vanish(s)
  \/ Tick

LeaseSpec == LeaseInit /\ [][LeaseNext]_leaseVars

-----------------------------------------------------------------------------
(* Safety.                                                                 *)

DistinctNames == \A s, t \in Surface : NameOf[s] = NameOf[t] => s = t

\* What a surface that keeps to its lease goes by.
Holds(s) == told[s] # NoLease /\ clock < told[s].expires

\* "One orchestrator holds a lease on the INBOX": with a name for each surface and
\* operations that do not overlap, no two of them hold a live lease at the same time,
\* whichever of them expires, is renewed late, released or gone in the middle.
AloneSingleIssuer ==
  DistinctNames /\ ~overlap => \A s, t \in Surface : Holds(s) /\ Holds(t) => s = t

\* "A second concurrent orchestrator cannot know the active lease id": no id is ever
\* with two surfaces, and a surface that has the id on file is the one it names, also
\* when operations overlap.
LeaseIdNamesIssuer ==
  DistinctNames =>
    \A s \in Surface :
      told[s] # NoLease =>
        /\ \A t \in Surface \ {s} : told[t] # NoLease => told[s].id # told[t].id
        /\ lease \in Lease /\ lease.id = told[s].id => lease.holder = NameOf[s]

-----------------------------------------------------------------------------
(* What the repository says of this code and the code does not do.         *)

\* "Recovery is by EXPIRY": a holder that dies blocks the INBOX only until its lease
\* runs out, so with nobody in the middle of a write the file can be read.
BlockedOnlyByExpiry ==
  lease = Torn => \E s \in Surface : op[s].stage = "writing"
====
