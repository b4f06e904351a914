---- MODULE InboxLeaseProofs ----
(***************************************************************************)
(* Theorems about InboxLease, for any number of surfaces, any length of    *)
(* lease and any clock.                                                    *)
(***************************************************************************)
EXTENDS InboxLease, TLAPS

\* The stages of an operation that will write a lease.
Granting == {"renewing", "granted", "writing"}

\* The type invariant, with what it needs of an operation that will write: its id.
LeaseTypeInv ==
  /\ LeaseTypeOK
  /\ \A s \in Surface : op[s].stage \in Granting => op[s].id \in 1..MaxLeases

\* Being in no operation is well typed.
LEMMA NoOpType ==
  /\ NoOp \in [stage : OpStage, at : 0..MaxClock, id : 0..MaxLeases]
  /\ NoOp.stage \notin Granting
BY LeaseAssumption DEF NoOp, OpStage, Granting

\* At the start everything has its type.
LEMMA LeaseTypeInit == LeaseInit => LeaseTypeInv
<1> SUFFICES ASSUME LeaseInit PROVE LeaseTypeInv
  OBVIOUS
<1>1. \A s \in Surface : op[s] = NoOp
  BY DEF LeaseInit
<1>2. op \in [Surface -> [stage : OpStage, at : 0..MaxClock, id : 0..MaxLeases]]
  BY NoOpType DEF LeaseInit
<1>3. 0 \in 0..MaxClock /\ 0 \in 0..MaxLeases
  BY LeaseAssumption
<1> QED
  BY <1>1, <1>2, <1>3, NoOpType DEF LeaseInit, LeaseTypeInv, LeaseTypeOK

\* What a surface enters an operation with is well typed.
LEMMA EnterTypes ==
  ASSUME LeaseTypeInv, NEW s \in Surface, NEW stage \in OpStage, NEW now \in 0..MaxClock,
         NEW id \in 0..MaxLeases, stage \in Granting => id \in 1..MaxLeases,
         Enter(s, stage, now, id)
  PROVE  /\ op' \in [Surface -> [stage : OpStage, at : 0..MaxClock, id : 0..MaxLeases]]
         /\ overlap' \in BOOLEAN
         /\ \A t \in Surface : op'[t].stage \in Granting => op'[t].id \in 1..MaxLeases
BY DEF LeaseTypeInv, LeaseTypeOK, Enter

\* What it leaves behind is no operation.
LEMMA LeaveTypes ==
  ASSUME LeaseTypeInv, NEW s \in Surface, Leave(s)
  PROVE  /\ op' \in [Surface -> [stage : OpStage, at : 0..MaxClock, id : 0..MaxLeases]]
         /\ overlap' \in BOOLEAN
         /\ \A t \in Surface : op'[t].stage \in Granting => op'[t].id \in 1..MaxLeases
BY NoOpType DEF LeaseTypeInv, LeaseTypeOK, Leave

\* Every step keeps the types.
LEMMA LeaseTypeStep == ASSUME LeaseTypeInv, [LeaseNext]_leaseVars PROVE LeaseTypeInv'
<1> USE LeaseAssumption
<1>1. ASSUME NEW s \in Surface, Acquire(s) PROVE LeaseTypeInv'
  <2>1. issued' \in 1..MaxLeases /\ clock \in 0..MaxClock
    BY <1>1 DEF Acquire, LeaseTypeInv, LeaseTypeOK
  <2> QED
    BY <1>1, <2>1, EnterTypes DEF Acquire, LeaseTypeInv, LeaseTypeOK, OpStage
<1>2. ASSUME NEW s \in Surface, Renew(s) PROVE LeaseTypeInv'
  <2>1. lease.id \in 1..MaxLeases /\ clock \in 0..MaxClock
    BY <1>2 DEF Renew, HeldBy, Lease, LeaseTypeInv, LeaseTypeOK
  <2> QED
    BY <1>2, <2>1, EnterTypes DEF Renew, LeaseTypeInv, LeaseTypeOK, OpStage
<1>3. ASSUME NEW s \in Surface, RenewAcquires(s) PROVE LeaseTypeInv'
  <2>1. op[s].at \in 0..MaxClock /\ op[s].id \in 1..MaxLeases
    BY <1>3 DEF RenewAcquires, Granting, LeaseTypeInv, LeaseTypeOK
  <2> QED
    BY <1>3, <2>1, EnterTypes, LeaveTypes DEF RenewAcquires, LeaseTypeInv, LeaseTypeOK, OpStage
<1>4. ASSUME NEW s \in Surface, Truncate(s) PROVE LeaseTypeInv'
  <2>1. op[s].at \in 0..MaxClock /\ op[s].id \in 1..MaxLeases
    BY <1>4 DEF Truncate, Granting, LeaseTypeInv, LeaseTypeOK
  <2> QED
    BY <1>4, <2>1, EnterTypes DEF Truncate, LeaseTypeInv, LeaseTypeOK, OpStage
<1>5. ASSUME NEW s \in Surface, Write(s) PROVE LeaseTypeInv'
  <2>1. op[s].at \in 0..MaxClock /\ op[s].id \in 1..MaxLeases
    BY <1>5 DEF Write, Granting, LeaseTypeInv, LeaseTypeOK
  <2>2. lease' \in Lease
    BY <1>5, <2>1 DEF Write, Lease
  <2> QED
    BY <1>5, <2>2, LeaveTypes DEF Write, LeaseTypeInv, LeaseTypeOK
<1>6. ASSUME NEW s \in Surface, Release(s) PROVE LeaseTypeInv'
  <2>1. clock \in 0..MaxClock /\ 0 \in 0..MaxLeases /\ "releasing" \notin Granting
    BY DEF LeaseTypeInv, LeaseTypeOK, Granting
  <2> QED
    BY <1>6, <2>1, EnterTypes DEF Release, LeaseTypeInv, LeaseTypeOK, OpStage
<1>7. ASSUME NEW s \in Surface, Unlink(s) \/ Vanish(s) PROVE LeaseTypeInv'
  BY <1>7, LeaveTypes DEF Unlink, Vanish, LeaseTypeInv, LeaseTypeOK
<1>8. ASSUME Tick \/ UNCHANGED leaseVars PROVE LeaseTypeInv'
  BY <1>8 DEF Tick, leaseVars, LeaseTypeInv, LeaseTypeOK
<1> QED
  BY <1>1, <1>2, <1>3, <1>4, <1>5, <1>6, <1>7, <1>8 DEF LeaseNext

\* The lease file, what surfaces were told and what they are about to write keep their
\* types: no operation writes a lease without an id.
THEOREM LeaseTypeCorrect == LeaseSpec => []LeaseTypeOK
<1>1. LeaseTypeInv => LeaseTypeOK
  BY DEF LeaseTypeInv
<1> QED
  BY <1>1, LeaseTypeInit, LeaseTypeStep, PTL DEF LeaseSpec

-----------------------------------------------------------------------------
(* One issuer at a time, while operations do not overlap.                  *)

AloneInv ==
  /\ LeaseTypeInv
  /\ ~overlap => \A s, t \in Surface :
       op[s].stage # "idle" /\ op[t].stage # "idle" => s = t
  /\ \A s \in Surface : told[s] # NoLease => told[s].holder = NameOf[s]
  \* A live lease is on file, unless its surface is writing the next one ...
  /\ ~overlap => \A s \in Surface : Holds(s) =>
       lease = told[s] \/ (lease = Torn /\ op[s].stage = "writing")
  \* ... and nobody else is doing anything about the file.
  /\ ~overlap => \A s, t \in Surface :
       Holds(s) /\ op[t].stage # "idle" => s = t

\* With names of their own, no surface but its holder gets into an operation while a
\* lease is live.
LEMMA EntersAlone ==
  ASSUME AloneInv, DistinctNames, NEW t \in Surface, NEW stage, NEW now, NEW id,
         Enter(t, stage, now, id), op[t].stage = "idle", UNCHANGED <<clock, lease, told>>,
         FreeTo(t, clock) \/ (lease \in Lease /\ lease.holder = NameOf[t]),
         LeaseTypeInv'
  PROVE  AloneInv'
<1>1. CASE overlap'
  BY <1>1 DEF AloneInv
<1>2. CASE ~overlap'
  <2>1. ~overlap /\ \A s \in Surface \ {t} : op[s].stage = "idle" /\ op'[s] = op[s]
    BY <1>2 DEF Enter, AloneInv, LeaseTypeInv, LeaseTypeOK
  <2>2. ASSUME NEW s \in Surface, Holds(s) PROVE s = t /\ lease = told[s]
    <3>1. lease = told[s] /\ told[s] \in Lease /\ told[s].holder = NameOf[s]
      BY <2>1, <2>2 DEF AloneInv, Holds, LeaseTypeInv, LeaseTypeOK
    <3>2. ~Expired(lease, clock)
      BY <2>2, <3>1, LeaseAssumption DEF Holds, Expired, Lease, LeaseTypeInv, LeaseTypeOK, AloneInv
    <3>3. NameOf[s] = NameOf[t]
      BY <3>1, <3>2, NullLeaseAssumption DEF FreeTo
    <3> QED
      BY <3>1, <3>3 DEF DistinctNames
  <2>3. \A s \in Surface : Holds(s)' <=> Holds(s)
    BY DEF Holds
  <2> QED
    BY <2>1, <2>2, <2>3 DEF AloneInv
<1> QED
  BY <1>1, <1>2

\* Every step keeps the holder alone.
LEMMA AloneStep ==
  ASSUME AloneInv, DistinctNames, [LeaseNext]_leaseVars PROVE AloneInv'
<1>0. LeaseTypeInv'
  BY LeaseTypeStep DEF AloneInv
<1>1. ASSUME NEW t \in Surface, Acquire(t) PROVE AloneInv'
  BY <1>0, <1>1, EntersAlone DEF Acquire
<1>2. ASSUME NEW t \in Surface, Renew(t) PROVE AloneInv'
  BY <1>0, <1>2, EntersAlone DEF Renew, HeldBy
<1>3. ASSUME NEW t \in Surface, Release(t) PROVE AloneInv'
  BY <1>0, <1>3, EntersAlone DEF Release
<1>4. ASSUME NEW t \in Surface, RenewAcquires(t) PROVE AloneInv'
  <2>1. /\ UNCHANGED <<clock, lease, told>>
        /\ op[t].stage = "renewing"
        /\ \A s \in Surface \ {t} : op'[s] = op[s]
        /\ op'[t].stage \in {"idle", "granted"}
        /\ ~overlap' => ~overlap
    BY <1>4 DEF RenewAcquires, Enter, Leave, NoOp, AloneInv, LeaseTypeInv, LeaseTypeOK
  <2> QED
    BY <1>0, <2>1 DEF AloneInv, Holds
<1>5. ASSUME NEW t \in Surface, Truncate(t) PROVE AloneInv'
  <2>1. /\ UNCHANGED <<clock, told>>
        /\ lease' = Torn
        /\ op[t].stage = "granted"
        /\ \A s \in Surface \ {t} : op'[s] = op[s]
        /\ op'[t].stage = "writing"
        /\ ~overlap' => ~overlap
    BY <1>5 DEF Truncate, Enter, AloneInv, LeaseTypeInv, LeaseTypeOK
  <2> QED
    BY <1>0, <2>1 DEF AloneInv, Holds
<1>6. ASSUME NEW t \in Surface, Write(t) PROVE AloneInv'
  <2>1. /\ clock' = clock
        /\ told'[t] = lease' /\ lease'.holder = NameOf[t]
        /\ op[t].stage = "writing"
        /\ \A s \in Surface \ {t} : op'[s] = op[s] /\ told'[s] = told[s]
        /\ op'[t].stage = "idle"
        /\ overlap' = overlap
    BY <1>6 DEF Write, Leave, NoOp, AloneInv, LeaseTypeInv, LeaseTypeOK
  <2>2. \A s \in Surface : ~overlap /\ Holds(s)' => s = t
    BY <2>1 DEF AloneInv, Holds
  <2> QED
    BY <1>0, <2>1, <2>2 DEF AloneInv
<1>7. ASSUME NEW t \in Surface, Unlink(t) PROVE AloneInv'
  <2>1. /\ clock' = clock
        /\ told'[t] = NoLease
        /\ op[t].stage = "releasing"
        /\ \A s \in Surface \ {t} : op'[s] = op[s] /\ told'[s] = told[s]
        /\ op'[t].stage = "idle"
        /\ overlap' = overlap
    BY <1>7 DEF Unlink, Leave, NoOp, AloneInv, LeaseTypeInv, LeaseTypeOK
  <2>2. \A s \in Surface : ~overlap => ~Holds(s)'
    BY <2>1 DEF AloneInv, Holds
  <2> QED
    BY <1>0, <2>1, <2>2 DEF AloneInv
<1>8. ASSUME NEW t \in Surface, Vanish(t) PROVE AloneInv'
  <2>1. /\ UNCHANGED <<clock, lease>>
        /\ told'[t] = NoLease
        /\ \A s \in Surface \ {t} : op'[s] = op[s] /\ told'[s] = told[s]
        /\ op'[t].stage = "idle"
        /\ overlap' = overlap
    BY <1>8 DEF Vanish, Leave, NoOp, AloneInv, LeaseTypeInv, LeaseTypeOK
  <2>2. \A s \in Surface : Holds(s)' => s # t /\ Holds(s)
    BY <2>1 DEF Holds
  <2> QED
    BY <1>0, <2>1, <2>2 DEF AloneInv
<1>9. ASSUME Tick \/ UNCHANGED leaseVars PROVE AloneInv'
  <2>1. /\ UNCHANGED <<lease, told, op, overlap>>
        /\ clock \in Nat /\ clock' \in Nat /\ clock' >= clock
    BY <1>9, LeaseAssumption DEF Tick, leaseVars, AloneInv, LeaseTypeInv, LeaseTypeOK
  <2>2. \A s \in Surface : Holds(s)' => Holds(s)
    <3>1. \A s \in Surface : told[s] # NoLease => told[s].expires \in Nat
      BY LeaseAssumption DEF AloneInv, LeaseTypeInv, LeaseTypeOK, Lease
    <3> QED
      BY <2>1, <3>1 DEF Holds
  <2> QED
    BY <1>0, <2>1, <2>2 DEF AloneInv
<1> QED
  BY <1>1, <1>2, <1>3, <1>4, <1>5, <1>6, <1>7, <1>8, <1>9 DEF LeaseNext

\* Live leases of two surfaces would be the same file.
LEMMA AloneMeansOne == ASSUME AloneInv PROVE AloneSingleIssuer
<1> SUFFICES ASSUME DistinctNames, ~overlap, NEW s \in Surface, NEW t \in Surface,
                    Holds(s), Holds(t)
             PROVE  s = t
  BY DEF AloneSingleIssuer
<1>1. told[s] \in Lease /\ told[t] \in Lease
  BY DEF Holds, AloneInv, LeaseTypeInv, LeaseTypeOK
<1>2. CASE lease = told[s]
  BY <1>1, <1>2, NullLeaseAssumption DEF AloneInv, DistinctNames
<1>3. CASE lease = Torn /\ op[s].stage = "writing"
  BY <1>3 DEF AloneInv
<1> QED
  BY <1>2, <1>3 DEF AloneInv

\* One orchestrator holds the lease: while operations do not overlap, and however long
\* each of them takes, no two surfaces with names of their own have a live lease.
THEOREM SingleIssuer == LeaseSpec => []AloneSingleIssuer
<1>1. LeaseInit => AloneInv
  BY LeaseTypeInit DEF LeaseInit, AloneInv, NoOp, Holds
<1>2. CASE DistinctNames
  <2>1. AloneInv /\ [LeaseNext]_leaseVars => AloneInv'
    BY <1>2, AloneStep
  <2> QED
    BY <1>1, <2>1, AloneMeansOne, PTL DEF LeaseSpec
<1>3. CASE ~DistinctNames
  <2>1. AloneSingleIssuer
    BY <1>3 DEF AloneSingleIssuer
  <2> QED
    BY <2>1, PTL
<1> QED
  BY <1>2, <1>3

-----------------------------------------------------------------------------
(* Lease ids, whatever overlaps.                                           *)

\* The surface with this name has the id in hand, or it is on file under the name.
Uses(n, k) ==
  \/ \E s \in Surface : /\ NameOf[s] = n
                        /\ \/ told[s] # NoLease /\ told[s].id = k
                           \/ op[s].stage \in Granting /\ op[s].id = k
  \/ lease \in Lease /\ lease.holder = n /\ lease.id = k

IdInv ==
  /\ \A n \in Name, k \in 1..MaxLeases : Uses(n, k) => k <= issued
  /\ \A m, n \in Name, k \in 1..MaxLeases : Uses(m, k) /\ Uses(n, k) => m = n

\* A step that gives no name an id it did not have keeps the ids apart.
LEMMA IdsKept ==
  ASSUME LeaseTypeOK, IdInv, issued' = issued,
         \A n \in Name, k \in 1..MaxLeases : Uses(n, k)' => Uses(n, k)
  PROVE  IdInv'
BY DEF IdInv

\* Only acquire brings an id into use, and that id is new.
LEMMA IdStep == ASSUME LeaseTypeOK, IdInv, [LeaseNext]_leaseVars PROVE IdInv'
<1> USE DEF Granting
<1>1. ASSUME NEW t \in Surface, Acquire(t) PROVE IdInv'
  <2>1. /\ issued' = issued + 1
        /\ UNCHANGED <<lease, told>>
        /\ op' = [op EXCEPT ![t] = [stage |-> "granted", at |-> clock, id |-> issued + 1]]
        /\ issued \in Nat /\ MaxLeases \in Nat
    BY <1>1, LeaseAssumption DEF Acquire, Enter, LeaseTypeOK
  <2>2. \A s \in Surface \ {t} : op'[s] = op[s]
    BY <2>1 DEF LeaseTypeOK
  <2>3. op'[t].id = issued + 1
    BY <2>1 DEF LeaseTypeOK
  <2>4. ASSUME NEW n \in Name, NEW k \in 1..MaxLeases, Uses(n, k)'
        PROVE  Uses(n, k) \/ (k = issued + 1 /\ n = NameOf[t])
    BY <2>1, <2>2, <2>3, <2>4 DEF Uses
  <2>5. \A n \in Name, k \in 1..MaxLeases : Uses(n, k) => k < issued + 1 /\ k # issued + 1
    BY <2>1 DEF IdInv
  <2> QED
    BY <2>1, <2>4, <2>5 DEF IdInv
<1>2. ASSUME NEW t \in Surface, Renew(t) PROVE IdInv'
  <2>1. /\ issued' = issued /\ UNCHANGED <<lease, told>>
        /\ lease \in Lease /\ lease.holder = NameOf[t]
        /\ op'[t].id = lease.id
        /\ \A s \in Surface \ {t} : op'[s] = op[s]
    BY <1>2 DEF Renew, HeldBy, Enter, LeaseTypeOK
  <2>2. \A n \in Name, k \in 1..MaxLeases : Uses(n, k)' => Uses(n, k)
    BY <2>1 DEF Uses
  <2> QED
    BY <2>1, <2>2, IdsKept
<1>3. ASSUME NEW t \in Surface, RenewAcquires(t) PROVE IdInv'
  <2>1. /\ issued' = issued /\ UNCHANGED <<lease, told>>
        /\ op[t].stage \in Granting
        /\ op'[t].stage \in Granting => op'[t].id = op[t].id
        /\ \A s \in Surface \ {t} : op'[s] = op[s]
    BY <1>3 DEF RenewAcquires, Enter, Leave, NoOp, LeaseTypeOK
  <2>2. \A n \in Name, k \in 1..MaxLeases : Uses(n, k)' => Uses(n, k)
    BY <2>1 DEF Uses
  <2> QED
    BY <2>1, <2>2, IdsKept
<1>4. ASSUME NEW t \in Surface, Truncate(t) PROVE IdInv'
  <2>1. /\ issued' = issued /\ told' = told /\ lease' \notin Lease
        /\ op[t].stage \in Granting
        /\ op'[t].id = op[t].id
        /\ \A s \in Surface \ {t} : op'[s] = op[s]
    BY <1>4, NullLeaseAssumption DEF Truncate, Enter, LeaseTypeOK
  <2>2. \A n \in Name, k \in 1..MaxLeases : Uses(n, k)' => Uses(n, k)
    BY <2>1 DEF Uses
  <2> QED
    BY <2>1, <2>2, IdsKept
<1>5. ASSUME NEW t \in Surface, Write(t) PROVE IdInv'
  <2>1. /\ issued' = issued
        /\ lease'.id = op[t].id /\ lease'.holder = NameOf[t] /\ told'[t] = lease'
        /\ op[t].stage \in Granting
        /\ op'[t].stage \notin Granting
        /\ \A s \in Surface \ {t} : op'[s] = op[s] /\ told'[s] = told[s]
    BY <1>5 DEF Write, Leave, NoOp, LeaseTypeOK
  <2>2. \A n \in Name, k \in 1..MaxLeases : Uses(n, k)' => Uses(n, k)
    BY <2>1 DEF Uses
  <2> QED
    BY <2>1, <2>2, IdsKept
<1>6. ASSUME NEW t \in Surface, Release(t) PROVE IdInv'
  <2>1. /\ issued' = issued /\ UNCHANGED <<lease, told>>
        /\ op'[t].stage \notin Granting
        /\ \A s \in Surface \ {t} : op'[s] = op[s]
    BY <1>6 DEF Release, Enter, LeaseTypeOK
  <2>2. \A n \in Name, k \in 1..MaxLeases : Uses(n, k)' => Uses(n, k)
    BY <2>1 DEF Uses
  <2> QED
    BY <2>1, <2>2, IdsKept
<1>7. ASSUME NEW t \in Surface, Unlink(t) \/ Vanish(t) PROVE IdInv'
  <2>1. /\ issued' = issued /\ lease' \in {lease, NoLease} /\ told'[t] = NoLease
        /\ op'[t].stage \notin Granting
        /\ \A s \in Surface \ {t} : op'[s] = op[s] /\ told'[s] = told[s]
    BY <1>7 DEF Unlink, Vanish, Leave, NoOp, LeaseTypeOK
  <2>2. \A n \in Name, k \in 1..MaxLeases : Uses(n, k)' => Uses(n, k)
    BY <2>1, NullLeaseAssumption DEF Uses
  <2> QED
    BY <2>1, <2>2, IdsKept
<1>8. ASSUME Tick \/ UNCHANGED leaseVars PROVE IdInv'
  <2>1. UNCHANGED <<lease, told, op, issued>>
    BY <1>8 DEF Tick, leaseVars
  <2>2. \A n \in Name, k \in 1..MaxLeases : Uses(n, k)' => Uses(n, k)
    BY <2>1 DEF Uses
  <2> QED
    BY <2>1, <2>2, IdsKept
<1> QED
  BY <1>1, <1>2, <1>3, <1>4, <1>5, <1>6, <1>7, <1>8 DEF LeaseNext

\* A second orchestrator cannot know the active lease id: however operations overlap, an
\* id is only ever with the surface it was made for, and on file under its name.
THEOREM IdNamesIssuer == LeaseSpec => []LeaseIdNamesIssuer
<1>1. LeaseInit => IdInv
  BY NullLeaseAssumption DEF LeaseInit, IdInv, Uses, NoOp, Granting
<1>2. LeaseTypeOK /\ IdInv => LeaseIdNamesIssuer
  <2> SUFFICES ASSUME LeaseTypeOK, IdInv, DistinctNames, NEW s \in Surface, told[s] # NoLease
               PROVE  /\ \A t \in Surface \ {s} : told[t] # NoLease => told[s].id # told[t].id
                      /\ lease \in Lease /\ lease.id = told[s].id => lease.holder = NameOf[s]
    BY DEF LeaseIdNamesIssuer
  <2>1. told[s].id \in 1..MaxLeases /\ Uses(NameOf[s], told[s].id) /\ NameOf[s] \in Name
    BY LeaseAssumption DEF LeaseTypeOK, Lease, Uses
  <2>2. ASSUME NEW t \in Surface, told[t] # NoLease, told[s].id = told[t].id PROVE s = t
    <3>1. Uses(NameOf[t], told[s].id) /\ NameOf[t] \in Name
      BY <2>2, LeaseAssumption DEF Uses
    <3> QED
      BY <2>1, <3>1 DEF IdInv, DistinctNames
  <2>3. ASSUME lease \in Lease, lease.id = told[s].id PROVE lease.holder = NameOf[s]
    <3>1. lease.holder \in Name /\ Uses(lease.holder, told[s].id)
      BY <2>3 DEF Lease, Uses
    <3> QED
      BY <2>1, <3>1 DEF IdInv
  <2> QED
    BY <2>2, <2>3
<1> QED
  BY <1>1, <1>2, IdStep, LeaseTypeCorrect, PTL DEF LeaseSpec
====
