---- MODULE InboxSignerProofs ----
(***************************************************************************)
(* What the signer's stamp may be on, for any number of assignments, any   *)
(* cap and any number of edits, renamings and killed sweeps.               *)
(***************************************************************************)
EXTENDS InboxSigner, InboxLeaseProofs

\* Every file has its type, and the signer's stamp only if the guard lets its body pass.
FileInv(d) ==
  /\ d \in [Path -> Text \union {NoFile}]
  /\ \A p \in Path : d[p] # NoFile /\ d[p].stamp = "auto" => d[p].body # "reserved"

\* The guard let pass what a sweep has in memory to stamp, and what it has stamped.
StampInv ==
  /\ LeaseTypeInv
  /\ FileInv(dir)
  /\ {"stage", "text"} \subseteq DOMAIN sweep
  /\ sweep.stage = "stamping" => sweep.text \in Text /\ sweep.text.body # "reserved"

\* A file is written.
LEMMA FileWritten ==
  ASSUME FileInv(dir), NEW p, NEW text \in Text \union {NoFile},
         text # NoFile /\ text.stamp = "auto" => text.body # "reserved"
  PROVE  FileInv([dir EXCEPT ![p] = text])
BY DEF FileInv

\* A file is renamed.
LEMMA FileRenamed ==
  ASSUME FileInv(dir), NEW p \in Path, NEW q
  PROVE  FileInv([dir EXCEPT ![q] = dir[p], ![p] = NoFile])
BY DEF FileInv

\* What orchestrators, people and seats do to the files.
LEMMA OthersStep ==
  ASSUME StampInv,
         \/ \E s \in Surface, f \in File : Issue(s, f)
         \/ \E p \in Path : Edit(p) \/ VouchStamp(p)
         \/ \E f \in File : SeatRefuses(f)
         \/ Vouch \/ VouchEnds
  PROVE  FileInv(dir') /\ UNCHANGED <<leaseVars, sweep>>
<1>1. ASSUME NEW s \in Surface, NEW f \in File, Issue(s, f) PROVE FileInv(dir')
  <2>1. PICK body \in Body :
          dir' = [dir EXCEPT ![<<"plain", f>>] =
                    [body |-> body, stamp |-> "none",
                     lease |-> IF told[s] = NoLease THEN 0 ELSE told[s].id]]
    BY <1>1 DEF Issue
  <2>2. (IF told[s] = NoLease THEN 0 ELSE told[s].id) \in 0..MaxLeases
    BY LeaseAssumption DEF StampInv, LeaseTypeInv, LeaseTypeOK, Lease
  <2> QED
    BY <2>1, <2>2, FileWritten DEF StampInv, Text
<1>2. ASSUME NEW p \in Path, Edit(p) PROVE FileInv(dir')
  <2>1. dir[p] \in Text
    BY <1>2 DEF Edit, Present, StampInv, FileInv
  <2>2. PICK body \in Body \union {"garbled"} : dir' = [dir EXCEPT ![p] = Edited(dir[p], body)]
    BY <1>2 DEF Edit
  <2>3. body \in {"work", "reserved", "garbled"}
    BY SignerAssumption
  <2>4. Edited(dir[p], body) \in Text /\ Edited(dir[p], body).stamp # "auto"
    BY <2>1, <2>3 DEF Edited, Text
  <2> QED
    BY <2>2, <2>4, FileWritten DEF StampInv
<1>3. ASSUME NEW p \in Path, VouchStamp(p) PROVE FileInv(dir')
  <2>1. CASE p \in Present
    <3> DEFINE text == [dir[p] EXCEPT !.stamp = "founder"]
    <3>1. dir[p] \in Text
      BY <2>1 DEF Present, StampInv, FileInv
    <3>2. text \in Text /\ text.stamp # "auto" /\ dir' = [dir EXCEPT ![p] = text]
      BY <1>3, <2>1, <3>1 DEF Text, VouchStamp
    <3> HIDE DEF text
    <3> QED
      BY <3>2, FileWritten DEF StampInv
  <2> QED
    BY <1>3, <2>1 DEF VouchStamp, StampInv
<1>4. ASSUME NEW f \in File, SeatRefuses(f) PROVE FileInv(dir')
  BY <1>4, FileRenamed DEF SeatRefuses, StampInv, Path
<1>5. Vouch \/ VouchEnds => FileInv(dir')
  BY DEF Vouch, VouchEnds, StampInv
<1> QED
  BY <1>1, <1>2, <1>3, <1>4, <1>5 DEF Issue, Edit, VouchStamp, SeatRefuses, Vouch, VouchEnds

\* What a sweep does to them.
LEMMA SweepStep ==
  ASSUME StampInv, Sweeping \/ SweepKilled
  PROVE  /\ FileInv(dir')
         /\ {"stage", "text"} \subseteq DOMAIN sweep'
         /\ sweep'.stage = "stamping" => sweep'.text \in Text /\ sweep'.text.body # "reserved"
         /\ UNCHANGED leaseVars
<1>1. CASE Sort
  <2> DEFINE p == Head(sweep.left)
             q == <<"plain", p[2]>>
  <2>1. p \in Path
    BY <1>1 DEF Sort, Listed, Readable, Present
  <2>2. dir' = dir \/ dir' = [dir EXCEPT ![q] = dir[p], ![p] = NoFile]
    BY <1>1 DEF Sort
  <2>3. sweep'.stage # "stamping"
    BY <1>1 DEF Sort, Listed, Readable
  <2> QED
    BY <1>1, <2>1, <2>2, <2>3, FileRenamed DEF Sort, StampInv
<1>2. CASE Check
  BY <1>2 DEF Check, Candidate, Readable, MayStamp, Present, StampInv, FileInv
<1>3. CASE Stamp
  <2> DEFINE text == [sweep.text EXCEPT !.stamp = "auto"]
             p == Head(sweep.todo)
  <2>1. text \in Text /\ text.body # "reserved"
    BY <1>3 DEF Stamp, StampInv, Text
  <2>2. dir' = [dir EXCEPT ![p] = text]
    BY <1>3 DEF Stamp
  <2>3. sweep'.stage = "checking" /\ {"stage", "text"} \subseteq DOMAIN sweep'
    BY <1>3 DEF Stamp, StampInv
  <2> HIDE DEF text, p
  <2>4. FileInv(dir')
    BY <2>1, <2>2, FileWritten DEF StampInv
  <2> QED
    BY <1>3, <2>3, <2>4 DEF Stamp
<1>4. CASE SweepKilled
  <2>1. Lost \in Text /\ Lost.stamp # "auto"
    BY LeaseAssumption DEF Lost, Text
  <2>2. sweep'.stage = "idle" /\ {"stage", "text"} \subseteq DOMAIN sweep'
    BY <1>4 DEF SweepKilled, NoSweep
  <2> QED
    BY <1>4, <2>1, <2>2, FileWritten DEF SweepKilled, StampInv
<1>5. CASE SweepBegin \/ WriteTrail \/ SweepRaises
  <2>1. sweep'.stage \in {"idle", "sorting"} /\ {"stage", "text"} \subseteq DOMAIN sweep'
    <3>1. CASE SweepBegin
      <4>1. PICK listed : sweep' = [NoSweep EXCEPT !.stage = "sorting", !.left = listed]
        BY <3>1, Zenon DEF SweepBegin
      <4> QED
        BY <4>1 DEF NoSweep
    <3>2. CASE WriteTrail \/ SweepRaises
      BY <3>2 DEF WriteTrail, SweepRaises, NoSweep
    <3> QED
      BY <1>5, <3>1, <3>2
  <2> QED
    BY <1>5, <2>1 DEF SweepBegin, WriteTrail, SweepRaises, StampInv
<1>6. CASE Sorted \/ Signed \/ RecordIncidents \/ RewriteIncidents
  <2>1. /\ sweep'.stage \in {"checking", "recording", "rewriting", "reporting"}
        /\ {"stage", "text"} \subseteq DOMAIN sweep'
    <3>1. CASE Sorted
      BY <3>1 DEF Sorted, StampInv
    <3>2. CASE Signed
      BY <3>2 DEF Signed, StampInv
    <3>3. CASE RecordIncidents
      BY <3>3 DEF RecordIncidents, StampInv
    <3>4. CASE RewriteIncidents
      BY <3>4 DEF RewriteIncidents, StampInv
    <3> QED
      BY <1>6, <3>1, <3>2, <3>3, <3>4
  <2> QED
    BY <1>6, <2>1 DEF Sorted, Signed, RecordIncidents, RewriteIncidents, StampInv
<1> QED
  BY <1>1, <1>2, <1>3, <1>4, <1>5, <1>6 DEF Sweeping

\* Every step keeps it.
LEMMA StampStep == ASSUME StampInv, [Next]_vars PROVE StampInv'
<1>1. CASE UNCHANGED vars
  BY <1>1 DEF vars, StampInv, FileInv, LeaseTypeInv, LeaseTypeOK
<1>2. CASE LeaseStep
  BY <1>2, LeaseTypeStep DEF LeaseStep, StampInv
<1>3. CASE Sweeping \/ SweepKilled
  BY <1>3, SweepStep, LeaseTypeStep DEF StampInv
<1>4. CASE \/ \E s \in Surface, f \in File : Issue(s, f)
           \/ \E p \in Path : Edit(p) \/ VouchStamp(p)
           \/ \E f \in File : SeatRefuses(f)
           \/ Vouch \/ VouchEnds
  BY <1>4, OthersStep, LeaseTypeStep DEF StampInv
<1> QED
  BY <1>1, <1>2, <1>3, <1>4 DEF Next

\* However files are edited, renamed or refused while a sweep goes on, and wherever it is
\* killed, the signer's stamp is only ever on a text that the guard lets pass.
THEOREM StampOnlyOnWork == Spec => []StampIsOnWork
<1>1. Init => StampInv
  BY LeaseTypeInit DEF Init, StampInv, FileInv, NoSweep
<1>2. StampInv => StampIsOnWork
  BY DEF StampInv, FileInv, StampIsOnWork, AutoStamped, Present
<1> QED
  BY <1>1, <1>2, StampStep, PTL DEF Spec

-----------------------------------------------------------------------------
(* A takeover of the lease is final.                                       *)

\* The lease ids that an operation on the lease has in hand are none that came before k.
NotBefore(k) ==
  /\ k <= issued
  /\ lease \in Lease => k <= lease.id
  /\ \A s \in Surface : op[s].stage \in Granting => k <= op[s].id

\* One operation at a time, and what it will write is not older than what is on file.
FileSide ==
  /\ \A s, t \in Surface : op[s].stage # "idle" /\ op[t].stage # "idle" => s = t
  /\ \A s \in Surface : op[s].stage \in Granting => op[s].id <= issued
  /\ lease \in Lease => NotBefore(lease.id)

\* What is on file only gets newer while operations do not overlap.
LEMMA FileStep ==
  ASSUME LeaseTypeInv, FileSide, [LeaseNext]_leaseVars, ~overlap', NEW k \in Nat, NotBefore(k)
  PROVE  FileSide' /\ NotBefore(k)'
<1> USE DEF Granting
<1>0. /\ issued \in Nat /\ (lease \in Lease => lease.id \in Nat)
      /\ \A s \in Surface : op[s].id \in Nat
  BY LeaseAssumption DEF LeaseTypeInv, LeaseTypeOK, Lease
<1>1. ASSUME NEW t \in Surface, Acquire(t) PROVE FileSide' /\ NotBefore(k)'
  <2>1. /\ issued' = issued + 1 /\ lease' = lease
        /\ op'[t].id = issued + 1
        /\ \A s \in Surface \ {t} : op'[s] = op[s] /\ op[s].stage = "idle"
    BY <1>1 DEF Acquire, Enter, LeaseTypeInv, LeaseTypeOK
  <2> QED
    BY <1>0, <2>1 DEF FileSide, NotBefore
<1>2. ASSUME NEW t \in Surface, Renew(t) PROVE FileSide' /\ NotBefore(k)'
  <2>1. /\ issued' = issued /\ lease' = lease /\ lease \in Lease
        /\ op'[t].id = lease.id
        /\ \A s \in Surface \ {t} : op'[s] = op[s] /\ op[s].stage = "idle"
    BY <1>2 DEF Renew, HeldBy, Enter, LeaseTypeInv, LeaseTypeOK
  <2> QED
    BY <1>0, <2>1 DEF FileSide, NotBefore
<1>3. ASSUME NEW t \in Surface, RenewAcquires(t) \/ Release(t) PROVE FileSide' /\ NotBefore(k)'
  <2>1. /\ issued' = issued /\ lease' = lease
        /\ op'[t].stage \in Granting => op[t].stage \in Granting /\ op'[t].id = op[t].id
        /\ \A s \in Surface \ {t} : op'[s] = op[s] /\ (op'[t].stage = "idle" \/ op[s].stage = "idle")
    <3>1. CASE Release(t)
      BY <3>1 DEF Release, Enter, LeaseTypeInv, LeaseTypeOK
    <3>2. CASE RenewAcquires(t) /\ FreeTo(t, op[t].at)
      <4>1. /\ op[t].stage = "renewing" /\ Enter(t, "granted", op[t].at, op[t].id)
            /\ issued' = issued /\ lease' = lease
        BY <3>2 DEF RenewAcquires
      <4>2. op' = [op EXCEPT ![t] = [stage |-> "granted", at |-> op[t].at, id |-> op[t].id]]
        BY <4>1 DEF Enter
      <4>3. op'[t].id = op[t].id /\ \A s \in Surface \ {t} : op'[s] = op[s]
        BY <4>2 DEF LeaseTypeInv, LeaseTypeOK
      <4> QED
        BY <4>1, <4>3 DEF Enter
    <3>3. CASE RenewAcquires(t) /\ ~FreeTo(t, op[t].at)
      BY <3>3 DEF RenewAcquires, Leave, NoOp, LeaseTypeInv, LeaseTypeOK
    <3> QED
      BY <1>3, <3>1, <3>2, <3>3
  <2> QED
    BY <1>0, <2>1 DEF FileSide, NotBefore
<1>4. ASSUME NEW t \in Surface, Truncate(t) PROVE FileSide' /\ NotBefore(k)'
  <2>1. /\ issued' = issued /\ lease' \notin Lease
        /\ op[t].stage \in Granting /\ op'[t].id = op[t].id
        /\ \A s \in Surface \ {t} : op'[s] = op[s] /\ op[s].stage = "idle"
    BY <1>4, NullLeaseAssumption DEF Truncate, Enter, LeaseTypeInv, LeaseTypeOK
  <2> QED
    BY <1>0, <2>1 DEF FileSide, NotBefore
<1>5. ASSUME NEW t \in Surface, Write(t) PROVE FileSide' /\ NotBefore(k)'
  <2>1. /\ issued' = issued /\ lease'.id = op[t].id
        /\ op[t].stage \in Granting /\ op'[t].stage = "idle"
        /\ \A s \in Surface \ {t} : op'[s] = op[s]
    BY <1>5 DEF Write, Leave, NoOp, LeaseTypeInv, LeaseTypeOK
  <2>2. \A s \in Surface : op'[s].stage = "idle"
    BY <2>1 DEF FileSide
  <2> QED
    BY <1>0, <2>1, <2>2 DEF FileSide, NotBefore
<1>6. ASSUME NEW t \in Surface, Unlink(t) \/ Vanish(t) PROVE FileSide' /\ NotBefore(k)'
  <2>1. /\ issued' = issued /\ lease' \in {lease, NoLease}
        /\ op'[t].stage = "idle"
        /\ \A s \in Surface \ {t} : op'[s] = op[s]
    BY <1>6 DEF Unlink, Vanish, Leave, NoOp, LeaseTypeInv, LeaseTypeOK
  <2> QED
    BY <1>0, <2>1, NullLeaseAssumption DEF FileSide, NotBefore
<1>7. ASSUME Tick \/ UNCHANGED leaseVars PROVE FileSide' /\ NotBefore(k)'
  BY <1>7 DEF Tick, leaseVars, FileSide, NotBefore
<1> QED
  BY <1>1, <1>2, <1>3, <1>4, <1>5, <1>6, <1>7 DEF LeaseNext

\* The assignment is stamped by the signer under the lease k.
Under(k) == \E p \in AutoStamped : dir[p].lease = k

\* The signer has stamped under the lease k, or is about to.
Used(k) == Under(k) \/ (sweep.stage = "stamping" /\ sweep.text.lease = k)

\* No lease that the signer used comes after the one on file or the one being written,
\* and what it is about to stamp is not older than what it has stamped.
FinalInv ==
  /\ StampInv
  /\ ~overlap => FileSide
  /\ RequireLease /\ ~overlap =>
       /\ \A k \in 0..MaxLeases : Used(k) => NotBefore(k)
       /\ sweep.stage = "stamping" =>
            \A k \in 0..MaxLeases : Under(k) => k <= sweep.text.lease

\* Nobody but the signer puts its stamp on a text.
LEMMA OthersStampNot ==
  ASSUME StampInv,
         \/ \E s \in Surface, f \in File : Issue(s, f)
         \/ \E p \in Path : Edit(p) \/ VouchStamp(p)
         \/ \E f \in File : SeatRefuses(f)
         \/ Vouch \/ VouchEnds
  PROVE  \A p \in Path : p \in AutoStamped' => p \in AutoStamped /\ dir'[p] = dir[p]
<1> USE DEF AutoStamped, Present
<1>0. dir \in [Path -> Text \union {NoFile}]
  BY DEF StampInv, FileInv
<1>1. ASSUME NEW s \in Surface, NEW f \in File, Issue(s, f)
      PROVE  \A p \in Path : p \in AutoStamped' => p \in AutoStamped /\ dir'[p] = dir[p]
  <2>1. PICK text : text.stamp = "none" /\ dir' = [dir EXCEPT ![<<"plain", f>>] = text]
    BY <1>1 DEF Issue
  <2> QED
    BY <1>0, <2>1
<1>2. ASSUME NEW q \in Path, Edit(q)
      PROVE  \A p \in Path : p \in AutoStamped' => p \in AutoStamped /\ dir'[p] = dir[p]
  <2>1. dir[q] \in Text
    BY <1>0, <1>2 DEF Edit
  <2>2. PICK body \in Body \union {"garbled"} : dir' = [dir EXCEPT ![q] = Edited(dir[q], body)]
    BY <1>2 DEF Edit
  <2>3. Edited(dir[q], body).stamp # "auto"
    BY <2>1 DEF Edited, Text
  <2> QED
    BY <1>0, <2>2, <2>3
<1>3. ASSUME NEW q \in Path, VouchStamp(q)
      PROVE  \A p \in Path : p \in AutoStamped' => p \in AutoStamped /\ dir'[p] = dir[p]
  <2>1. CASE q \in Present
    <3>1. dir[q] \in Text
      BY <1>0, <2>1
    <3>2. PICK text : text = [dir[q] EXCEPT !.stamp = "founder"]
      OBVIOUS
    <3>3. text.stamp # "auto" /\ dir' = [dir EXCEPT ![q] = text]
      BY <1>3, <2>1, <3>1, <3>2 DEF Text, VouchStamp
    <3> QED
      BY <1>0, <3>3
  <2> QED
    BY <1>3, <2>1 DEF VouchStamp
<1>4. ASSUME NEW f \in File, SeatRefuses(f)
      PROVE  \A p \in Path : p \in AutoStamped' => p \in AutoStamped /\ dir'[p] = dir[p]
  BY <1>0, <1>4 DEF SeatRefuses, Unstamped
<1>5. Vouch \/ VouchEnds => dir' = dir
  BY DEF Vouch, VouchEnds
<1> QED
  BY <1>1, <1>2, <1>3, <1>4, <1>5

\* A sweep decides to stamp a text of the lease on file, and stamps what it decided on.
LEMMA SweepStamps ==
  ASSUME StampInv, Sweeping \/ SweepKilled
  PROVE  \/ /\ \A p \in Path : p \in AutoStamped' => p \in AutoStamped /\ dir'[p] = dir[p]
            /\ sweep'.stage # "stamping"
         \/ /\ dir' = dir /\ sweep.stage # "stamping"
            /\ RequireLease => lease \in Lease /\ sweep'.text.lease = lease.id
         \/ /\ sweep.stage = "stamping" /\ sweep'.stage # "stamping"
            /\ \A p \in Path : p \in AutoStamped' =>
                 \/ p \in AutoStamped /\ dir'[p] = dir[p]
                 \/ dir'[p].lease = sweep.text.lease
<1> USE DEF AutoStamped, Present
<1>0. dir \in [Path -> Text \union {NoFile}] /\ {"stage", "text"} \subseteq DOMAIN sweep
  BY DEF StampInv, FileInv
<1>1. CASE Sort
  <2> DEFINE p == Head(sweep.left)
             q == <<"plain", p[2]>>
  <2>1. p \in Path
    BY <1>1 DEF Sort, Listed, Readable
  <2>2. dir' = dir \/ (dir' = [dir EXCEPT ![q] = dir[p], ![p] = NoFile] /\ dir[p].stamp = "none")
    BY <1>1 DEF Sort, Recovers
  <2>3. sweep'.stage # "stamping"
    BY <1>1 DEF Sort, Listed, Readable
  <2> HIDE DEF p, q
  <2> QED
    BY <1>0, <2>1, <2>2, <2>3
<1>2. CASE Check
  <2> DEFINE text == dir[Head(sweep.todo)]
  <2>1. dir' = dir /\ sweep.stage = "checking"
    BY <1>2 DEF Check, Candidate
  <2>2. CASE MayStamp(text, sweep.moment)
    BY <1>0, <1>2, <2>1, <2>2 DEF Check, MayStamp, UnderActiveLease
  <2>3. CASE ~MayStamp(text, sweep.moment)
    BY <1>0, <1>2, <2>1, <2>3 DEF Check
  <2> QED
    BY <2>2, <2>3
<1>3. CASE Stamp
  <2> DEFINE text == [sweep.text EXCEPT !.stamp = "auto"]
             q == Head(sweep.todo)
  <2>1. sweep.stage = "stamping" /\ sweep.text \in Text /\ text.lease = sweep.text.lease
    BY <1>3 DEF Stamp, StampInv, Text
  <2>2. dir' = [dir EXCEPT ![q] = text] /\ sweep'.stage # "stamping"
    BY <1>0, <1>3 DEF Stamp
  <2> HIDE DEF text, q
  <2> QED
    BY <1>0, <2>1, <2>2
<1>4. CASE SweepKilled
  <2>1. Lost.stamp # "auto" /\ sweep'.stage # "stamping"
    BY <1>4 DEF Lost, SweepKilled, NoSweep
  <2> QED
    BY <1>0, <1>4, <2>1 DEF SweepKilled
<1>5. CASE SweepBegin
  <2>1. PICK listed : sweep' = [NoSweep EXCEPT !.stage = "sorting", !.left = listed]
    BY <1>5, Zenon DEF SweepBegin
  <2> QED
    BY <1>5, <2>1 DEF SweepBegin, NoSweep
<1>6. CASE WriteTrail \/ SweepRaises
  BY <1>6 DEF WriteTrail, SweepRaises, NoSweep
<1>7. CASE Sorted
  BY <1>0, <1>7 DEF Sorted
<1>8. CASE Signed
  BY <1>0, <1>8 DEF Signed
<1>9. CASE RecordIncidents \/ RewriteIncidents
  BY <1>0, <1>9 DEF RecordIncidents, RewriteIncidents
<1> QED
  BY <1>1, <1>2, <1>3, <1>4, <1>5, <1>6, <1>7, <1>8, <1>9 DEF Sweeping

\* Every step keeps the order of the leases.
LEMMA FinalStep == ASSUME FinalInv, [Next]_vars PROVE FinalInv'
<1>0. StampInv' /\ LeaseTypeInv
  BY StampStep DEF FinalInv, StampInv
<1>1. CASE UNCHANGED <<dir, sweep>> /\ [LeaseNext]_leaseVars
  <2> SUFFICES ASSUME ~overlap' PROVE FinalInv'
    BY <1>0 DEF FinalInv
  <2>1. ~overlap
    BY <1>1 DEF LeaseNext, leaseVars, Acquire, Renew, RenewAcquires, Truncate, Write, Release, Unlink, Vanish, Tick, Enter, Leave
  <2>2. FileSide'
    <3>1. NotBefore(0)
      BY <1>0, LeaseAssumption DEF NotBefore, LeaseTypeInv, LeaseTypeOK, Lease
    <3> QED
      BY <1>0, <1>1, <2>1, <3>1, FileStep DEF FinalInv
  <2>3. ASSUME RequireLease, NEW k \in 0..MaxLeases, Used(k)' PROVE NotBefore(k)'
    <3>1. Used(k)
      BY <1>1, <2>3 DEF Used, Under, AutoStamped, Present
    <3>2. NotBefore(k) /\ k \in Nat
      BY <2>1, <2>3, <3>1, LeaseAssumption DEF FinalInv
    <3> QED
      BY <1>0, <1>1, <2>1, <3>2, FileStep DEF FinalInv
  <2>4. ASSUME RequireLease, sweep'.stage = "stamping", NEW k \in 0..MaxLeases, Under(k)'
        PROVE  k <= sweep'.text.lease
    BY <1>1, <2>1, <2>4 DEF FinalInv, Under, AutoStamped, Present
  <2> QED
    BY <1>0, <2>2, <2>3, <2>4 DEF FinalInv
<1>2. CASE Sweeping \/ SweepKilled
  <2>0. UNCHANGED leaseVars
    BY <1>2, SweepStep DEF FinalInv
  <2>1. FileSide' = FileSide /\ overlap' = overlap /\ \A k : NotBefore(k)' = NotBefore(k)
    BY <2>0 DEF FileSide, NotBefore, leaseVars
  <2> SUFFICES ASSUME RequireLease, ~overlap
               PROVE  /\ \A k \in 0..MaxLeases : Used(k)' => NotBefore(k)
                      /\ sweep'.stage = "stamping" =>
                           \A k \in 0..MaxLeases : Under(k)' => k <= sweep'.text.lease
    BY <1>0, <2>1 DEF FinalInv
  <2>2. CASE /\ \A p \in Path : p \in AutoStamped' => p \in AutoStamped /\ dir'[p] = dir[p]
             /\ sweep'.stage # "stamping"
    <3>1. \A k : Used(k)' => Used(k)
      BY <2>2 DEF Used, Under, AutoStamped, Present
    <3> QED
      BY <2>2, <3>1 DEF FinalInv
  <2>3. CASE dir' = dir /\ sweep.stage # "stamping" /\ lease \in Lease /\ sweep'.text.lease = lease.id
    <3>1. \A k : Under(k)' <=> Under(k)
      BY <2>3 DEF Under, AutoStamped, Present
    <3>2. \A k \in 0..MaxLeases : Under(k) => NotBefore(k) /\ k <= lease.id
      BY <2>3 DEF FinalInv, Used, NotBefore
    <3>3. NotBefore(lease.id)
      BY <2>3 DEF FinalInv, FileSide
    <3> QED
      BY <2>3, <3>1, <3>2, <3>3 DEF Used
  <2>4. CASE /\ sweep.stage = "stamping" /\ sweep'.stage # "stamping"
             /\ \A p \in Path : p \in AutoStamped' =>
                  \/ p \in AutoStamped /\ dir'[p] = dir[p]
                  \/ dir'[p].lease = sweep.text.lease
    <3>1. \A k : Used(k)' => Used(k)
      BY <2>4 DEF Used, Under, AutoStamped, Present
    <3> QED
      BY <2>4, <3>1 DEF FinalInv
  <2> QED
    BY <1>2, <2>2, <2>3, <2>4, SweepStamps DEF FinalInv
<1>3. CASE \/ \E s \in Surface, f \in File : Issue(s, f)
           \/ \E p \in Path : Edit(p) \/ VouchStamp(p)
           \/ \E f \in File : SeatRefuses(f)
           \/ Vouch \/ VouchEnds
  <2>0. UNCHANGED <<leaseVars, sweep>>
    BY <1>3, OthersStep DEF FinalInv
  <2>1. FileSide' = FileSide /\ overlap' = overlap /\ \A k : NotBefore(k)' = NotBefore(k)
    BY <2>0 DEF FileSide, NotBefore, leaseVars
  <2>2. \A k : (Under(k)' => Under(k)) /\ (Used(k)' => Used(k))
    BY <1>3, <2>0, OthersStampNot DEF FinalInv, Used, Under, AutoStamped, Present
  <2> QED
    BY <1>0, <2>0, <2>1, <2>2 DEF FinalInv
<1> QED
  BY <1>1, <1>2, <1>3 DEF Next, LeaseStep, vars, leaseVars

\* Once an assignment of a later lease has been stamped none of an earlier one is, while
\* operations on the lease do not overlap - however slow the sweep is, which looks at the
\* lease and stamps some steps later, and whatever becomes of the lease in between.
THEOREM TakeoverIsFinal == Spec => AloneTakeoverIsFinal
<1>1. Init => FinalInv
  <2>1. Init => StampInv
    BY LeaseTypeInit DEF Init, StampInv, FileInv, NoSweep
  <2> QED
    BY <2>1, NullLeaseAssumption
    DEF Init, LeaseInit, NoOp, NoSweep, FinalInv, FileSide, Granting, Used, Under, AutoStamped, Present
<1>2. ASSUME FinalInv, [Next]_vars, RequireLease, ~overlap,
             NEW p \in AutoStamped', NEW q \in AutoStamped, p \notin AutoStamped
      PROVE  dir'[p].lease >= dir[q].lease
  <2>1. p \in Path /\ q \in Path
    BY DEF AutoStamped, Present
  <2>2. ~ UNCHANGED dir
    BY <1>2 DEF AutoStamped, Present
  <2>3. CASE Sweeping \/ SweepKilled
    <3>1. sweep.stage = "stamping" /\ dir'[p].lease = sweep.text.lease
      BY <1>2, <2>1, <2>2, <2>3, SweepStamps DEF FinalInv
    <3>2. dir[q].lease \in 0..MaxLeases /\ sweep.text.lease \in 0..MaxLeases
      <4>1. dir[q] \in Text /\ sweep.text \in Text
        BY <1>2, <2>1, <3>1 DEF FinalInv, StampInv, FileInv, AutoStamped, Present
      <4> QED
        BY <4>1 DEF Text
    <3>3. Under(dir[q].lease)
      BY DEF Under
    <3>4. dir[q].lease <= sweep.text.lease
      BY <1>2, <3>1, <3>2, <3>3 DEF FinalInv
    <3> QED
      BY <3>1, <3>2, <3>4, LeaseAssumption
  <2>4. CASE \/ \E s \in Surface, f \in File : Issue(s, f)
             \/ \E r \in Path : Edit(r) \/ VouchStamp(r)
             \/ \E f \in File : SeatRefuses(f)
             \/ Vouch \/ VouchEnds
    BY <1>2, <2>1, <2>4, OthersStampNot DEF FinalInv
  <2> QED
    BY <1>2, <2>2, <2>3, <2>4 DEF Next, LeaseStep, vars
<1>3. FinalInv /\ [Next]_vars =>
        (RequireLease /\ ~overlap =>
           \A p \in AutoStamped', q \in AutoStamped :
             p \notin AutoStamped => dir'[p].lease >= dir[q].lease)
  BY <1>2
<1> QED
  BY <1>1, <1>3, FinalStep, PTL DEF Spec, AloneTakeoverIsFinal
====
