---- MODULE InboxSigner ----
(***************************************************************************)
(* The INBOX and what signs it (infrastructure/inbox_auth.py): orchestra-  *)
(* tors put assignments there under their lease, a sweep that a timer      *)
(* starts stamps them with the fleet's key, and the founder may stamp what *)
(* is left in one act.  A sweep lists the directory, sorts its files into  *)
(* candidates and incidents, and takes the first `Cap` candidates one by   *)
(* one; what it did is recorded when all of them are done.  Orchestrators, *)
(* seats and people change the files meanwhile, and a sweep that meets a   *)
(* file that is gone or not UTF-8, or a lease it cannot read, ends with an *)
(* exception.                                                              *)
(*                                                                         *)
(* An assignment is known by its original name, and the order of the names *)
(* is the order of the numbers in File.  There is one sweep at a time, as  *)
(* the timer's unit has it; the brake is a sweep not started.              *)
(***************************************************************************)
EXTENDS InboxLease, Sequences, SequencesExt

CONSTANTS
  MaxFile,       \* bound on the assignments issued
  Body,          \* what an assignment may ask for
  Cap,           \* candidates per sweep, AUTO_SIGN_CAP
  RequireLease,  \* the transition switch of the writer lease
  MaxMishaps,    \* bound on sweeps that fail and files that are changed or refused
  NoFile         \* no such file

File == 1..MaxFile

\* The incident that a record that does not parse stands for.
Malformed == 0

\* The name an assignment was given, or that name behind a refusal's prefix, which
\* sorts after every date.
Path == {"plain", "trapped"} \X File
Before(p, q) == \/ p[1] = "plain" /\ q[1] = "trapped"
                \/ p[1] = q[1] /\ p[2] < q[2]

\* "reserved" is a body that the guard refuses: it binds the law, or asks for what only
\* the founder may do.
ASSUME SignerAssumption ==
  /\ MaxFile \in Nat
  /\ Body \subseteq {"work", "reserved"}
  /\ Cap \in Nat \ {0}
  /\ RequireLease \in BOOLEAN
  /\ MaxMishaps \in Nat

\* The LEASE line is 0 when there is none.  Both the signer's and the founder's stamp
\* verify; a stamp is bad once the text under it has changed.
\* "lost" is an empty file: its write was begun and never finished; "garbled" is one
\* that does not decode.
Text == [body : Body \union {"lost", "garbled"}, lease : 0..MaxLeases, stamp : {"none", "auto", "founder", "bad"}]

Lost == [body |-> "lost", lease |-> 0, stamp |-> "none"]

ASSUME NullFileAssumption == NoFile \notin Text

VARIABLES
  dir,        \* the INBOX: the text of each file
  sweep,      \* the sweep in progress, and what it holds in memory
  vouch,      \* the founder's batch: the files left to stamp, as they were listed
  trail,      \* the assignments with a signature in the audit trail
  incidents,  \* the assignments with an incident on record, auto-sign-incidents.json
  mishaps     \* how many of the bounded mishaps have happened

vars == <<clock, lease, told, op, issued, overlap, dir, sweep, vouch, trail, incidents, mishaps>>

NoSweep == [stage |-> "idle", moment |-> 0, left |-> <<>>, todo |-> <<>>,
            text |-> NoFile, signed |-> {}, refused |-> {}]

SweepStage == {"idle", "sorting", "checking", "stamping", "recording", "rewriting", "reporting"}

TypeOK ==
  /\ LeaseTypeOK
  /\ dir \in [Path -> Text \union {NoFile}]
  /\ sweep \in [stage : SweepStage, moment : 0..MaxClock, left : Seq(Path), todo : Seq(Path),
                text : Text \union {NoFile}, signed : SUBSET File,
                refused : SUBSET ({Malformed} \union File)]
  /\ sweep.stage = "stamping" => sweep.text \in Text
  /\ vouch \in [Path -> Text \union {NoFile}]
  /\ trail \subseteq File
  /\ incidents \subseteq {Malformed} \union File
  /\ mishaps \in 0..MaxMishaps

Init ==
  /\ LeaseInit
  /\ dir = [p \in Path |-> NoFile]
  /\ sweep = NoSweep
  /\ vouch = [p \in Path |-> NoFile]
  /\ trail = {}
  /\ incidents = {}
  /\ mishaps = 0

Mishap == mishaps < MaxMishaps /\ mishaps' = mishaps + 1

-----------------------------------------------------------------------------
(* The INBOX.                                                              *)

Present == {p \in Path : dir[p] # NoFile}
Unstamped == {p \in Present : dir[p].stamp = "none"}

\* read_text raises on anything else.
Readable == {p \in Present : dir[p].body # "garbled"}

Authentic(text) == text.stamp \in {"auto", "founder"}

\* emitted_under_active_lease, with the `now` of the sweep's start.
UnderActiveLease(text, now) ==
  /\ text.lease # 0
  /\ lease \in Lease
  /\ ~Expired(lease, now)
  /\ text.lease = lease.id

\* An orchestrator issues an assignment, with the LEASE line of the lease it was told
\* of; one that was told of none writes none.
Issue(s, f) ==
  /\ dir[<<"plain", f>>] = NoFile /\ dir[<<"trapped", f>>] = NoFile
  /\ \E body \in Body :
       dir' = [dir EXCEPT ![<<"plain", f>>] =
                 [body |-> body, stamp |-> "none",
                  lease |-> IF told[s] = NoLease THEN 0 ELSE told[s].id]]
  /\ UNCHANGED <<leaseVars, sweep, vouch, trail, incidents, mishaps>>

\* A stamp no longer matches a text that was edited.
Edited(text, body) ==
  [text EXCEPT !.body = body, !.stamp = IF text.stamp = "none" THEN "none" ELSE "bad"]

\* Somebody edits an assignment, perhaps with an editor that does not write UTF-8.
Edit(p) ==
  /\ p \in Present
  /\ \E body \in Body \union {"garbled"} :
       /\ body # dir[p].body \/ Authentic(dir[p])
       /\ dir' = [dir EXCEPT ![p] = Edited(@, body)]
  /\ Mishap
  /\ UNCHANGED <<leaseVars, sweep, vouch, trail, incidents>>

\* A seat refuses an unstamped assignment by renaming it.
SeatRefuses(f) ==
  /\ <<"plain", f>> \in Unstamped
  /\ dir' = [dir EXCEPT ![<<"trapped", f>>] = dir[<<"plain", f>>], ![<<"plain", f>>] = NoFile]
  /\ Mishap
  /\ UNCHANGED <<leaseVars, sweep, vouch, trail, incidents>>

-----------------------------------------------------------------------------
(* A sweep, auto_sign_once.                                                *)

SweepBegin ==
  /\ sweep.stage = "idle"
  /\ sweep' = [NoSweep EXCEPT !.stage = "sorting", !.left = SetToSortSeq(Present, Before)]
  /\ UNCHANGED <<leaseVars, dir, vouch, trail, incidents, mishaps>>

\* The next listed file, which is read, and must still be there.
Listed == sweep.stage = "sorting" /\ sweep.left # <<>> /\ Head(sweep.left) \in Readable

RecoversNone(p) == FALSE  \* mutation: a refusal's prefix is never removed

\* A file behind a refusal's prefix loses it, when it has no stamp and its original
\* name is free.
Recovers(p) == /\ p[1] = "trapped"
               /\ dir[p].stamp = "none"
               /\ dir[<<"plain", p[2]>>] = NoFile

Sort ==
  /\ Listed
  /\ LET p == Head(sweep.left)
         q == <<"plain", p[2]>>
         considered == p[1] = "plain" \/ Recovers(p)
     IN  /\ dir' = IF Recovers(p) THEN [dir EXCEPT ![q] = dir[p], ![p] = NoFile] ELSE dir
         /\ sweep' = [sweep EXCEPT
              !.left = Tail(@),
              !.todo = IF considered /\ dir[p].stamp = "none" THEN Append(@, q) ELSE @,
              !.refused = IF considered /\ dir[p].stamp = "bad" THEN @ \union {p[2]} ELSE @]
  /\ UNCHANGED <<leaseVars, vouch, trail, incidents, mishaps>>

\* Candidates beyond the cap are deferred to the next sweep; the time is read.
Sorted ==
  /\ sweep.stage = "sorting" /\ sweep.left = <<>>
  /\ sweep' = [sweep EXCEPT !.stage = "checking", !.moment = clock,
                            !.todo = SubSeq(@, 1, IF Len(@) < Cap THEN Len(@) ELSE Cap)]
  /\ UNCHANGED <<leaseVars, dir, vouch, trail, incidents, mishaps>>

\* The next candidate, which is read again, and must still be there; past the guard, a LEASE line is looked
\* up in a lease that can be read.
Candidate ==
  /\ sweep.stage = "checking" /\ sweep.todo # <<>> /\ Head(sweep.todo) \in Readable
  /\ LET text == dir[Head(sweep.todo)] IN
     RequireLease /\ text.body # "reserved" /\ text.lease # 0 => lease # Torn

MayStampByBody(text, now) == text.body # "reserved"  \* mutation: the lease is not looked at

\* The guard on its kind, then the lease.
MayStamp(text, now) == /\ text.body # "reserved"
                       /\ RequireLease => UnderActiveLease(text, now)

\* The candidate is read, and refused or kept to be stamped.
Check ==
  /\ Candidate
  /\ LET p == Head(sweep.todo) IN
     sweep' = IF MayStamp(dir[p], sweep.moment)
                THEN [sweep EXCEPT !.stage = "stamping", !.text = dir[p]]
                ELSE [sweep EXCEPT !.todo = Tail(@), !.refused = @ \union {p[2]}]
  /\ UNCHANGED <<leaseVars, dir, vouch, trail, incidents, mishaps>>

StampReread ==  \* mutation: the file is read again for its signature
  /\ sweep.stage = "stamping"
  /\ Head(sweep.todo) \in Readable
  /\ LET p == Head(sweep.todo) IN
     /\ dir' = [dir EXCEPT ![p].stamp = "auto"]
     /\ sweep' = [sweep EXCEPT !.stage = "checking", !.text = NoFile,
                               !.todo = Tail(@), !.signed = @ \union {p[2]}]
  /\ UNCHANGED <<leaseVars, vouch, trail, incidents, mishaps>>

\* What was read is written back with its stamp, whatever is there by now.
Stamp ==
  /\ sweep.stage = "stamping"
  /\ LET p == Head(sweep.todo) IN
     /\ dir' = [dir EXCEPT ![p] = [sweep.text EXCEPT !.stamp = "auto"]]
     /\ sweep' = [sweep EXCEPT !.stage = "checking", !.text = NoFile,
                               !.todo = Tail(@), !.signed = @ \union {p[2]}]
  /\ UNCHANGED <<leaseVars, vouch, trail, incidents, mishaps>>

Signed ==
  /\ sweep.stage = "checking" /\ sweep.todo = <<>>
  /\ sweep' = [sweep EXCEPT !.stage = "recording"]
  /\ UNCHANGED <<leaseVars, dir, vouch, trail, incidents, mishaps>>

\* record_incidents, if there are any: what is on record is read, where a record that
\* does not parse is one incident of its own; then the record is opened for writing.
RecordIncidents ==
  /\ sweep.stage = "recording"
  /\ IF sweep.refused = {}
       THEN sweep' = [sweep EXCEPT !.stage = "reporting"] /\ UNCHANGED incidents
       ELSE /\ sweep' = [sweep EXCEPT !.stage = "rewriting", !.refused = incidents \union @]
            /\ incidents' = {Malformed}
  /\ UNCHANGED <<leaseVars, dir, vouch, trail, mishaps>>

RewriteIncidents ==
  /\ sweep.stage = "rewriting"
  /\ incidents' = sweep.refused
  /\ sweep' = [sweep EXCEPT !.stage = "reporting"]
  /\ UNCHANGED <<leaseVars, dir, vouch, trail, mishaps>>

WriteTrail ==
  /\ sweep.stage = "reporting"
  /\ trail' = trail \union sweep.signed
  /\ sweep' = NoSweep
  /\ UNCHANGED <<leaseVars, dir, vouch, incidents, mishaps>>

\* The sweep ends with an exception, at a file that is gone or does not decode, or a
\* lease that is torn.
SweepRaises ==
  /\ \/ sweep.stage = "sorting" /\ sweep.left # <<>> /\ ~Listed
     \/ sweep.stage = "checking" /\ sweep.todo # <<>> /\ ~Candidate
  /\ sweep' = NoSweep
  /\ UNCHANGED <<leaseVars, dir, vouch, trail, incidents, mishaps>>

\* The sweep is killed, perhaps in the middle of writing back a candidate.
SweepKilled ==
  /\ sweep.stage # "idle"
  /\ \/ UNCHANGED dir
     \/ sweep.stage = "stamping" /\ dir' = [dir EXCEPT ![Head(sweep.todo)] = Lost]
  /\ sweep' = NoSweep
  /\ Mishap
  /\ UNCHANGED <<leaseVars, vouch, trail, incidents>>

-----------------------------------------------------------------------------
(* The founder's batch, batch_sign.                                        *)

\* Every unstamped file is listed, whatever its name; all files are read for that.
Vouch ==
  /\ vouch = [p \in Path |-> NoFile]
  /\ Present \subseteq Readable
  /\ Unstamped # {}
  /\ vouch' = [p \in Path |-> IF p \in Unstamped THEN dir[p] ELSE NoFile]
  /\ Mishap
  /\ UNCHANGED <<leaseVars, dir, sweep, trail, incidents>>

\* In the order of the names, each of them that is still there is read again and
\* stamped, whatever it has become.
VouchStamp(p) ==
  /\ vouch[p] # NoFile
  /\ p \in Present => p \in Readable
  /\ \A q \in Path : vouch[q] # NoFile => ~Before(q, p)
  /\ dir' = IF p \in Present THEN [dir EXCEPT ![p].stamp = "founder"] ELSE dir
  /\ vouch' = [vouch EXCEPT ![p] = NoFile]
  /\ UNCHANGED <<leaseVars, sweep, trail, incidents, mishaps>>

\* The founder declines, or the command ends before its last file, as it does at one
\* that does not decode.
VouchEnds ==
  /\ \E p \in Path : vouch[p] # NoFile
  /\ vouch' = [p \in Path |-> NoFile]
  /\ UNCHANGED <<leaseVars, dir, sweep, trail, incidents, mishaps>>

-----------------------------------------------------------------------------
Sweeping ==
  \/ SweepBegin \/ Sort \/ Sorted \/ Check \/ Stamp \/ Signed
  \/ RecordIncidents \/ RewriteIncidents \/ WriteTrail \/ SweepRaises

LeaseStep == LeaseNext /\ UNCHANGED <<dir, sweep, vouch, trail, incidents, mishaps>>

Next ==
  \/ LeaseStep
  \/ \E s \in Surface, f \in File : Issue(s, f)
  \/ \E p \in Path : Edit(p) \/ VouchStamp(p)
  \/ \E f \in File : SeatRefuses(f)
  \/ Sweeping \/ SweepKilled \/ Vouch \/ VouchEnds

Spec == Init /\ [][Next]_vars

\* The timer starts a sweep again and again, and a sweep that has begun goes on.
FairSpec == Spec /\ WF_vars(Sweeping)

-----------------------------------------------------------------------------
(* Safety.                                                                 *)

AutoStamped == {p \in Present : dir[p].stamp = "auto"}

\* "Being genuine is not being authorised": what the signer's stamp is on is a text that
\* the guard let pass, also when the file was edited or renamed during the sweep.
StampIsOnWork == \A p \in AutoStamped : dir[p].body # "reserved"

\* A takeover is final: once an assignment of a later lease has been stamped, none of an
\* earlier lease is, so the work of two orchestrators is never interleaved.
AloneTakeoverIsFinal ==
  [][RequireLease /\ ~overlap =>
       \A p \in AutoStamped', q \in AutoStamped :
         p \notin AutoStamped => dir'[p].lease >= dir[q].lease]_vars

(* Liveness.                                                               *)

Unanswered(f) == <<"plain", f>> \in Unstamped \/ <<"trapped", f>> \in Unstamped

Stamped(f) == \E p \in Present : p[2] = f /\ dir[p].stamp # "none"

\* Refused candidates come first in every sweep, and they fill it.
RefusalsFillTheCap ==
  Cardinality({p \in Unstamped : dir[p].body = "reserved"}) >= Cap

\* A file that does not decode ends every sweep before anything is stamped, and so does,
\* for what carries a LEASE line, a lease that does not parse.
SweepsEnd == Present \ Readable # {} \/ (RequireLease /\ lease = Torn)

\* An assignment that waits for a stamp gets one, or an incident on record, some day:
\* also one deferred by the cap, one a seat renamed ("a state nothing in the fleet could
\* leave"), and one whose sweep was killed.  The exceptions are a directory where from
\* some time on refusals alone fill the cap, or a file that is read ends every sweep.
EveryAssignmentAnswered ==
  \A f \in File :
    Unanswered(f) ~>
      (Stamped(f) \/ f \in incidents \/ [](RefusalsFillTheCap \/ SweepsEnd))

-----------------------------------------------------------------------------
(* What the repository says of this code and the code does not do.         *)

\* "The founder sees exactly what he vouches for before anything is signed": the batch
\* stamps the texts that were listed.
VouchedAsListed ==
  [][\A p \in Path :
       vouch[p] # NoFile /\ vouch'[p] = NoFile /\ dir'[p] # dir[p] =>
         dir'[p].body = vouch[p].body]_vars

\* "Every signature recorded locally and on Drive": with no sweep in progress, every
\* stamp of the signer is in its trail.
SignaturesRecorded ==
  sweep.stage = "idle" => \A p \in AutoStamped : p[2] \in trail

\* "deferred to the next sweep": what the cap left over is answered some day.
DeferredToLaterSweep ==
  \A f \in File : Unanswered(f) ~> (Stamped(f) \/ f \in incidents)

\* "Work the founder directs from his phone stops silently stalling": one file that does
\* not decode holds nothing up but itself.
OneFileHoldsUpItself ==
  \A f \in File :
    Unanswered(f) ~>
      \/ Stamped(f) \/ f \in incidents \/ RefusalsFillTheCap
      \/ \E p \in Present \ Readable : p[2] = f

\* "Never drops an unresolved one": what is on record as an incident stays there.
OnRecord == incidents \union (IF sweep.stage = "rewriting" THEN sweep.refused ELSE {})

IncidentsKept == [][OnRecord \subseteq OnRecord']_vars
====
