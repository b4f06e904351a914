------------------------------ MODULE FleetLaw ------------------------------
(***************************************************************************)
(* fleet_law.py: which file of the reports folder is the law a seat boots  *)
(* from.  The folder is synchronised: an upload may land under a duplicate *)
(* name and before its content, a file may be renamed late or not open for *)
(* a while, and reports cite the law they booted from.                     *)
(***************************************************************************)
EXTENDS Naturals, FiniteSets

CONSTANTS
  Version,     \* LAW-VERSIONs, published in increasing order
  Seat,
  NoVersion

ASSUME VersionsAreNumbers == Version \subseteq Nat /\ NoVersion \notin Version

VARIABLES
  folder,      \* the .md files of the reports folder
  published,   \* the versions uploaded
  booted       \* the version each seat reads as the law

lawVars == <<folder, published, booted>>

\* A name is the law's, the law's with a duplicate suffix, one that carries a retired
\* prefix, or another one; the version is what the head of the file mentions, and a
\* file is legible when it opens and that head is there.
LawFileNames == {"SEAT-BOOT", "SEAT-BOOT (n)", "SUPERSEDED-", "other"}
LawFiles == [name : LawFileNames, version : Version, legible : BOOLEAN]

LawTypeOK ==
  /\ folder \subseteq LawFiles
  /\ published \subseteq Version
  /\ booted \in [Seat -> Version \union {NoVersion}]

LawInit ==
  /\ folder = {} /\ published = {}
  /\ booted = [s \in Seat |-> NoVersion]

LawNames == {"SEAT-BOOT", "SEAT-BOOT (n)"}

\* Mutant of Candidates: a file is the law when it mentions a version.
CandidatesByContent == {f \in folder : f.name # "SUPERSEDED-" /\ f.legible}

\* _declared_version has no answer for a file that does not open or whose head says
\* no version yet: such a file is passed over like any other.
Candidates == {f \in folder : f.name \in LawNames /\ f.legible}

\* The files that people take for the law, whether or not they can be read now.
LawNamed == {f \in folder : f.name \in LawNames}

-----------------------------------------------------------------------------
\* An upload lands under the law's name, or under a duplicate one when that is taken,
\* whole or with its head still to come.
Upload(v, whole) ==
  /\ \A u \in published : u < v
  /\ published' = published \union {v}
  /\ folder' = folder \union
       {[name |-> IF \E f \in folder : f.name = "SEAT-BOOT" THEN "SEAT-BOOT (n)" ELSE "SEAT-BOOT",
         version |-> v, legible |-> whole]}
  /\ UNCHANGED booted

\* An upload is completed, or a file does not open for a while.
Sync(f) ==
  /\ f \in LawNamed
  /\ folder' = (folder \ {f}) \union {[f EXCEPT !.legible = ~@]}
  /\ UNCHANGED <<published, booted>>

\* The predecessor is renamed, before or after its successor arrives.
Supersede(f) ==
  /\ f \in LawNamed
  /\ LawNamed = {f} \/ \E g \in LawNamed : g.version > f.version
  /\ folder' = (folder \ {f}) \union {[f EXCEPT !.name = "SUPERSEDED-"]}
  /\ UNCHANGED <<published, booted>>

\* A seat reports, and cites the law it booted from.
Report(s) ==
  /\ booted[s] # NoVersion
  /\ folder' = folder \union {[name |-> "other", version |-> booted[s], legible |-> TRUE]}
  /\ UNCHANGED <<published, booted>>

\* resolve_law: exactly one candidate, or no answer.
Boot(s) ==
  /\ booted' = [booted EXCEPT ![s] =
       IF Cardinality(Candidates) = 1 THEN (CHOOSE f \in Candidates : TRUE).version ELSE NoVersion]
  /\ UNCHANGED <<folder, published>>

LawNext ==
  \/ \E v \in Version, whole \in BOOLEAN : Upload(v, whole)
  \/ \E f \in folder : Supersede(f) \/ Sync(f)
  \/ \E s \in Seat : Report(s) \/ Boot(s)

LawSpec == LawInit /\ [][LawNext]_lawVars

-----------------------------------------------------------------------------
(* Properties.                                                              *)

\* Whatever order uploads and renames come in, and however many reports cite an older
\* law meanwhile, a seat that gets an answer gets the newest version uploaded, unless
\* a newer law stands in the folder and could not be read at that moment.
UnreadFrom(v) == \E f \in LawNamed \ Candidates : f.version >= v
LawIsNewest ==
  [][\A s \in Seat : booted'[s] # booted[s] /\ booted'[s] # NoVersion
        => \A v \in published : v <= booted'[s] \/ UnreadFrom(v)]_lawVars

\* "A seat that boots on the wrong law is worse off than a seat that refuses to boot":
\* the same without the exception.  A law-named file that cannot be read is not taken
\* for an ambiguity, so an older law still in the folder is the answer.
UnreadLawRefuses ==
  [][\A s \in Seat : booted'[s] # booted[s] /\ booted'[s] # NoVersion
        => \A v \in published : v <= booted'[s]]_lawVars
=============================================================================
