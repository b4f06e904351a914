------------------------------ MODULE KeyRing ------------------------------
(***************************************************************************)
(* inbox_auth.py: the keyrings of the fleet's machines, their rotation, the *)
(* sign and verify commands, and the switch that says whether an unstamped *)
(* file may be acted upon.  A keyring is the list of its entries in the    *)
(* source in effect, a secret is its key id.  A text is the first stamp    *)
(* line it holds, whether that line matches the rest, and whether there is *)
(* another one below it.                                                   *)
(***************************************************************************)
EXTENDS Naturals, SequencesExt

CONSTANTS
  Machine,      \* machines that hold a keyring
  Signer,       \* the one that signs
  Key, FirstKey, \* key ids, and the one every machine starts with
  Document,     \* files of the instruction channel
  MaxEntries,   \* bound on the entries of a keyring
  Unstamped, NoDocument

ASSUME SignerIsMachine == Signer \in Machine
ASSUME FirstKeyIsKey == FirstKey \in Key /\ Unstamped \notin Key
ASSUME NoDocumentIsNone == NoDocument \notin Document

VARIABLES
  ring,       \* entries of each machine's keyring, in listed order
  text,       \* the live files
  job, loaded, subject, verdict,  \* each machine's command, the ring it loaded, its file, its verdict
  declared,   \* the mode that the registry of each machine's checkout was last made to declare
  registry,   \* what a reader finds there
  strayed     \* history: a rotation step came too early

keyVars == <<ring, text, job, loaded, subject, verdict, declared, registry, strayed>>
command == <<job, loaded, subject, verdict>>

\* A registry without the row counts as tolerant.  "none" is a registry that is missing
\* or declares neither mode: every reader raises.
Modes == {"tolerant", "enforcing"}
NoText == [stamp |-> Unstamped, good |-> FALSE, more |-> FALSE, live |-> FALSE]
Texts == [stamp : Key \union {Unstamped}, good : BOOLEAN, more : BOOLEAN, live : BOOLEAN]
Verdicts == {"unjudged", "no stamp", "unknown key", "altered", "authentic"}

KeyTypeOK ==
  /\ ring \in [Machine -> Seq(Key)] /\ loaded \in [Machine -> Seq(Key)]
  /\ text \in [Document -> Texts]
  /\ job \in [Machine -> {"idle", "sign", "judged"}]
  /\ subject \in [Machine -> Document \union {NoDocument}]
  /\ verdict \in [Machine -> Verdicts]
  /\ declared \in [Machine -> Modes]
  /\ registry \in [Machine -> Modes \union {"none", "torn"}]
  /\ strayed \in BOOLEAN

KeyInit ==
  /\ ring = [m \in Machine |-> <<FirstKey>>]
  /\ loaded = [m \in Machine |-> <<>>]
  /\ text = [d \in Document |-> NoText]
  /\ job = [m \in Machine |-> "idle"]
  /\ subject = [m \in Machine |-> NoDocument]
  /\ verdict = [m \in Machine |-> "unjudged"]
  /\ declared = [m \in Machine |-> "tolerant"] /\ registry = declared
  /\ strayed = FALSE

-----------------------------------------------------------------------------
(* Keys: an entry listed again keeps the place of its first listing.        *)

Holds(entries) == ToSet(entries)

FirstPlace(entries, k) == SelectInSeq(entries, LAMBDA e : e = k)

SigningKey(entries) ==
  CHOOSE k \in Holds(entries) : \A e \in Holds(entries) : FirstPlace(entries, e) <= FirstPlace(entries, k)

\* _canonical_body drops the first stamp line only: signing a text that has two
\* leaves the second one in the body, where every reader meets it first.
SignedText(t, k) ==
  [t EXCEPT !.stamp = IF t.more THEN @ ELSE k, !.good = ~t.more]

\* Mutant of VerdictOn: only the signing key verifies.
VerdictOnSigning(t, entries) ==
  CASE t.stamp = Unstamped -> "no stamp"
    [] t.stamp # Unstamped /\ t.stamp # SigningKey(entries) -> "unknown key"
    [] t.stamp = SigningKey(entries) /\ ~t.good -> "altered"
    [] OTHER -> "authentic"

VerdictOn(t, entries) ==
  CASE t.stamp = Unstamped -> "no stamp"
    [] t.stamp # Unstamped /\ t.stamp \notin Holds(entries) -> "unknown key"
    [] t.stamp \in Holds(entries) /\ ~t.good -> "altered"
    [] OTHER -> "authentic"

\* Mutant of ShouldAct: a registry that is not found is a fleet not switched on.
ShouldActUnfound(m, v) ==
  v = "authentic" \/ (v = "no stamp" /\ registry[m] \in {"tolerant", "torn", "none"})

\* The command asks the registry of the checkout it was installed from.  An unstamped
\* text is acted upon unless that one is enforcing; a registry that does not parse
\* counts as tolerant, and without one nothing is acted upon.
ShouldAct(m, v) ==
  /\ registry[m] # "none"
  /\ v = "authentic" \/ (v = "no stamp" /\ registry[m] # "enforcing")

-----------------------------------------------------------------------------
(* The commands.  Each loads its keyring first, and raises without one; the *)
(* signing ones keep what they loaded while they go from file to file.      *)

Load(m) ==
  /\ m = Signer /\ job[m] = "idle"
  /\ ring[m] # <<>>
  /\ loaded' = [loaded EXCEPT ![m] = ring[m]]
  /\ job' = [job EXCEPT ![m] = "sign"]
  /\ UNCHANGED <<ring, text, subject, verdict, declared, registry, strayed>>

\* The sign command, or one stamp of a sweep or of the founder's batch.
Sign(m, d) ==
  /\ job[m] = "sign"
  /\ text[d].live
  /\ text' = [text EXCEPT ![d] = SignedText(@, SigningKey(loaded[m]))]
  /\ UNCHANGED <<ring, command, declared, registry, strayed>>

Verify(m, d) ==
  /\ job[m] = "idle"
  /\ ring[m] # <<>>
  /\ text[d].live
  /\ verdict' = [verdict EXCEPT ![m] = VerdictOn(text[d], ring[m])]
  /\ subject' = [subject EXCEPT ![m] = d]
  /\ job' = [job EXCEPT ![m] = "judged"]
  /\ UNCHANGED <<ring, text, loaded, declared, registry, strayed>>

Finish(m) ==
  /\ job' = [job EXCEPT ![m] = "idle"]
  /\ loaded' = [loaded EXCEPT ![m] = <<>>]
  /\ subject' = [subject EXCEPT ![m] = NoDocument]
  /\ verdict' = [verdict EXCEPT ![m] = "unjudged"]
  /\ UNCHANGED <<ring, declared, registry, strayed>>

\* The exit code is 0 and the seat takes the file.
Act(m) ==
  /\ job[m] = "judged"
  /\ ShouldAct(m, verdict[m])
  /\ text' = [text EXCEPT ![subject[m]] = NoText]
  /\ Finish(m)

\* Refused, or the end of a signing command.
Leave(m) ==
  /\ job[m] = "sign" \/ (job[m] = "judged" /\ ~ShouldAct(m, verdict[m]))
  /\ UNCHANGED text
  /\ Finish(m)

-----------------------------------------------------------------------------
(* The founder: rotation on every machine, and the registry of each.         *)

Rotating == [m \in Machine |-> IF job[m] = "sign" THEN Holds(loaded[m]) ELSE {}]

\* Step 1: the new key is appended.  It is early on the signer while a machine
\* lacks it.
AppendKey(m, k) ==
  /\ Len(ring[m]) < MaxEntries
  /\ ring' = [ring EXCEPT ![m] = Append(@, k)]
  /\ strayed' = (strayed \/ (m = Signer /\ \E n \in Machine \ {m} : k \notin Holds(ring[n])))
  /\ UNCHANGED <<text, command, declared, registry>>

\* Step 4: the line of the old key is deleted.  It is early when that was its last
\* line while a live file carries the key, or the signer or a signing command under way
\* could still use it.
RetireKey(m, i) ==
  /\ i \in DOMAIN ring[m]
  /\ ring' = [ring EXCEPT ![m] = RemoveAt(@, i)]
  /\ LET k == ring[m][i] IN
     strayed' = (strayed \/ /\ k \notin Holds(ring'[m])
                            /\ \/ \E d \in Document : text[d].stamp = k
                               \/ m # Signer /\ k \in Holds(ring[Signer])
                               \/ k \in Rotating[Signer])
  /\ UNCHANGED <<text, command, declared, registry>>

\* The founder edits the registry of his checkout, and every other machine pulls when
\* it does: one checkout at a time gets a registry that declares a mode, and a reader
\* may find it half-written, not there, or with a value that is no mode.
Declare(m, mode) ==
  /\ registry[m] # "torn"
  /\ declared' = [declared EXCEPT ![m] = mode]
  /\ \E found \in {"torn", "none"} : registry' = [registry EXCEPT ![m] = found]
  /\ UNCHANGED <<ring, text, command, strayed>>

Restored(m) ==
  /\ registry[m] # declared[m]
  /\ registry' = [registry EXCEPT ![m] = declared[m]]
  /\ UNCHANGED <<ring, text, command, declared, strayed>>

\* A file is issued, edited, or pasted together with an old stamp line.
IssueText(d) ==
  /\ ~text[d].live
  /\ text' = [text EXCEPT ![d] = [NoText EXCEPT !.live = TRUE]]
  /\ UNCHANGED <<ring, command, declared, registry, strayed>>

Changed(t, paste) == [t EXCEPT !.good = FALSE, !.more = t.more \/ (paste /\ t.stamp # Unstamped)]

EditText(d, paste) ==
  /\ text[d].live
  /\ text' = [text EXCEPT ![d] = Changed(@, paste)]
  /\ UNCHANGED <<ring, command, declared, registry, strayed>>

KeyNext ==
  \/ \E m \in Machine : Load(m) \/ Act(m) \/ Leave(m)
  \/ \E m \in Machine, d \in Document : Sign(m, d) \/ Verify(m, d)
  \/ \E m \in Machine : \/ \E k \in Key : AppendKey(m, k)
                        \/ \E i \in DOMAIN ring[m] : RetireKey(m, i)
  \/ \E m \in Machine, mode \in Modes : Declare(m, mode)
  \/ \E m \in Machine : Restored(m)
  \/ \E d \in Document : IssueText(d) \/ \E paste \in BOOLEAN : EditText(d, paste)

KeySpec == KeyInit /\ [][KeyNext]_keyVars

-----------------------------------------------------------------------------
(* Properties.                                                              *)

\* Rotation in its order refuses nothing: with the new key everywhere before the
\* signer has it, and the old one kept until no file and no signer needs it, every
\* machine verifies every text that was signed and left alone.
RotationRefusesNothing ==
  ~strayed => \A d \in Document, m \in Machine :
                text[d].good => VerdictOn(text[d], ring[m]) = "authentic"

\* From the moment a machine's own checkout is switched to enforcing, that machine acts
\* on no text that does not verify, whatever it judged or loaded before the switch; only
\* a registry caught half-written lets one through.
Takes(m) == job[m] = "judged" /\ job'[m] = "idle" /\ text' # text
EnforcingHolds ==
  [][\A m \in Machine : Takes(m) =>
       \/ verdict[m] = "authentic"
       \/ verdict[m] = "no stamp" /\ (declared[m] # "enforcing" \/ registry[m] = "torn")]_keyVars

\* "The registry that cannot be found fails closed", and one that is being written?
EnforcingNeverLapses ==
  [][\A m \in Machine : Takes(m) => verdict[m] = "authentic" \/ declared[m] # "enforcing"]_keyVars

\* "The answer to 'is the fleet enforcing' must not depend on which folder the question
\* was asked from": when one machine's checkout says so, no machine acts on a text that
\* does not verify.  One that has not pulled does.
FleetEnforces ==
  [][\A m, n \in Machine : Takes(m) => verdict[m] = "authentic" \/ declared[n] # "enforcing" \/ registry[m] = "torn"]_keyVars

\* "THE LAST ENTRY IS THE SIGNING KEY."
LastEntrySigns == \A m \in Machine : ring[m] # <<>> => SigningKey(ring[m]) = Last(ring[m])

\* "replacing any old one": a text that has been signed verifies.
SignedVerifies ==
  \A m \in Machine, d \in Document :
    job[m] = "sign" => VerdictOn(SignedText(text[d], SigningKey(loaded[m])), loaded[m]) = "authentic"
=============================================================================
