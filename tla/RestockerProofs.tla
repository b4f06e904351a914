---- MODULE RestockerProofs ----
(***************************************************************************)
(* What the journal and the looks into INBOX and DONE guarantee, for any   *)
(* number of reports, items, seats and assignments, and wherever passes    *)
(* end.                                                                    *)
(***************************************************************************)
EXTENDS Restocker, TLAPS

\* The fields of a pass that the proofs are about.
Fields == {"stage", "state", "todo", "source", "item", "seats"} \subseteq DOMAIN pass

LEMMA NoPassFields ==
  {"stage", "state", "todo", "source", "item", "seats"} \subseteq DOMAIN NoPass /\ NoPass.stage = "idle"
BY DEF NoPass

\* What the marker records of the reports; which items are consumed is no matter.
Journaled(m) ==
  /\ {"processed", "inflight", "digest", "consumed"} \subseteq DOMAIN m
  /\ m.processed \in [Report -> Content \union {None}]
  /\ m.inflight \in Report \union {None}
  /\ m.digest \in Content \union {None}

-----------------------------------------------------------------------------
(* The journal.                                                            *)

Handling == {"reading", "finding", "moving", "committing"}
Parking == {"parking", "appending"}
Issuing == {"idleness", "inbox", "done", "issuing", "filling"}

\* A pass settles the report in flight, or it parks the backlog and issues with none in
\* flight; between two reports the one in flight is still to come.
JournalInv ==
  /\ Journaled(marker)
  /\ report \in [Report -> Content \union {None}]
  /\ acted \in [Report -> SUBSET {"moved", "parked"}]
  /\ Fields
  /\ pass.stage \in Stage
  /\ JournalCovers
  /\ pass.stage # "idle" =>
       /\ Journaled(pass.state)
       /\ pass.state.processed = marker.processed
       /\ pass.state.inflight = marker.inflight
       /\ pass.state.digest = marker.digest
  /\ pass.stage \in Handling => marker.inflight \in Report /\ marker.digest # None
  /\ pass.stage \in Parking =>
       \/ pass.source = BacklogLine /\ marker.inflight = None
       \/ pass.source = marker.inflight /\ marker.inflight \in Report /\ marker.digest # None
  /\ pass.stage = "next" /\ marker.inflight # None => marker.inflight \in pass.todo
  /\ pass.stage \in Issuing => marker.inflight = None

LEMMA JournalInit == Init => JournalInv
BY RestockAssumption, NoPassFields
   DEF Init, JournalInv, Fields, JournalCovers, NoMarker, Journaled, Stage, Handling, Parking, Issuing

\* What others do does not concern it.
LEMMA JournalOthers ==
  ASSUME JournalInv,
         \/ \E r \in Report : SeatReports(r) \/ ReportChanges(r)
         \/ \E f \in File : Issued(f) \/ SeatMoves(f)
         \/ OtherAppends \/ NewBacklog
  PROVE  JournalInv'
<1>1. UNCHANGED <<marker, pass, acted>>
  BY DEF SeatReports, ReportChanges, Issued, SeatMoves, OtherAppends, NewBacklog, Others
<1>2. report' \in [Report -> Content \union {None}]
  BY DEF SeatReports, ReportChanges, Issued, SeatMoves, OtherAppends, NewBacklog, JournalInv
<1> QED
  BY <1>1, <1>2 DEF JournalInv, Fields, JournalCovers

\* A pass handles reports one at a time.
LEMMA JournalReports ==
  ASSUME JournalInv,
         Begin \/ Journal \/ ParseAndVerify \/ Find \/ Move \/ ReadQueue \/ AppendLine \/ Commit
  PROVE  JournalInv'
<1> USE RestockAssumption DEF Stage, Handling, Parking, Issuing, Fields
<1>1. CASE Begin
  <2>1. /\ pass'.stage = "next" /\ pass'.state = marker /\ pass'.todo = Candidates
        /\ Fields'
        /\ UNCHANGED <<marker, report, acted>>
    BY <1>1 DEF Begin, NoPass, world
  <2>2. marker.inflight # None => marker.inflight \in Candidates
    BY <1>1 DEF Begin, Unchanged
  <2> QED
    BY <2>1, <2>2 DEF JournalInv, JournalCovers
<1>2. CASE Journal
  <2>1. PICK r \in Report :
          /\ Turn(r) /\ report[r] # None
          /\ marker' = [pass.state EXCEPT !.inflight = r, !.digest = report[r]]
    BY <1>2 DEF Journal
  <2>2. /\ pass'.stage = "reading" /\ pass'.state = marker' /\ Fields'
        /\ UNCHANGED <<report, acted>> /\ pass.stage = "next"
    BY <1>2 DEF Journal, JournalInv, world
  <2>3. /\ Journaled(marker') /\ marker'.processed = marker.processed
        /\ marker'.inflight = r /\ marker'.digest # None
    BY <2>1, <2>2 DEF JournalInv, Journaled
  <2>4. marker.inflight # None => r = marker.inflight
    BY <2>1, <2>2 DEF Turn, JournalInv
  <2>5. JournalCovers'
    BY <2>2, <2>3, <2>4 DEF JournalInv, JournalCovers
  <2> QED
    BY <2>2, <2>3, <2>5 DEF JournalInv
<1>3. CASE ParseAndVerify \/ Find
  <2>1. /\ pass'.stage \in {"finding", "parking", "moving"} /\ pass'.state = pass.state /\ Fields'
        /\ UNCHANGED <<report, acted, marker>> /\ pass.stage \in {"reading", "finding"}
        /\ pass'.stage = "parking" => pass'.source = pass.state.inflight
    <3>1. CASE ParseAndVerify
      BY <3>1 DEF ParseAndVerify, InHand, JournalInv, world
    <3>2. CASE Find
      BY <3>2 DEF Find, JournalInv, world
    <3> QED
      BY <1>3, <3>1, <3>2
  <2> QED
    BY <2>1 DEF JournalInv, JournalCovers, Stage, Handling, Parking, Issuing
<1>4. CASE Move
  <2>1. /\ pass.stage = "moving" /\ UNCHANGED <<report, marker>> /\ Fields'
        /\ UNCHANGED <<pass.state, pass.todo>>
        /\ \/ pass'.stage = "committing"
           \/ pass'.stage = "parking" /\ pass'.source = InHand
    BY <1>4 DEF Move, Park, JournalInv
  <2>2. \/ UNCHANGED acted
        \/ acted' = [acted EXCEPT ![InHand] = @ \union {"moved"}]
    BY <1>4 DEF Move
  <2> QED
    BY <2>1, <2>2 DEF JournalInv, JournalCovers, InHand
<1>5. CASE ReadQueue
  BY <1>5 DEF ReadQueue, JournalInv, JournalCovers, world
<1>6. CASE AppendLine
  <2>1. /\ pass.stage = "appending" /\ UNCHANGED <<report, marker>> /\ Fields'
        /\ UNCHANGED <<pass.state, pass.todo, pass.source>>
        /\ pass'.stage = IF pass.source = BacklogLine THEN "idleness" ELSE "committing"
        /\ acted' = IF pass.source \in Report
                      THEN [acted EXCEPT ![pass.source] = @ \union {"parked"}] ELSE acted
    BY <1>6 DEF AppendLine, JournalInv
  <2> QED
    BY <2>1 DEF JournalInv, JournalCovers
<1>7. CASE Commit
  <2>1. /\ pass.stage = "committing" /\ UNCHANGED <<report, acted>> /\ Fields'
        /\ pass'.stage = "next" /\ pass'.state = marker'
        /\ marker' = [pass.state EXCEPT !.processed[InHand] = pass.state.digest,
                                        !.inflight = None, !.digest = None]
    BY <1>7 DEF Commit, JournalInv, world
  <2>2. /\ Journaled(marker') /\ marker'.inflight = None
        /\ marker'.processed = [marker.processed EXCEPT ![marker.inflight] = marker.digest]
    BY <2>1 DEF JournalInv, InHand, Journaled
  <2>3. JournalCovers'
    BY <2>1, <2>2 DEF JournalInv, JournalCovers, Journaled
  <2> QED
    BY <2>1, <2>2, <2>3 DEF JournalInv
<1> QED
  BY <1>1, <1>2, <1>3, <1>4, <1>5, <1>6, <1>7

\* A pass issues with no report in flight.
LEMMA JournalBacklog ==
  ASSUME JournalInv,
         Restock \/ LookForSeat \/ LookInInbox \/ LookInDone \/ Open \/ Fill \/ End \/ Raises \/ Killed
  PROVE  JournalInv'
<1> USE RestockAssumption DEF Stage, Handling, Parking, Issuing, Fields
<1>1. CASE Restock
  <2>1. /\ pass.stage = "next" /\ pass.todo = {} /\ UNCHANGED <<report, marker, acted>> /\ Fields'
        /\ UNCHANGED pass.state
        /\ pass'.source = BacklogLine /\ pass'.stage \in {"parking", "idleness"}
    BY <1>1 DEF Restock, JournalInv, world
  <2> QED
    BY <2>1 DEF JournalInv, JournalCovers
<1>2. ASSUME NEW consumed, NextSeat(consumed), pass.stage \in Issuing,
             UNCHANGED <<report, marker, acted>>
      PROVE  JournalInv'
  <2>1. /\ pass'.stage = "idleness" /\ Fields'
        /\ pass'.state = [pass.state EXCEPT !.consumed = consumed]
    BY <1>2 DEF NextSeat, JournalInv, Journaled
  <2> QED
    BY <1>2, <2>1 DEF JournalInv, JournalCovers, Journaled
<1>3. ASSUME NEW stage \in Issuing, NEW item, Consider(stage, item), pass.stage \in Issuing,
             UNCHANGED <<report, marker, acted>>
      PROVE  JournalInv'
  <2>1. pass'.stage = stage /\ Fields' /\ UNCHANGED pass.state
    BY <1>3 DEF Consider, JournalInv
  <2> QED
    BY <1>3, <2>1 DEF JournalInv, JournalCovers
<1>4. CASE LookForSeat
  <2>1. \/ \E item : Consider("inbox", item)
        \/ NextSeat(pass.state.consumed)
    BY <1>4 DEF LookForSeat
  <2>2. pass.stage \in Issuing /\ UNCHANGED <<report, marker, acted>>
    BY <1>4 DEF LookForSeat, world
  <2> QED
    BY <1>2, <1>3, <2>1, <2>2
<1>5. CASE LookInInbox \/ LookInDone
  <2>1. CASE \E stage \in Issuing : Consider(stage, pass.item)
    BY <1>3, <1>5, <2>1 DEF LookInInbox, LookInDone, world
  <2>2. CASE NextSeat(pass.state.consumed \union {pass.item})
    BY <1>5, <1>2, <2>2 DEF LookInInbox, LookInDone, world
  <2> QED
    BY <1>5, <2>1, <2>2 DEF LookInInbox, LookInDone
<1>6. CASE Open
  <2>1. /\ pass'.stage = "filling" /\ Fields' /\ UNCHANGED pass.state
        /\ pass.stage = "issuing" /\ UNCHANGED <<report, marker, acted>>
    BY <1>6 DEF Open, JournalInv
  <2> QED
    BY <2>1 DEF JournalInv, JournalCovers
<1>7. CASE Fill
  BY <1>7, <1>2 DEF Fill
<1>8. CASE End
  <2>1. /\ pass' = NoPass /\ marker' = pass.state /\ UNCHANGED <<report, acted>>
        /\ pass.stage = "idleness"
    BY <1>8 DEF End, world
  <2> QED
    BY <2>1, NoPassFields DEF JournalInv, JournalCovers
<1>9. CASE Raises \/ Killed
  <2>1. pass' = NoPass /\ UNCHANGED <<report, marker, acted>>
    BY <1>9 DEF Raises, Killed, world
  <2> QED
    BY <2>1, NoPassFields DEF JournalInv, JournalCovers
<1> QED
  BY <1>1, <1>4, <1>5, <1>6, <1>7, <1>8, <1>9

LEMMA JournalStep == JournalInv /\ [Next]_vars => JournalInv'
<1>1. ASSUME JournalInv, UNCHANGED vars
      PROVE  JournalInv'
  BY <1>1 DEF vars, world, JournalInv, JournalCovers, Fields
<1> QED
  BY <1>1, JournalOthers, JournalReports, JournalBacklog DEF Next, Passing

\* "A crash resumes the inflight item before later work": whatever a pass has done about a
\* report is on record, or is about the one report in flight.
THEOREM JournalCorrect == Spec => []JournalCovers
<1>1. JournalInv => JournalCovers
  BY DEF JournalInv
<1> QED
  BY <1>1, JournalInit, JournalStep, PTL DEF Spec

-----------------------------------------------------------------------------
(* Issuing.                                                                *)

\* An item that was issued is in one of the directories ever after, and a pass that looks
\* through them, in that order, meets it.
IssueInv ==
  /\ issues \in [Item -> Nat]
  /\ Fields
  /\ IssuedOnce
  /\ \A i \in Item : issues[i] > 0 => About(inbox \union done, i) # {}
  /\ \A i \in Item : issues[i] > 0 /\ pass.stage = "done" /\ pass.item = i => About(done, i) # {}
  /\ \A i \in Item : pass.stage = "issuing" /\ pass.item = i => issues[i] = 0

LEMMA IssueInit == Init => IssueInv
BY NoPassFields DEF Init, IssueInv, Fields, IssuedOnce

\* What leaves INBOX arrives in DONE, and nothing leaves DONE.
LEMMA FilesStay ==
  ASSUME [Next]_vars
  PROVE  inbox \subseteq inbox' \union done' /\ done \subseteq done'
<1>1. CASE \E r \in Report : SeatReports(r) \/ ReportChanges(r)
  BY <1>1 DEF SeatReports, ReportChanges
<1>2. CASE \E f \in File : Issued(f) \/ SeatMoves(f)
  BY <1>2 DEF Issued, SeatMoves
<1>3. CASE OtherAppends \/ NewBacklog
  BY <1>3 DEF OtherAppends, NewBacklog
<1>4. CASE Begin \/ Journal \/ ParseAndVerify \/ Find \/ ReadQueue \/ AppendLine \/ Commit
  BY <1>4 DEF Begin, Journal, ParseAndVerify, Find, ReadQueue, AppendLine, Commit, world
<1>5. CASE Move
  BY <1>5 DEF Move
<1>6. CASE Restock \/ LookForSeat \/ LookInInbox \/ LookInDone \/ End \/ Raises \/ Killed
  BY <1>6 DEF Restock, LookForSeat, LookInInbox, LookInDone, End, Raises, Killed, world
<1>7. CASE Open \/ Fill
  BY <1>7 DEF Open, Fill
<1>8. CASE UNCHANGED vars
  BY <1>8 DEF vars, world
<1> QED
  BY <1>1, <1>2, <1>3, <1>4, <1>5, <1>6, <1>7, <1>8 DEF Next, Passing

LEMMA AboutStay ==
  ASSUME [Next]_vars, NEW i
  PROVE  /\ About(inbox \union done, i) # {} => About(inbox \union done, i)' # {}
         /\ About(done, i) # {} => About(done, i)' # {}
BY FilesStay DEF About

\* Steps that neither issue nor come to the look into DONE or beyond it.
LEMMA IssueElsewhere ==
  ASSUME IssueInv, [Next]_vars, UNCHANGED issues, Fields',
         pass'.stage \in {"done", "issuing"} => UNCHANGED <<pass.stage, pass.item>>
  PROVE  IssueInv'
BY AboutStay DEF IssueInv, IssuedOnce

LEMMA IssueStep == IssueInv /\ [Next]_vars => IssueInv'
<1> SUFFICES ASSUME IssueInv, [Next]_vars PROVE IssueInv'
  OBVIOUS
<1>1. CASE UNCHANGED <<pass, issues>>
  BY <1>1, IssueElsewhere DEF IssueInv, Fields
<1>2. CASE Begin \/ Journal \/ ParseAndVerify \/ Find \/ ReadQueue \/ AppendLine \/ Commit
  <2>1. UNCHANGED issues /\ Fields' /\ pass'.stage \notin {"done", "issuing"}
    BY <1>2, NoPassFields
       DEF Begin, Journal, ParseAndVerify, Find, ReadQueue, AppendLine, Commit, NoPass, IssueInv, Fields
  <2> QED
    BY <2>1, IssueElsewhere
<1>3. CASE Move
  <2>1. UNCHANGED issues /\ Fields' /\ pass'.stage \notin {"done", "issuing"}
    BY <1>3 DEF Move, Park, IssueInv, Fields
  <2> QED
    BY <2>1, IssueElsewhere
<1>4. CASE Restock \/ LookForSeat \/ Fill
  <2>1. UNCHANGED issues /\ Fields' /\ pass'.stage \notin {"done", "issuing"}
    BY <1>4 DEF Restock, LookForSeat, Fill, Consider, NextSeat, IssueInv, Fields
  <2> QED
    BY <2>1, IssueElsewhere
<1>5. CASE LookInInbox
  <2>1. CASE Consider("done", pass.item) /\ About(inbox, pass.item) = {}
    <3>1. /\ UNCHANGED <<issues, inbox, done>> /\ Fields' /\ pass'.stage = "done"
          /\ pass'.item = pass.item
      BY <1>5, <2>1 DEF LookInInbox, Consider, IssueInv, Fields, world
    <3>2. ASSUME NEW i \in Item, issues[i] > 0, pass.item = i
          PROVE  About(done, i) # {}
      BY <2>1, <3>2 DEF IssueInv, About
    <3> QED
      BY <3>1, <3>2 DEF IssueInv, IssuedOnce, About
  <2>2. CASE NextSeat(pass.state.consumed \union {pass.item})
    <3>1. UNCHANGED issues /\ Fields' /\ pass'.stage \notin {"done", "issuing"}
      BY <1>5, <2>2 DEF LookInInbox, NextSeat, IssueInv, Fields
    <3> QED
      BY <3>1, IssueElsewhere
  <2> QED
    BY <1>5, <2>1, <2>2 DEF LookInInbox
<1>6. CASE LookInDone
  <2>1. CASE Consider("issuing", pass.item) /\ About(done, pass.item) = {}
    <3>1. /\ UNCHANGED <<issues, inbox, done>> /\ Fields' /\ pass'.stage = "issuing"
          /\ pass'.item = pass.item /\ pass.stage = "done"
      BY <1>6, <2>1 DEF LookInDone, Consider, IssueInv, Fields, world
    <3>2. ASSUME NEW i \in Item, pass.item = i
          PROVE  issues[i] = 0
      BY <2>1, <3>1, <3>2 DEF IssueInv
    <3> QED
      BY <3>1, <3>2 DEF IssueInv, IssuedOnce, About
  <2>2. CASE NextSeat(pass.state.consumed \union {pass.item})
    <3>1. UNCHANGED issues /\ Fields' /\ pass'.stage \notin {"done", "issuing"}
      BY <1>6, <2>2 DEF LookInDone, NextSeat, IssueInv, Fields
    <3> QED
      BY <3>1, IssueElsewhere
  <2> QED
    BY <1>6, <2>1, <2>2 DEF LookInDone
<1>7. CASE Open
  <2>1. PICK n \in Stamp : inbox' = inbox \union {<<pass.item, n>>}
    BY <1>7 DEF Open
  <2>2. /\ issues' = [issues EXCEPT ![pass.item] = @ + 1]
        /\ pass.stage = "issuing" /\ pass'.stage = "filling" /\ Fields'
    BY <1>7 DEF Open, IssueInv, Fields
  <2>3. ASSUME NEW i \in Item
        PROVE  issues'[i] = IF i = pass.item THEN 1 ELSE issues[i]
    BY <2>2, <2>3 DEF IssueInv
  <2>4. IssuedOnce' /\ issues' \in [Item -> Nat]
    <3>1. DOMAIN issues' = Item /\ issues' = [i \in Item |-> issues'[i]]
      BY <2>2 DEF IssueInv
    <3>2. \A i \in Item : issues'[i] \in Nat /\ issues'[i] <= 1
      BY <2>3 DEF IssueInv, IssuedOnce
    <3> QED
      BY <3>1, <3>2 DEF IssuedOnce
  <2>5. ASSUME NEW i \in Item, issues'[i] > 0
        PROVE  About(inbox \union done, i)' # {}
    <3>1. CASE i = pass.item
      <4>1. ItemOf(<<pass.item, n>>) = i
        BY <3>1 DEF ItemOf
      <4>2. <<pass.item, n>> \in inbox' \union done'
        BY <2>1
      <4> QED
        BY <4>1, <4>2 DEF About
    <3>2. CASE i # pass.item
      BY <3>2, <2>3, <2>5, AboutStay DEF IssueInv
    <3> QED
      BY <3>1, <3>2
  <2> QED
    BY <2>2, <2>4, <2>5 DEF IssueInv
<1>8. CASE End \/ Raises \/ Killed
  <2>1. UNCHANGED issues /\ Fields' /\ pass'.stage \notin {"done", "issuing"}
    BY <1>8, NoPassFields DEF End, Raises, Killed, Fields
  <2> QED
    BY <2>1, IssueElsewhere
<1>9. CASE \/ \E r \in Report : SeatReports(r) \/ ReportChanges(r)
           \/ \E f \in File : Issued(f) \/ SeatMoves(f)
           \/ OtherAppends \/ NewBacklog
           \/ UNCHANGED vars
  BY <1>1, <1>9 DEF SeatReports, ReportChanges, Issued, SeatMoves, OtherAppends, NewBacklog, Others, vars
<1> QED
  BY <1>2, <1>3, <1>4, <1>5, <1>6, <1>7, <1>8, <1>9 DEF Next, Passing

\* An item is issued once, although its consumption is recorded only at the end of a pass.
THEOREM IssuedOnceHolds == Spec => []IssuedOnce
<1>1. IssueInv => IssuedOnce
  BY DEF IssueInv
<1> QED
  BY <1>1, IssueInit, IssueStep, PTL DEF Spec
====
