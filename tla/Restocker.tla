---- MODULE Restocker ----
(***************************************************************************)
(* The restocker (infrastructure/chat_auto_restock.py): a pass that a      *)
(* timer starts settles the seats' finished reports, one by one and in the *)
(* order of their names, and then issues backlog items to idle seats.  A   *)
(* report is settled by moving its assignment from INBOX to DONE, or by a  *)
(* line in the founder's queue; a marker file journals the report in       *)
(* hand and records the ones settled, each with its digest.                *)
(*                                                                         *)
(* Passes exclude each other by a lock that the system releases when a     *)
(* pass dies, so there is one pass at a time.  Seats, orchestrators and    *)
(* people change reports, INBOX, DONE and the queue while it runs, and it  *)
(* may end at any step.  Markers and the queue are replaced atomically;    *)
(* an assignment is written in place.  A digest is taken of any bytes, but *)
(* a report, a backlog or a queue that is not UTF-8 cannot be read: that   *)
(* is no reason to park, it ends the pass.                                 *)
(***************************************************************************)
EXTENDS Naturals, FiniteSets, Sequences, SequencesExt

CONSTANTS
  Item,         \* what assignments are about; a report is about one of them
  SeatOf,       \* the seat of each item
  Seats,        \* the configured seats, in their order
  Pool,         \* the approved items of the backlog, in their order
  MaxReports,   \* bound on the reports written
  ClaimOf,      \* the item that each report is about
  Content,      \* what a report may contain; its digest
  Finished,     \* the contents that parse as a finished report
  Undecodable,  \* the contents that are not UTF-8
  Stamp,        \* the stamps that tell apart the assignments about one item
  MaxMishaps,   \* bound on interruptions and on changes by others
  BacklogLine,  \* the line about a backlog that does not parse
  OtherLine,    \* a line that somebody else appends
  GarbledLine,  \* one that is not UTF-8
  None          \* no report, nothing in flight

Report == 1..MaxReports

\* The lines of the queue, whatever reason each of them gives: one about each report, one
\* about the backlog, and those that others append.
Line == Report \union {BacklogLine, OtherLine, GarbledLine}

File == Item \X Stamp
ItemOf(f) == f[1]
About(files, i) == {f \in files : ItemOf(f) = i}
ForSeat(files, s) == {f \in files : SeatOf[ItemOf(f)] = s}

ASSUME RestockAssumption ==
  /\ MaxReports \in Nat
  /\ MaxMishaps \in Nat
  /\ ClaimOf \in [Report -> Item]
  /\ Finished \subseteq Content \ Undecodable /\ Undecodable \subseteq Content
  /\ None \notin Content /\ None \notin Report /\ None \notin Item
  /\ BacklogLine \notin Report /\ OtherLine \notin Report \union {BacklogLine}
  /\ GarbledLine \notin Report \union {BacklogLine, OtherLine}
  /\ Seats \in Seq({SeatOf[i] : i \in Item})
  /\ Pool \in Seq(Item)

VARIABLES
  report,    \* the content of each report
  inbox,     \* the assignments in INBOX
  done,      \* the assignments in DONE
  torn,      \* the assignments whose text is not there
  queue,     \* the lines of FOUNDER-QUEUE.md
  pool,      \* the backlog file: none, one that parses, that does not, or that cannot be read
  marker,    \* CHAT-RESTOCK-MARKER.json
  pass,      \* the pass in progress, and what it holds in memory
  acted,     \* auxiliary: what each report has led to
  issues,    \* auxiliary: how often each item was issued by a pass
  mishaps    \* how many of the bounded mishaps have happened

world == <<report, inbox, done, torn, queue, pool>>
vars == <<world, marker, pass, acted, issues, mishaps>>

Marker == [processed : [Report -> Content \union {None}], inflight : Report \union {None},
           digest : Content \union {None}, consumed : SUBSET Item]

\* A fresh marker.
NoMarker == [processed |-> [r \in Report |-> None], inflight |-> None,
             digest |-> None, consumed |-> {}]

Stage == {"idle", "next", "reading", "finding", "moving", "parking", "appending", "committing",
          "idleness", "inbox", "done", "issuing", "filling"}

NoPass == [stage |-> "idle", state |-> NoMarker, todo |-> {}, found |-> {}, settled |-> {},
           lines |-> {}, source |-> OtherLine, seats |-> <<>>, item |-> None, file |-> None]

TypeOK ==
  /\ report \in [Report -> Content \union {None}]
  /\ inbox \subseteq File /\ done \subseteq File /\ torn \subseteq inbox \union done
  /\ queue \subseteq Line
  /\ pool \in {"none", "good", "bad", "garbled"}
  /\ marker \in Marker
  /\ pass.stage \in Stage
  /\ pass.state \in Marker
  /\ pass.todo \subseteq Report
  /\ pass.stage \in {"reading", "finding", "moving"} => pass.state.inflight \in Report
  /\ pass.found \subseteq File /\ pass.settled \subseteq File
  /\ pass.lines \subseteq Line /\ pass.source \in Line
  /\ pass.seats \in Seq({SeatOf[i] : i \in Item})
  /\ pass.stage \in {"inbox", "done", "issuing", "filling"} => pass.item \in Item
  /\ pass.stage = "filling" => pass.file \in File
  /\ acted \in [Report -> SUBSET {"moved", "parked"}]
  /\ issues \in [Item -> Nat]
  /\ mishaps \in 0..MaxMishaps

Init ==
  /\ report = [r \in Report |-> None]
  /\ inbox = {} /\ done = {} /\ torn = {}
  /\ queue = {}
  /\ pool \in {"none", "good", "bad"}
  /\ marker = NoMarker
  /\ pass = NoPass
  /\ acted = [r \in Report |-> {}]
  /\ issues = [i \in Item |-> 0]
  /\ mishaps = 0

Mishap == mishaps < MaxMishaps /\ mishaps' = mishaps + 1

-----------------------------------------------------------------------------
(* What others do.                                                         *)

Others == UNCHANGED <<marker, pass, acted, issues>>

\* A seat writes a report.
SeatReports(r) ==
  /\ report[r] = None
  /\ \E c \in Content : report' = [report EXCEPT ![r] = c]
  /\ Others /\ UNCHANGED <<inbox, done, torn, queue, pool, mishaps>>

\* A report is edited or removed.
ReportChanges(r) ==
  /\ report[r] # None
  /\ \E c \in (Content \union {None}) \ {report[r]} : report' = [report EXCEPT ![r] = c]
  /\ Mishap
  /\ Others /\ UNCHANGED <<inbox, done, torn, queue, pool>>

\* An orchestrator issues an assignment, or a synchronised drive brings one back.
Issued(f) ==
  /\ f \notin inbox
  /\ inbox' = inbox \union {f}
  /\ Mishap
  /\ Others /\ UNCHANGED <<report, done, torn, queue, pool>>

\* A seat moves its assignment to DONE itself.
SeatMoves(f) ==
  /\ f \in inbox
  /\ inbox' = inbox \ {f}
  /\ done' = done \union {f}
  /\ Others /\ UNCHANGED <<report, torn, queue, pool, mishaps>>

\* Another line goes onto the queue.
OtherAppends ==
  /\ \E line \in {OtherLine, GarbledLine} \ queue : queue' = queue \union {line}
  /\ Mishap
  /\ Others /\ UNCHANGED <<report, inbox, done, torn, pool>>

\* A newer backlog is published.
NewBacklog ==
  /\ pool' \in {"good", "bad", "garbled"} \ {pool}
  /\ Mishap
  /\ Others /\ UNCHANGED <<report, inbox, done, torn, queue>>

-----------------------------------------------------------------------------
(* A pass, run_locked: the reports.                                        *)

CandidatesAfterLast ==  \* mutation: only what sorts after the last one on record
  {r \in Report : report[r] # None /\ \A q \in Report : marker.processed[q] # None => q < r}

\* The candidates: what has no record.
Candidates == {r \in Report : report[r] # None /\ marker.processed[r] = None}

\* A report that differs from its record, or one in flight that is not as it was
\* journaled, stops every pass at its start.
Unchanged ==
  /\ \A r \in Report : report[r] # None => marker.processed[r] \in {None, report[r]}
  /\ marker.inflight # None =>
       marker.inflight \in Candidates /\ report[marker.inflight] = marker.digest

Begin ==
  /\ pass.stage = "idle"
  /\ Unchanged
  /\ pass' = [NoPass EXCEPT !.stage = "next", !.state = marker, !.todo = Candidates]
  /\ UNCHANGED <<world, marker, acted, issues, mishaps>>

TurnInOrder(r) ==  \* mutation: the report in flight waits for its turn
  r \in pass.todo /\ \A q \in pass.todo : r <= q

\* The report in flight goes first, then the others go in the order of their names.
Turn(r) ==
  /\ r \in pass.todo
  /\ IF pass.state.inflight = None THEN \A q \in pass.todo : r <= q ELSE r = pass.state.inflight

\* The next report is journaled before any side effect.
Journal ==
  /\ pass.stage = "next"
  /\ \E r \in Report :
       /\ Turn(r)
       /\ report[r] # None
       /\ marker' = [pass.state EXCEPT !.inflight = r, !.digest = report[r]]
  /\ pass' = [pass EXCEPT !.stage = "reading", !.state = marker']
  /\ UNCHANGED <<world, acted, issues, mishaps>>

\* The report in hand.
InHand == pass.state.inflight

\* parse_report and verify_claim: the report is read again, which raises if it does not
\* decode, and its commit looked up at its origin, which may not be reached or not have it.
ParseAndVerify ==
  /\ pass.stage = "reading"
  /\ report[InHand] \notin Undecodable \union {None}
  /\ \/ report[InHand] \in Finished /\ pass' = [pass EXCEPT !.stage = "finding"]
     \/ pass' = [pass EXCEPT !.stage = "parking", !.source = InHand]
  /\ UNCHANGED <<world, marker, acted, issues, mishaps>>

\* _find_assignment, in INBOX and in DONE.
Find ==
  /\ pass.stage = "finding"
  /\ LET i == ClaimOf[InHand] IN
     pass' = [pass EXCEPT !.stage = "moving", !.found = About(inbox, i), !.settled = About(done, i)]
  /\ UNCHANGED <<world, marker, acted, issues, mishaps>>

\* One assignment is found in INBOX, and no more than one in DONE.
Movable(f) == pass.found = {f} /\ \A g, h \in pass.settled : g = h

Park == pass' = [pass EXCEPT !.stage = "parking", !.source = InHand]

\* _move_assignment.  One that is found only in DONE has been moved before; with the same
\* name in DONE, its text decides.
Move ==
  /\ pass.stage = "moving"
  /\ \/ \E f \in inbox :
          /\ Movable(f)
          /\ inbox' = inbox \ {f}
          /\ done' = done \union {f}
          /\ acted' = [acted EXCEPT ![InHand] = @ \union {"moved"}]
          /\ pass' = [pass EXCEPT !.stage = "committing"]
     \/ /\ pass.found = {} /\ Cardinality(pass.settled) = 1
        /\ pass' = [pass EXCEPT !.stage = "committing"]
        /\ UNCHANGED <<inbox, done, acted>>
     \/ /\ \/ Cardinality(pass.found) > 1 \/ Cardinality(pass.settled) > 1
           \/ pass.found = {} /\ pass.settled = {}
           \/ \E f \in inbox \intersect done : Movable(f)
        /\ Park
        /\ UNCHANGED <<inbox, done, acted>>
  /\ UNCHANGED <<report, torn, queue, pool, marker, issues, mishaps>>

\* _append_founder_queue: the queue is read; a line that is there is not added again.
ReadQueue ==
  /\ pass.stage = "parking"
  /\ GarbledLine \notin queue
  /\ pass' = [pass EXCEPT
       !.lines = queue,
       !.stage = IF pass.source \notin queue THEN "appending"
                 ELSE IF pass.source = BacklogLine THEN "idleness" ELSE "committing"]
  /\ UNCHANGED <<world, marker, acted, issues, mishaps>>

\* It is replaced by what was read and the line.
AppendLine ==
  /\ pass.stage = "appending"
  /\ queue' = pass.lines \union {pass.source}
  /\ acted' = IF pass.source \in Report
                THEN [acted EXCEPT ![pass.source] = @ \union {"parked"}] ELSE acted
  /\ pass' = [pass EXCEPT !.stage = IF pass.source = BacklogLine THEN "idleness" ELSE "committing"]
  /\ UNCHANGED <<report, inbox, done, torn, pool, marker, issues, mishaps>>

\* The report is on record, and not in flight.
Commit ==
  /\ pass.stage = "committing"
  /\ marker' = [pass.state EXCEPT !.processed[InHand] = pass.state.digest,
                                  !.inflight = None, !.digest = None]
  /\ pass' = [pass EXCEPT !.stage = "next", !.state = marker', !.todo = @ \ {InHand}]
  /\ UNCHANGED <<world, acted, issues, mishaps>>

-----------------------------------------------------------------------------
(* A pass: the backlog, _restock.                                          *)

\* The seats are gone through if there is a backlog; one that does not parse is parked.
Restock ==
  /\ pass.stage = "next" /\ pass.todo = {}
  /\ pool # "garbled"
  /\ pass' = [pass EXCEPT
       !.stage = IF pool = "bad" THEN "parking" ELSE "idleness",
       !.source = BacklogLine,
       !.seats = IF pool = "good" THEN Seats ELSE <<>>]
  /\ UNCHANGED <<world, marker, acted, issues, mishaps>>

\* The items of a seat that it may still get, in their order.
Left(s, consumed) == SelectSeq(Pool, LAMBDA i : SeatOf[i] = s /\ i \notin consumed)

Consider(stage, item) == pass' = [pass EXCEPT !.stage = stage, !.item = item]
NextSeat(consumed) ==
  pass' = [pass EXCEPT !.stage = "idleness", !.state.consumed = consumed, !.seats = Tail(@)]

\* A seat with nothing in INBOX is considered for the first item left to it.
LookForSeat ==
  /\ pass.stage = "idleness" /\ pass.seats # <<>>
  /\ LET s == Head(pass.seats)
         left == Left(s, pass.state.consumed)
     IN  IF ForSeat(inbox, s) = {} /\ left # <<>>
           THEN Consider("inbox", Head(left))
           ELSE NextSeat(pass.state.consumed)
  /\ UNCHANGED <<world, marker, acted, issues, mishaps>>

\* An item that is in INBOX, or in DONE, is consumed.
LookInInbox ==
  /\ pass.stage = "inbox"
  /\ IF About(inbox, pass.item) = {}
       THEN Consider("done", pass.item)
       ELSE NextSeat(pass.state.consumed \union {pass.item})
  /\ UNCHANGED <<world, marker, acted, issues, mishaps>>

LookNowhereElse ==  \* mutation: DONE is not looked at
  /\ pass.stage = "done"
  /\ Consider("issuing", pass.item)
  /\ UNCHANGED <<world, marker, acted, issues, mishaps>>

LookInDoneOnly ==  \* mutation: an item found there is passed over and not consumed
  /\ pass.stage = "done"
  /\ IF About(done, pass.item) = {}
       THEN Consider("issuing", pass.item)
       ELSE NextSeat(pass.state.consumed)
  /\ UNCHANGED <<world, marker, acted, issues, mishaps>>

LookInDone ==
  /\ pass.stage = "done"
  /\ IF About(done, pass.item) = {}
       THEN Consider("issuing", pass.item)
       ELSE NextSeat(pass.state.consumed \union {pass.item})
  /\ UNCHANGED <<world, marker, acted, issues, mishaps>>

\* The assignment is opened for writing, then written.
Open ==
  /\ pass.stage = "issuing"
  /\ \E n \in Stamp :
       LET f == <<pass.item, n>> IN
       /\ inbox' = inbox \union {f}
       /\ torn' = torn \union {f}
       /\ pass' = [pass EXCEPT !.stage = "filling", !.file = f]
  /\ issues' = [issues EXCEPT ![pass.item] = @ + 1]
  /\ UNCHANGED <<report, done, queue, pool, marker, acted, mishaps>>

Fill ==
  /\ pass.stage = "filling"
  /\ torn' = torn \ {pass.file}
  /\ NextSeat(pass.state.consumed \union {pass.item})
  /\ UNCHANGED <<report, inbox, done, queue, pool, marker, acted, issues, mishaps>>

\* The marker is written, with the consumed items.
End ==
  /\ pass.stage = "idleness" /\ pass.seats = <<>>
  /\ marker' = pass.state
  /\ pass' = NoPass
  /\ UNCHANGED <<world, acted, issues, mishaps>>

\* A report that is gone, or an assignment that is, ends the pass, and so does what is
\* read and does not decode.  A report in hand stays in flight.
Raises ==
  /\ \/ pass.stage = "next" /\ \E r \in Report : Turn(r) /\ report[r] = None
     \/ pass.stage = "next" /\ pass.todo = {} /\ pool = "garbled"
     \/ pass.stage = "reading" /\ report[InHand] \in Undecodable \union {None}
     \/ pass.stage = "parking" /\ GarbledLine \in queue
     \/ pass.stage = "moving" /\ \E f \in pass.found \ inbox : Movable(f)
  /\ pass' = NoPass
  /\ UNCHANGED <<world, marker, acted, issues, mishaps>>

\* The pass is killed, or interrupted.
Killed ==
  /\ pass.stage # "idle"
  /\ pass' = NoPass
  /\ Mishap
  /\ UNCHANGED <<world, marker, acted, issues>>

Passing ==
  \/ Begin \/ Journal \/ ParseAndVerify \/ Find \/ Move \/ ReadQueue \/ AppendLine \/ Commit
  \/ Restock \/ LookForSeat \/ LookInInbox \/ LookInDone \/ Open \/ Fill \/ End \/ Raises

Next ==
  \/ \E r \in Report : SeatReports(r) \/ ReportChanges(r)
  \/ \E f \in File : Issued(f) \/ SeatMoves(f)
  \/ OtherAppends \/ NewBacklog
  \/ Passing \/ Killed

Spec == Init /\ [][Next]_vars

\* The timer starts a pass again and again, and a pass that has begun goes on.
FairSpec == Spec /\ WF_vars(Passing)

-----------------------------------------------------------------------------
(* Safety.                                                                 *)

\* "Before a side effect the engine journals one inflight report, a crash resumes the
\* inflight item before later work": wherever a pass ends, a report that has led to
\* something and is not on record is the one in flight, and there is only one.
JournalCovers ==
  \A r \in Report : acted[r] # {} /\ marker.processed[r] = None => marker.inflight = r

\* An item is issued once, although consumed items are recorded only at the end of a
\* pass that may never come to it, and seats move assignments from one of the
\* directories to the other while the pass looks through them.
IssuedOnce == \A i \in Item : issues[i] <= 1

(* Liveness.                                                               *)

\* "Changed processed/inflight content fails closed": every pass stops at its start.
Jammed ==
  \E r \in Report :
    \/ marker.processed[r] # None /\ report[r] \notin {None, marker.processed[r]}
    \/ marker.inflight = r /\ report[r] # marker.digest

\* The report in flight, which every pass takes up first, or the queue cannot be read.
Choked ==
  \/ \E r \in Report : marker.inflight = r /\ report[r] \in Undecodable
  \/ GarbledLine \in queue

\* A report is settled some day, whatever the order in which reports arrive and wherever
\* passes end.  What can keep it from that is a jam that nobody clears, or a file that
\* every pass ends at, this report's or another's.
EveryReportSettled ==
  \A r \in Report :
    report[r] # None ~> (marker.processed[r] # None \/ report[r] = None \/ [](Jammed \/ Choked))

Waiting(s) == pool = "good" /\ ForSeat(inbox, s) = {} /\ Left(s, marker.consumed) # <<>>

\* An idle seat with items left in the backlog does not stay so: it gets one, or they
\* turn out to be consumed, unless no pass comes to the backlog any more.
EveryIdleSeatRestocked ==
  \A s \in {Seats[k] : k \in DOMAIN Seats} : Waiting(s) ~> (~Waiting(s) \/ [](Jammed \/ Choked))

-----------------------------------------------------------------------------
(* What the repository says of this code and the code does not do.         *)

\* "Before a side effect the engine journals one inflight report with its SHA-256": what
\* is acted upon is what was journaled.
ActsOnJournaled ==
  [][pass.stage = "reading" /\ pass'.stage \in {"finding", "parking"} =>
       report[InHand] = marker.digest]_vars

\* "Any malformed, blocked, unverifiable or ambiguous report is parked": one that is not
\* UTF-8 does not hold the others up.
MalformedIsParked ==
  \A r \in Report :
    report[r] # None ~> (marker.processed[r] # None \/ report[r] = None \/ Jammed \/ GarbledLine \in queue)

\* "Any unverifiable report is parked; its INBOX file is untouched."
ParkedUntouched == \A r \in Report : acted[r] # {"moved", "parked"}

\* "A valid item expands into objective, scope, out-of-scope, report and stop sections":
\* between two passes every assignment has its text.
IssuedWhole == pass.stage = "idle" => torn = {}

\* "The rolling file from then on only grows and gets ticked."
QueueOnlyGrows == [][queue \subseteq queue']_vars
====
