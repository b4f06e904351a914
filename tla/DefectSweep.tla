---------------------------- MODULE DefectSweep ----------------------------
(***************************************************************************)
(* defect_sweep.py and standing_question.py: the sweep over the register   *)
(* of defect classes.  It reads the register, runs each declared test,     *)
(* which may take ten minutes, writes the whole register back with what it *)
(* observed, and appends a record with its answer to the standing question. *)
(* People edit the register and the tree meanwhile.                        *)
(***************************************************************************)
EXTENDS Naturals, FiniteSets

CONSTANTS
  Class,       \* defect classes
  Test,        \* enforcement tests
  NoTest,      \* a class without one
  MaxEdits     \* bound on the edits of the register

ASSUME NoTestIsNone == NoTest \notin Test

VARIABLES
  register,   \* the classes listed, their declared test and last observation
  onDisk,     \* the tests that exist, and how each would end now
  phase,      \* where the sweep is
  copy,       \* the register as it read it
  observed,   \* the classes observed so far
  answer,     \* the answer in the last record
  edits,      \* edits so far
  overtaken   \* history: the register was edited since the sweep read it

sweepVars == <<register, onDisk, phase, copy, observed, answer, edits, overtaken>>

Unswept == "unswept"
TestResults == {"green", "red", "garbled"}
Observations == TestResults \union {"no test", "gone"}
ClassRows == [test : Test \union {NoTest}, last : Observations \union {Unswept}]
\* A register is a function from the classes it lists to their rows.
Registers == UNION {[listed -> ClassRows] : listed \in SUBSET Class}
NoAnswer == [kind |-> "none", classes |-> {}]
Empty == [c \in {} |-> [test |-> NoTest, last |-> Unswept]]

SweepTypeOK ==
  /\ register \in Registers /\ copy \in Registers
  /\ onDisk \in [Test -> TestResults \union {"gone", "raises"}]
  /\ phase \in {"idle", "running", "written"}
  /\ observed \in UNION {[seen -> Observations] : seen \in SUBSET Class}
  /\ answer.kind \in {"none", "KNOWN_CLASS", "WATCH", "NO_MATCH"} /\ answer.classes \subseteq Class
  /\ edits \in 0 .. MaxEdits
  /\ overtaken \in BOOLEAN

SweepInit ==
  /\ register = Empty /\ copy = Empty
  /\ onDisk \in [Test -> {"green", "gone"}]
  /\ phase = "idle"
  /\ observed = [c \in {} |-> "gone"]
  /\ answer = NoAnswer
  /\ edits = 0 /\ overtaken = FALSE

-----------------------------------------------------------------------------
ReadRegister ==
  /\ phase = "idle"
  /\ copy' = register
  /\ observed' = [c \in {} |-> "gone"]
  /\ phase' = "running"
  /\ overtaken' = FALSE
  /\ UNCHANGED <<register, onDisk, answer, edits>>

\* parse_runner_summary calls green only what says so.
Observation(test) == IF test = NoTest THEN "no test" ELSE onDisk[test]

Observe(c) ==
  /\ phase = "running"
  /\ c \in DOMAIN copy \ DOMAIN observed
  /\ Observation(copy[c].test) # "raises"
  /\ observed' = [d \in DOMAIN observed \union {c} |->
                    IF d = c THEN Observation(copy[c].test) ELSE observed[d]]
  /\ UNCHANGED <<register, onDisk, phase, copy, answer, edits, overtaken>>

\* A test that runs out of time raises: nothing is written.
TimesOut(c) ==
  /\ phase = "running"
  /\ c \in DOMAIN copy \ DOMAIN observed
  /\ Observation(copy[c].test) = "raises"
  /\ phase' = "idle"
  /\ UNCHANGED <<register, onDisk, copy, observed, answer, edits, overtaken>>

\* Mutant of WithObservations: what was declared is rebuilt from what was found.
WithObservationsFound(rows, found) ==
  [c \in {d \in DOMAIN rows : found[d] # "gone"} |-> [rows[c] EXCEPT !.last = found[c]]]

WithObservations(rows, found) ==
  [c \in DOMAIN rows |-> [rows[c] EXCEPT !.last = found[c]]]

WriteRegister ==
  /\ phase = "running"
  /\ DOMAIN observed = DOMAIN copy
  /\ register' = IF WithObservations(copy, observed) = copy THEN register
                 ELSE WithObservations(copy, observed)
  /\ phase' = "written"
  /\ UNCHANGED <<onDisk, copy, observed, answer, edits, overtaken>>

Found(what) == {c \in DOMAIN observed : observed[c] = what}

\* standing_answer, built through PassAnswer, which refuses an empty one.
StandingAnswer ==
  CASE Found("red") # {} -> [kind |-> "KNOWN_CLASS", classes |-> Found("red")]
    [] Found("red") = {} /\ Found("garbled") # {} -> [kind |-> "WATCH", classes |-> Found("garbled")]
    [] OTHER -> [kind |-> "NO_MATCH", classes |-> DOMAIN observed]

AppendRecord ==
  /\ phase = "written"
  /\ answer' = StandingAnswer
  /\ phase' = "idle"
  /\ UNCHANGED <<register, onDisk, copy, observed, edits, overtaken>>

SweepKilled ==
  /\ phase # "idle"
  /\ phase' = "idle"
  /\ UNCHANGED <<register, onDisk, copy, observed, answer, edits, overtaken>>

\* People declare classes and change their tests, and work on the tree.
EditRegister(c, test) ==
  /\ edits < MaxEdits
  /\ edits' = edits + 1
  /\ register' = [d \in DOMAIN register \union {c} |->
                    IF d # c THEN register[d]
                    ELSE [test |-> test, last |-> IF c \in DOMAIN register THEN register[c].last ELSE Unswept]]
  /\ overtaken' = (overtaken \/ phase = "running")
  /\ UNCHANGED <<onDisk, phase, copy, observed, answer>>

EditTree(t, result) ==
  /\ onDisk' = [onDisk EXCEPT ![t] = result]
  /\ UNCHANGED <<register, phase, copy, observed, answer, edits, overtaken>>

SweepNext ==
  \/ ReadRegister
  \/ \E c \in Class : Observe(c) \/ TimesOut(c)
  \/ WriteRegister \/ AppendRecord \/ SweepKilled
  \/ \E c \in Class, test \in Test \union {NoTest} : EditRegister(c, test)
  \/ \E t \in Test, result \in TestResults \union {"gone", "raises"} : EditTree(t, result)

SweepSpec == SweepInit /\ [][SweepNext]_sweepVars

-----------------------------------------------------------------------------
(* Properties.                                                              *)

\* "Never fixes: declarations are written back byte-identical": a sweep takes no class
\* and no declared test away, unless somebody edited the register while it ran.
Declares(rows, c) == IF c \in DOMAIN rows THEN rows[c].test ELSE "undeclared"
SweepKeepsDeclarations ==
  [][phase = "running" /\ phase' = "written" /\ ~overtaken =>
       \A c \in Class : Declares(register', c) = Declares(register, c)]_sweepVars

\* The same without the exception: the edit that a sweep overtakes is lost.
SweepLosesNoEdit ==
  [][phase = "running" /\ phase' = "written" =>
       \A c \in Class : Declares(register', c) = Declares(register, c)]_sweepVars

\* "NO_MATCH must list the rules that were actually checked": classes whose test is
\* gone or was never declared are listed too.
NoMatchWasChecked ==
  [][phase = "written" /\ answer'.kind = "NO_MATCH" => answer'.classes \subseteq Found("green")]_sweepVars
=============================================================================
