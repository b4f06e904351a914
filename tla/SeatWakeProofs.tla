--------------------------- MODULE SeatWakeProofs ---------------------------
(***************************************************************************)
(* What a seat's wakes guarantee of claims, reports and DONE, for any      *)
(* number of wakes and of assignments, and wherever a wake is killed.      *)
(***************************************************************************)
EXTENDS SeatWake, WellFoundedInduction, TLAPS

\* A nonempty set of naturals has a least member.
LEMMA LeastMember ==
  ASSUME NEW S \in SUBSET Nat, S # {}
  PROVE  Min(S) \in S
<1>1. PICK m \in S : \A y \in S : ~ (<<y, m>> \in OpToRel(<, Nat))
  <2>1. IsWellFoundedOn(OpToRel(<, Nat), Nat)
    BY NatLessThanWellFounded
  <2> QED
    BY <2>1, WFMin
<1>2. \A y \in S : ~ (y < m)
  BY <1>1 DEF OpToRel
<1>3. \A y \in S : m <= y
  BY <1>2
<1> QED
  BY <1>3 DEF Min

\* The gate judges, and the engine claims, one of the files they look at.
LEMMA OldestIsOne ==
  ASSUME NEW files \in SUBSET File, files # {}
  PROVE  Oldest(files) \in files
<1>1. files \in SUBSET Nat /\ files \ renamed \in SUBSET Nat
  BY FilesAreOrdered
<1> QED
  BY <1>1, LeastMember DEF Oldest

-----------------------------------------------------------------------------
(* Types.                                                                   *)

LEMMA TypesBegin == Init => TypeOK
<1> SUFFICES ASSUME Init PROVE TypeOK
  OBVIOUS
<1>1. mishaps \in 0 .. MaxMishaps
  BY MishapsAreBounded DEF Init
<1>2. reports \in [File -> Nat]
  BY DEF Init
<1>3. /\ reported \in [Wake -> BOOLEAN] /\ lines \in [Wake -> SUBSET File]
      /\ overlapped \in BOOLEAN /\ lostCopy \in BOOLEAN
  BY DEF Init
<1>4. /\ inbox \subseteq File /\ done \subseteq File
      /\ stamped \subseteq File /\ young \subseteq File /\ renamed \subseteq File
      /\ claims \subseteq Claim
      /\ lock \in Wake \union {NoWake}
      /\ session \in File \union {NoFile}
      /\ target \in [Wake -> File \union {NoFile}]
      /\ own \in [Wake -> Claim \union {NoClaim}]
  BY DEF Init
<1>5. seen \in [Wake -> [files : SUBSET File, claims : SUBSET Claim]]
  BY DEF Init, Nothing
<1>6. /\ pc \in [Wake -> Place]
      /\ \A w \in Wake : pc[w] = "idle"
  BY DEF Init, Place
<1>7. \A w \in Wake : pc[w] \in {"relist", "renames", "publish", "report", "move"} => own[w] \in Claim
  BY <1>6
<1> QED
  BY <1>1, <1>2, <1>3, <1>4, <1>5, <1>6, <1>7 DEF TypeOK

\* What a wake leaves behind when it ends.
LEMMA ResetTypes ==
  ASSUME TypeOK, NEW w \in Wake, Reset(w)
  PROVE  /\ pc' \in [Wake -> Place]
         /\ target' \in [Wake -> File \union {NoFile}]
         /\ seen' \in [Wake -> [files : SUBSET File, claims : SUBSET Claim]]
         /\ own' \in [Wake -> Claim \union {NoClaim}]
         /\ \A v \in Wake : pc'[v] \in {"relist", "renames", "publish", "report", "move"} => own'[v] \in Claim
         /\ reported' \in [Wake -> BOOLEAN] /\ lines' \in [Wake -> SUBSET File]
BY DEF TypeOK, Reset, Nothing, Place, Holding, Gating

LEMMA ExitTypes ==
  ASSUME TypeOK, NEW w \in Wake, Exit(w)
  PROVE  /\ lock' \in Wake \union {NoWake}
         /\ pc' \in [Wake -> Place]
         /\ target' \in [Wake -> File \union {NoFile}]
         /\ seen' \in [Wake -> [files : SUBSET File, claims : SUBSET Claim]]
         /\ own' \in [Wake -> Claim \union {NoClaim}]
         /\ \A v \in Wake : pc'[v] \in {"relist", "renames", "publish", "report", "move"} => own'[v] \in Claim
         /\ reported' \in [Wake -> BOOLEAN] /\ lines' \in [Wake -> SUBSET File]
<1>1. lock' \in Wake \union {NoWake} /\ Reset(w)
  BY DEF Exit, Released, TypeOK
<1> QED
  BY <1>1, ResetTypes

\* A wake that goes to its next place with the same claim.
LEMMA StepTypes ==
  ASSUME TypeOK, NEW w \in Wake, NEW place \in Place, pc' = [pc EXCEPT ![w] = place],
         place \in {"relist", "renames", "publish", "report", "move"} => own[w] \in Claim, UNCHANGED own
  PROVE  /\ pc' \in [Wake -> Place]
         /\ \A v \in Wake : pc'[v] \in {"relist", "renames", "publish", "report", "move"} => own'[v] \in Claim
BY DEF TypeOK

LEMMA CopyTypes ==
  ASSUME TypeOK, NEW w, NEW copied \in BOOLEAN, Copies(w, copied)
  PROVE  overlapped' \in BOOLEAN /\ lostCopy' \in BOOLEAN /\ mishaps' \in 0 .. MaxMishaps
<1>1. mishaps' \in 0 .. MaxMishaps
  BY MishapsAreBounded DEF TypeOK, Copies, faults
<1>2. overlapped' \in BOOLEAN /\ lostCopy' \in BOOLEAN
  <2>1. CASE UNCHANGED faults
    BY <2>1 DEF TypeOK, faults
  <2>2. CASE lostCopy' = TRUE /\ UNCHANGED overlapped
    BY <2>2 DEF TypeOK
  <2> QED
    BY <2>1, <2>2 DEF Copies
<1> QED
  BY <1>1, <1>2

\* Every variable keeps its type.
LEMMA TypesGoOn == TypeOK /\ [Next]_vars => TypeOK'
<1> SUFFICES ASSUME TypeOK, [Next]_vars PROVE TypeOK'
  OBVIOUS
<1> USE DEF folder, faults, local
<1>0. /\ {"idle", "clear", "take", "list", "names", "relist", "renames", "stage", "engine", "publish", "report", "move"} = Place
      /\ \A w \in Wake : pc[w] \in Place
  BY DEF Place, Holding, Gating, TypeOK
<1>1. CASE FolderStep
  BY <1>1 DEF FolderStep, Issue, Sign, Age, Refuse, Recover, TypeOK
<1>2. CASE SessionStep
  <2>1. ASSUME NEW at \in Minute, SessionClaims(at) PROVE TypeOK'
    <3> DEFINE f == Oldest(inbox \intersect stamped)
    <3>1. f \in File
      <4>1. inbox \intersect stamped \in SUBSET File /\ inbox \intersect stamped # {}
        BY <2>1 DEF SessionClaims, TypeOK
      <4> QED
        BY <4>1, OldestIsOne
    <3>2. session' = f /\ claims' = claims \union {[file |-> f, at |-> at]}
      BY <2>1 DEF SessionClaims
    <3>3. overlapped' \in BOOLEAN
      BY <2>1 DEF SessionClaims, TypeOK
    <3> HIDE DEF f
    <3>4. claims' \subseteq Claim
      BY <3>1, <3>2 DEF Claim, TypeOK
    <3> QED
      BY <2>1, <3>1, <3>2, <3>3, <3>4 DEF SessionClaims, TypeOK
  <2>2. CASE SessionFinishes
    BY <2>2 DEF SessionFinishes, TypeOK
  <2> QED
    BY <1>2, <2>1, <2>2 DEF SessionStep
<1>3. ASSUME NEW w \in Wake, LockStep(w) PROVE TypeOK'
  <2>1. CASE CheckLock(w)
    BY <1>0, <2>1, StepTypes DEF CheckLock, TypeOK
  <2>2. CASE ClearLock(w)
    BY <1>0, <2>2, StepTypes DEF ClearLock, TypeOK
  <2>3. CASE TakeLock(w)
    <3>1. overlapped' \in BOOLEAN
      BY <2>3 DEF TakeLock, TypeOK
    <3> QED
      BY <1>0, <2>3, <3>1, StepTypes DEF TakeLock, TypeOK
  <2> QED
    BY <1>3, <2>1, <2>2, <2>3 DEF LockStep
<1>4. ASSUME NEW w \in Wake, ListInbox(w) PROVE TypeOK'
  <2>1. CASE Exit(w)
    BY <1>4, <2>1, ExitTypes DEF ListInbox, TypeOK
  <2>2. ASSUME ~Exit(w) PROVE TypeOK'
    <3> DEFINE place == IF pc[w] = "list" THEN "names" ELSE "renames"
    <3>1. /\ inbox # {} /\ pc[w] \in {"list", "relist"}
          /\ target' = [target EXCEPT ![w] = Oldest(inbox)]
          /\ pc' = [pc EXCEPT ![w] = place]
          /\ UNCHANGED <<lock, seen, own, reported, lines>>
      BY <1>4, <2>2 DEF ListInbox
    <3>2. Oldest(inbox) \in File
      BY <3>1, OldestIsOne DEF TypeOK
    <3>3. place \in Place /\ (place \in {"relist", "renames", "publish", "report", "move"} => own[w] \in Claim)
      BY <1>0, <3>1 DEF TypeOK
    <3> HIDE DEF place
    <3>4. /\ pc' \in [Wake -> Place]
          /\ \A v \in Wake : pc'[v] \in {"relist", "renames", "publish", "report", "move"} => own'[v] \in Claim
      BY <3>1, <3>3, StepTypes
    <3> QED
      BY <1>4, <3>1, <3>2, <3>4 DEF ListInbox, TypeOK
  <2> QED
    BY <2>1, <2>2
<1>5. ASSUME NEW w \in Wake, ReadNames(w) PROVE TypeOK'
  <2>1. CASE Others(w) # {}
    BY <1>5, <2>1, ExitTypes DEF ReadNames, TypeOK
  <2>2. CASE Others(w) = {}
    <3> DEFINE place == IF pc[w] = "names" THEN "stage" ELSE "publish"
    <3>1. /\ pc[w] \in {"names", "renames"}
          /\ pc' = [pc EXCEPT ![w] = place]
          /\ target' = [target EXCEPT ![w] = NoFile]
          /\ UNCHANGED <<lock, seen, own, reported, lines>>
      BY <1>5, <2>2 DEF ReadNames
    <3>2. place \in Place /\ (place \in {"relist", "renames", "publish", "report", "move"} => own[w] \in Claim)
      BY <1>0, <3>1 DEF TypeOK
    <3> HIDE DEF place
    <3>3. /\ pc' \in [Wake -> Place]
          /\ \A v \in Wake : pc'[v] \in {"relist", "renames", "publish", "report", "move"} => own'[v] \in Claim
      BY <3>1, <3>2, StepTypes
    <3> QED
      BY <1>5, <3>1, <3>3 DEF ReadNames, TypeOK
  <2> QED
    BY <2>1, <2>2
<1>6. ASSUME NEW w \in Wake, Unavailable(w) PROVE TypeOK'
  <2>1. mishaps' \in 0 .. MaxMishaps
    BY <1>6, MishapsAreBounded DEF Unavailable, TypeOK
  <2> QED
    BY <1>6, <2>1, ExitTypes DEF Unavailable, TypeOK
<1>7. ASSUME NEW w \in Wake, StageIn(w) PROVE TypeOK'
  <2>1. /\ pc' \in [Wake -> Place]
        /\ \A v \in Wake : pc'[v] \in {"relist", "renames", "publish", "report", "move"} => own'[v] \in Claim
    BY <1>0, <1>7, StepTypes DEF StageIn
  <2> QED
    BY <1>7, <2>1 DEF StageIn, TypeOK
<1>8. ASSUME NEW w \in Wake, Engine(w) PROVE TypeOK'
  <2>1. CASE EngineIdles(w)
    BY <2>1, ExitTypes DEF EngineIdles, TypeOK
  <2>2. ASSUME NEW at \in Minute, NEW reporting \in BOOLEAN, NEW moves \in SUBSET File, EngineClaims(w, at, reporting, moves) PROVE TypeOK'
    <3>1. Unclaimed(w) \in SUBSET File /\ Unclaimed(w) # {}
      BY <2>2 DEF EngineClaims, Unclaimed, TypeOK
    <3> DEFINE claim == [file |-> Oldest(Unclaimed(w)), at |-> at]
    <3>2. claim \in Claim
      BY <3>1, OldestIsOne DEF Claim
    <3>3. own' = [own EXCEPT ![w] = claim] /\ pc' = [pc EXCEPT ![w] = "relist"]
      BY <2>2 DEF EngineClaims
    <3>4. seen' \in [Wake -> [files : SUBSET File, claims : SUBSET Claim]]
      BY <2>2 DEF EngineClaims, Nothing, TypeOK
    <3> HIDE DEF claim
    <3> QED
      BY <1>0, <2>2, <3>2, <3>3, <3>4 DEF EngineClaims, TypeOK
  <2> QED
    BY <1>8, <2>1, <2>2 DEF Engine
<1>9. ASSUME NEW w \in Wake, Publishes(w) PROVE TypeOK'
  <2>1. ASSUME NEW copied \in BOOLEAN, PublishClaim(w, copied) PROVE TypeOK'
    <3> DEFINE place == IF reported[w] THEN "report" ELSE "move"
    <3>1. own[w] \in Claim /\ place \in Place
      BY <1>0, <2>1 DEF PublishClaim, TypeOK
    <3>2. pc' = [pc EXCEPT ![w] = place] /\ UNCHANGED own
      BY <2>1 DEF PublishClaim
    <3> HIDE DEF place
    <3>3. /\ pc' \in [Wake -> Place]
          /\ \A v \in Wake : pc'[v] \in {"relist", "renames", "publish", "report", "move"} => own'[v] \in Claim
      BY <3>1, <3>2, StepTypes
    <3>4. claims' \subseteq Claim
      BY <2>1, <3>1 DEF PublishClaim, TypeOK
    <3>5. overlapped' \in BOOLEAN /\ lostCopy' \in BOOLEAN /\ mishaps' \in 0 .. MaxMishaps
      BY <2>1, CopyTypes DEF PublishClaim
    <3> QED
      BY <2>1, <3>3, <3>4, <3>5 DEF PublishClaim, TypeOK
  <2>2. ASSUME NEW copied \in BOOLEAN, PublishReport(w, copied) PROVE TypeOK'
    <3>1. own[w] \in Claim
      BY <2>2 DEF PublishReport, TypeOK
    <3>2. /\ pc' \in [Wake -> Place]
          /\ \A v \in Wake : pc'[v] \in {"relist", "renames", "publish", "report", "move"} => own'[v] \in Claim
      BY <1>0, <2>2, <3>1, StepTypes DEF PublishReport
    <3>3. reports' \in [File -> Nat]
      <4>1. own[w].file \in File
        BY <3>1 DEF Claim
      <4>2. reports' = [reports EXCEPT ![own[w].file] = @ + 1] \/ reports' = reports
        BY <2>2 DEF PublishReport
      <4> QED
        BY <4>1, <4>2 DEF TypeOK
    <3>4. overlapped' \in BOOLEAN /\ lostCopy' \in BOOLEAN /\ mishaps' \in 0 .. MaxMishaps
      BY <2>2, CopyTypes DEF PublishReport
    <3>5. UNCHANGED <<inbox, done, stamped, young, renamed, claims, lock, session, target, seen, own, reported, lines>>
      BY <2>2 DEF PublishReport
    <3> QED
      BY <3>2, <3>3, <3>4, <3>5 DEF TypeOK
  <2> QED
    BY <1>9, <2>1, <2>2 DEF Publishes
<1>10. ASSUME NEW w \in Wake, MoveDone(w) PROVE TypeOK'
  <2>1. inbox' \subseteq File /\ done' \subseteq File
    BY <1>10 DEF MoveDone, TypeOK
  <2> QED
    BY <1>10, <2>1, ExitTypes DEF MoveDone, TypeOK
<1>11. ASSUME NEW w \in Wake, Kill(w) PROVE TypeOK'
  <2>1. mishaps' \in 0 .. MaxMishaps
    BY <1>11, MishapsAreBounded DEF Kill, TypeOK
  <2> QED
    BY <1>11, <2>1, ResetTypes DEF Kill, TypeOK
<1>12. CASE UNCHANGED vars
  BY <1>12 DEF vars, TypeOK
<1> QED
  BY <1>1, <1>2, <1>3, <1>4, <1>5, <1>6, <1>7, <1>8, <1>9, <1>10, <1>11, <1>12 DEF Next, WakeRuns

\* What wakes hold and leave in the folder keeps its type.
THEOREM WakeTypeCorrect == Spec => []TypeOK
BY TypesBegin, TypesGoOn, PTL DEF Spec

-----------------------------------------------------------------------------
(* DONE stands on reports.                                                  *)

\* A wake that is about to move its assignment has its report in the folder.
MovesReported ==
  \A w \in Wake : pc[w] = "move" /\ reported[w] => reports[own[w].file] > 0
ReportInv == ~lostCopy => MovesReported

\* Reports only accumulate, and a lost copy stays lost.
LEMMA ReportsGrow ==
  ASSUME TypeOK, [Next]_vars
  PROVE  /\ \A f \in File : reports'[f] >= reports[f]
         /\ lostCopy => lostCopy'
<1> USE DEF faults, folder, local
<1>1. CASE FolderStep
  BY <1>1 DEF FolderStep, Issue, Sign, Age, Refuse, Recover, TypeOK
<1>2. ASSUME NEW at \in Minute, SessionClaims(at)
      PROVE  UNCHANGED <<reports, lostCopy>>
  BY <1>2 DEF SessionClaims
<1>3. CASE SessionFinishes
  BY <1>3 DEF SessionFinishes, TypeOK
<1>4. ASSUME NEW w \in Wake, NEW copied \in BOOLEAN, PublishReport(w, copied)
      PROVE  /\ \A f \in File : reports'[f] >= reports[f]
             /\ lostCopy => lostCopy'
  <2>1. reports' = [reports EXCEPT ![own[w].file] = @ + 1] \/ reports' = reports
    BY <1>4 DEF PublishReport
  <2>2. lostCopy => lostCopy'
    BY <1>4 DEF PublishReport, Copies
  <2> QED
    BY <2>1, <2>2 DEF TypeOK
<1>5. ASSUME NEW w \in Wake, NEW copied \in BOOLEAN, PublishClaim(w, copied)
      PROVE  UNCHANGED reports /\ (lostCopy => lostCopy')
  BY <1>5 DEF PublishClaim, Copies
<1>6. ASSUME NEW w \in Wake, LockStep(w) \/ ListInbox(w) \/ ReadNames(w) \/ StageIn(w) \/ MoveDone(w)
      PROVE  UNCHANGED <<reports, lostCopy>>
  BY <1>6 DEF LockStep, CheckLock, ClearLock, TakeLock, ListInbox, ReadNames, StageIn, MoveDone
<1>7. ASSUME NEW w \in Wake, Engine(w) \/ Unavailable(w) \/ Kill(w)
      PROVE  UNCHANGED <<reports, lostCopy>>
  BY <1>7 DEF Engine, EngineIdles, EngineClaims, Unavailable, Kill
<1>8. CASE UNCHANGED vars
  BY <1>8 DEF vars, TypeOK
<1>9. UNCHANGED <<reports, lostCopy>> => /\ \A f \in File : reports'[f] >= reports[f]
                                         /\ lostCopy => lostCopy'
  BY DEF TypeOK
<1>10. UNCHANGED reports => \A f \in File : reports'[f] >= reports[f]
  BY DEF TypeOK
<1> QED
  BY <1>1, <1>2, <1>3, <1>4, <1>5, <1>6, <1>7, <1>8, <1>9, <1>10 DEF Next, SessionStep, WakeRuns, Publishes

\* What a step does to the wakes that are about to move what they reported on.
Moving(v) == pc[v] = "move" /\ reported[v]
Unmoved == \A v \in Wake : pc'[v] = "move" /\ reported'[v] => Moving(v) /\ own'[v] = own[v]

LEMMA UnmovedKeeps ==
  ASSUME TypeOK, TypeOK', ReportInv, [Next]_vars, Unmoved
  PROVE  ReportInv'
<1> SUFFICES ASSUME ~lostCopy', NEW v \in Wake, pc'[v] = "move", reported'[v]
             PROVE  reports'[own'[v].file] > 0
  BY DEF ReportInv, MovesReported
<1>1. ~lostCopy /\ \A f \in File : reports'[f] >= reports[f] /\ reports[f] \in Nat /\ reports'[f] \in Nat
  BY ReportsGrow DEF TypeOK
<1>2. pc[v] = "move" /\ reported[v] /\ own'[v] = own[v]
  BY DEF Unmoved, Moving
<1>3. own[v].file \in File
  BY <1>2 DEF TypeOK, Claim
<1>4. reports[own[v].file] > 0
  BY <1>1, <1>2 DEF ReportInv, MovesReported
<1> QED
  BY <1>1, <1>2, <1>3, <1>4

LEMMA ResetUnmoves ==
  ASSUME TypeOK, NEW w \in Wake, Reset(w)
  PROVE  Unmoved
BY DEF TypeOK, Reset, Unmoved, Moving

LEMMA ReportsGoOn == TypeOK /\ TypeOK' /\ ReportInv /\ [Next]_vars => ReportInv'
<1> SUFFICES ASSUME TypeOK, TypeOK', ReportInv, [Next]_vars PROVE ReportInv'
  OBVIOUS
<1> USE DEF faults, folder, local
<1>1. CASE FolderStep \/ SessionStep \/ UNCHANGED vars
  <2>1. Unmoved
    BY <1>1 DEF FolderStep, Issue, Sign, Age, Refuse, Recover, SessionStep, SessionClaims, SessionFinishes,
                vars, Unmoved, Moving
  <2> QED
    BY <2>1, UnmovedKeeps
<1>2. ASSUME NEW w \in Wake, Reset(w) PROVE ReportInv'
  BY <1>2, ResetUnmoves, UnmovedKeeps
<1>3. ASSUME NEW w \in Wake, LockStep(w) \/ ListInbox(w) \/ ReadNames(w) \/ StageIn(w), ~Exit(w)
      PROVE  ReportInv'
  <2>1. CASE LockStep(w)
    BY <2>1, UnmovedKeeps DEF LockStep, CheckLock, ClearLock, TakeLock, TypeOK, Unmoved, Moving
  <2>2. CASE ListInbox(w)
    BY <1>3, <2>2, UnmovedKeeps DEF ListInbox, TypeOK, Unmoved, Moving
  <2>3. CASE ReadNames(w)
    BY <1>3, <2>3, UnmovedKeeps DEF ReadNames, TypeOK, Unmoved, Moving
  <2>4. CASE StageIn(w)
    BY <2>4, UnmovedKeeps DEF StageIn, TypeOK, Unmoved, Moving
  <2> QED
    BY <1>3, <2>1, <2>2, <2>3, <2>4
<1>4. ASSUME NEW w \in Wake, NEW at \in Minute, NEW reporting \in BOOLEAN, NEW moves \in SUBSET File,
             EngineClaims(w, at, reporting, moves)
      PROVE  ReportInv'
  <2>1. /\ pc' = [pc EXCEPT ![w] = "relist"]
        /\ \A v \in Wake \ {w} : reported'[v] = reported[v] /\ own'[v] = own[v]
    BY <1>4 DEF EngineClaims, TypeOK
  <2>2. Unmoved
    BY <2>1 DEF Unmoved, Moving, TypeOK
  <2> QED
    BY <2>2, UnmovedKeeps
<1>5. ASSUME NEW w \in Wake, NEW copied \in BOOLEAN, PublishClaim(w, copied) PROVE ReportInv'
  <2>1. /\ UNCHANGED <<reported, own>>
        /\ pc' = [pc EXCEPT ![w] = IF reported[w] THEN "report" ELSE "move"]
    BY <1>5 DEF PublishClaim
  <2>2. Unmoved
    BY <2>1 DEF Unmoved, Moving, TypeOK
  <2> QED
    BY <2>2, UnmovedKeeps
<1>6. ASSUME NEW w \in Wake, NEW copied \in BOOLEAN, PublishReport(w, copied) PROVE ReportInv'
  <2> SUFFICES ASSUME ~lostCopy', NEW v \in Wake, pc'[v] = "move", reported'[v]
               PROVE  reports'[own'[v].file] > 0
    BY DEF ReportInv, MovesReported
  <2>1. copied /\ ~lostCopy
    BY <1>6, ReportsGrow DEF PublishReport, Copies
  <2>2. /\ pc[w] = "report" /\ pc' = [pc EXCEPT ![w] = "move"]
        /\ reports' = [reports EXCEPT ![own[w].file] = @ + 1]
        /\ UNCHANGED <<own, reported>>
    BY <1>6, <2>1 DEF PublishReport
  <2>3. own[w].file \in File
    BY <2>2 DEF TypeOK, Claim
  <2>4. \A f \in File : reports[f] \in Nat /\ (reports[f] > 0 \/ f = own[w].file => reports'[f] > 0)
    BY <2>2, <2>3 DEF TypeOK
  <2>5. CASE v = w
    BY <2>2, <2>3, <2>4, <2>5
  <2>6. CASE v # w
    <3>1. pc[v] = "move" /\ reported[v]
      BY <2>2, <2>6 DEF TypeOK
    <3>2. own[v].file \in File
      BY <3>1 DEF TypeOK, Claim
    <3>3. reports[own[v].file] > 0
      BY <2>1, <3>1 DEF ReportInv, MovesReported
    <3> QED
      BY <2>2, <2>4, <3>2, <3>3
  <2> QED
    BY <2>5, <2>6
<1>7. ASSUME NEW w \in Wake, EngineIdles(w) \/ Unavailable(w) \/ Kill(w) \/ MoveDone(w) \/ Exit(w)
      PROVE  Reset(w)
  BY <1>7 DEF EngineIdles, Unavailable, Kill, MoveDone, Exit
<1> QED
  BY <1>1, <1>2, <1>3, <1>4, <1>5, <1>6, <1>7 DEF Next, WakeRuns, Engine, Publishes

\* Two steps add to DONE: the session's, which reports, and a wake's.
LEMMA OnlyReportedMoves ==
  ASSUME TypeOK, ReportInv, [Next]_vars, ~lostCopy, NEW f \in done' \ done
  PROVE  reports'[f] > 0 \/ BareLine(f)
<1> USE DEF faults, folder, local
<1>1. CASE FolderStep \/ UNCHANGED vars
  BY <1>1 DEF FolderStep, Issue, Sign, Age, Refuse, Recover, vars
<1>2. ASSUME NEW at \in Minute, SessionClaims(at) PROVE FALSE
  BY <1>2 DEF SessionClaims
<1>3. CASE SessionFinishes
  BY <1>3 DEF SessionFinishes, TypeOK
<1>4. ASSUME NEW w \in Wake, MoveDone(w) PROVE reports'[f] > 0 \/ BareLine(f)
  <2>1. pc[w] = "move" /\ f \in lines[w] /\ reports' = reports
    BY <1>4 DEF MoveDone
  <2>2. CASE Reporting(w, f)
    <3>1. reported[w] /\ own[w].file = f
      BY <2>2 DEF Reporting
    <3> QED
      BY <2>1, <3>1 DEF ReportInv, MovesReported
  <2>3. CASE ~Reporting(w, f)
    BY <2>1, <2>3 DEF BareLine
  <2> QED
    BY <2>2, <2>3
<1>5. ASSUME NEW w \in Wake,
             LockStep(w) \/ ListInbox(w) \/ ReadNames(w) \/ StageIn(w) \/ Unavailable(w) \/ Kill(w)
      PROVE  FALSE
  BY <1>5 DEF LockStep, CheckLock, ClearLock, TakeLock, ListInbox, ReadNames, StageIn, Unavailable, Kill
<1>6. ASSUME NEW w \in Wake, Engine(w) \/ Publishes(w) PROVE FALSE
  BY <1>6 DEF Engine, EngineIdles, EngineClaims, Publishes, PublishClaim, PublishReport
<1> QED
  BY <1>1, <1>2, <1>3, <1>4, <1>5, <1>6 DEF Next, SessionStep, WakeRuns

\* What is moved to DONE has its report in the live folder already, wherever a
\* wake is killed and however wakes and the session interleave, unless a copy
\* failed unseen or the line carried out was written by an engine that did not
\* report on the assignment.
THEOREM DoneIsReported == Spec => DoneHasReport
<1>1. Init => ReportInv
  BY DEF Init, ReportInv, MovesReported
<1>2. TypeOK /\ ReportInv /\ [Next]_vars
        => [~lostCopy => \A f \in done' \ done : reports'[f] > 0 \/ BareLine(f)]_vars
  BY OnlyReportedMoves
<1> QED
  BY <1>1, <1>2, WakeTypeCorrect, ReportsGoOn, PTL DEF Spec, DoneHasReport

-----------------------------------------------------------------------------
(* One report on each assignment, when the seat's workers do not overlap.   *)

Before == {"relist", "renames", "publish"}

\* At most one worker is at work.
OneWorker ==
  /\ \A v, w \in Wake : pc[v] \in Holding /\ pc[w] \in Holding => v = w
  /\ session # NoFile => \A w \in Wake : pc[w] \notin Holding

\* What was reported on stays claimed.
ReportedIsClaimed ==
  \A f \in File : reports[f] <= 1 /\ (reports[f] > 0 => ClaimsOn(f, claims) # {})

\* What the session works on is claimed and not reported on.
SessionIsFirst ==
  session # NoFile => reports[session] = 0 /\ ClaimsOn(session, claims) # {}

\* An engine's staged claims are those of the folder, so what it claims, and
\* what its wake then publishes, has no report.
WakeIsFirst ==
  \A w \in Wake :
    /\ pc[w] = "engine" => seen[w].claims = claims
    /\ pc[w] \in Before => reports[own[w].file] = 0
    /\ pc[w] = "report" => reports[own[w].file] = 0 /\ own[w] \in claims

SerialInv ==
  ~overlapped /\ ~lostCopy =>
    OneWorker /\ ReportedIsClaimed /\ SessionIsFirst /\ WakeIsFirst

\* The steps that neither report, claim, stage nor start anything.
Calm ==
  /\ UNCHANGED <<claims, reports, session, overlapped, lostCopy>>
  /\ \A v \in Wake :
       /\ pc'[v] \in Holding => pc[v] \in Holding
       /\ pc'[v] = "engine" => pc[v] = "engine" /\ seen'[v] = seen[v]
       /\ pc'[v] \in Before => pc[v] \in Before /\ own'[v] = own[v]
       /\ pc'[v] = "report" => pc[v] = "report" /\ own'[v] = own[v]

LEMMA CalmKeeps == ASSUME SerialInv, Calm PROVE SerialInv'
<1> SUFFICES ASSUME ~overlapped, ~lostCopy
             PROVE  (OneWorker /\ ReportedIsClaimed /\ SessionIsFirst /\ WakeIsFirst)'
  BY DEF SerialInv, Calm
<1>0. OneWorker /\ ReportedIsClaimed /\ SessionIsFirst /\ WakeIsFirst
  BY DEF SerialInv
<1>1. OneWorker'
  BY <1>0 DEF Calm, OneWorker
<1>2. ReportedIsClaimed'
  BY <1>0 DEF Calm, ReportedIsClaimed, ClaimsOn
<1>3. SessionIsFirst'
  BY <1>0 DEF Calm, SessionIsFirst, ClaimsOn
<1>4. WakeIsFirst'
  BY <1>0 DEF Calm, WakeIsFirst
<1> QED
  BY <1>1, <1>2, <1>3, <1>4

LEMMA ResetCalms ==
  ASSUME TypeOK, NEW w \in Wake, Reset(w), UNCHANGED <<claims, reports, session, overlapped, lostCopy>>
  PROVE  Calm
BY DEF TypeOK, Reset, Calm, Holding, Gating, Before

LEMMA SerialGoesOn == TypeOK /\ TypeOK' /\ SerialInv /\ [Next]_vars => SerialInv'
<1> SUFFICES ASSUME TypeOK, TypeOK', SerialInv, [Next]_vars PROVE SerialInv'
  OBVIOUS
<1> USE DEF faults, folder, local
<1>1. CASE FolderStep \/ UNCHANGED vars
  <2>1. Calm
    BY <1>1 DEF FolderStep, Issue, Sign, Age, Refuse, Recover, vars, Calm
  <2> QED
    BY <2>1, CalmKeeps
<1>2. ASSUME NEW at \in Minute, SessionClaims(at) PROVE SerialInv'
  <2> SUFFICES ASSUME ~overlapped', ~lostCopy'
               PROVE  (OneWorker /\ ReportedIsClaimed /\ SessionIsFirst /\ WakeIsFirst)'
    BY DEF SerialInv
  <2>0. /\ ~overlapped /\ ~lostCopy
        /\ \A w \in Wake : pc[w] \notin Holding
    BY <1>2 DEF SessionClaims, Busy
  <2>1. OneWorker /\ ReportedIsClaimed /\ SessionIsFirst /\ WakeIsFirst
    BY <2>0 DEF SerialInv
  <2> DEFINE f == Oldest(inbox \intersect stamped)
             c == [file |-> f, at |-> at]
  <2>2. f \in File
    <3>1. inbox \intersect stamped \in SUBSET File /\ inbox \intersect stamped # {}
      BY <1>2 DEF SessionClaims, TypeOK
    <3> QED
      BY <3>1, OldestIsOne
  <2>3. /\ ClaimsOn(f, claims) = {} /\ session' = f /\ claims' = claims \union {c}
        /\ UNCHANGED <<reports, pc>>
    BY <1>2 DEF SessionClaims
  <2>4. c.file = f
    OBVIOUS
  <2> HIDE DEF f, c
  <2>5. OneWorker'
    BY <2>0, <2>3 DEF OneWorker
  <2>6. ReportedIsClaimed'
    BY <2>1, <2>3 DEF ReportedIsClaimed, ClaimsOn
  <2>7. SessionIsFirst'
    <3>1. reports[f] = 0
      BY <2>1, <2>2, <2>3 DEF ReportedIsClaimed, TypeOK
    <3>2. ClaimsOn(f, claims') # {}
      BY <2>3, <2>4 DEF ClaimsOn
    <3> QED
      BY <2>3, <3>1, <3>2 DEF SessionIsFirst, ClaimsOn
  <2>8. WakeIsFirst'
    BY <2>0, <2>3 DEF WakeIsFirst, Holding, Gating, Before
  <2> QED
    BY <2>5, <2>6, <2>7, <2>8
<1>3. CASE SessionFinishes
  <2> SUFFICES ASSUME ~overlapped', ~lostCopy'
               PROVE  (OneWorker /\ ReportedIsClaimed /\ SessionIsFirst /\ WakeIsFirst)'
    BY DEF SerialInv
  <2>0. /\ ~overlapped /\ ~lostCopy
        /\ session # NoFile /\ session \in File
        /\ reports' = [reports EXCEPT ![session] = @ + 1]
        /\ session' = NoFile
        /\ UNCHANGED <<pc, claims>>
    BY <1>3 DEF SessionFinishes, TypeOK
  <2>1. OneWorker /\ ReportedIsClaimed /\ SessionIsFirst /\ WakeIsFirst
    BY <2>0 DEF SerialInv
  <2>2. \A w \in Wake : pc[w] \notin Holding
    BY <2>0, <2>1 DEF OneWorker
  <2>3. OneWorker'
    BY <2>0, <2>2 DEF OneWorker
  <2>4. reports[session] = 0 /\ ClaimsOn(session, claims) # {}
    BY <2>0, <2>1 DEF SessionIsFirst
  <2>5. ReportedIsClaimed'
    <3>1. \A f \in File : f # session => reports'[f] = reports[f]
      BY <2>0 DEF TypeOK
    <3>2. reports'[session] = 1
      BY <2>0, <2>4 DEF TypeOK
    <3> QED
      BY <2>0, <2>1, <2>4, <3>1, <3>2 DEF ReportedIsClaimed, ClaimsOn
  <2>6. SessionIsFirst'
    BY <2>0 DEF SessionIsFirst
  <2>7. WakeIsFirst'
    BY <2>0, <2>2 DEF WakeIsFirst, Holding, Gating, Before
  <2> QED
    BY <2>3, <2>5, <2>6, <2>7
<1>4. ASSUME NEW w \in Wake, LockStep(w) PROVE SerialInv'
  <2>1. CASE CheckLock(w) \/ ClearLock(w)
    <3>1. Calm
      <4>1. UNCHANGED <<claims, reports, session, overlapped, lostCopy, seen, own>>
        BY <2>1 DEF CheckLock, ClearLock
      <4>2. \A v \in Wake : pc'[v] \in {"take", "clear"} \/ pc'[v] = pc[v]
        BY <2>1 DEF CheckLock, ClearLock, TypeOK
      <4> QED
        BY <4>1, <4>2 DEF Calm, Holding, Gating, Before
    <3> QED
      BY <3>1, CalmKeeps
  <2>2. CASE TakeLock(w)
    <3> SUFFICES ASSUME ~overlapped', ~lostCopy'
                 PROVE  (OneWorker /\ ReportedIsClaimed /\ SessionIsFirst /\ WakeIsFirst)'
      BY DEF SerialInv
    <3>0. /\ ~overlapped /\ ~lostCopy /\ session = NoFile
          /\ \A v \in Wake : pc[v] \notin Holding
          /\ pc' = [pc EXCEPT ![w] = "list"]
          /\ UNCHANGED <<claims, reports, session, seen, own>>
      BY <2>2 DEF TakeLock, Busy
    <3>1. OneWorker /\ ReportedIsClaimed /\ SessionIsFirst /\ WakeIsFirst
      BY <3>0 DEF SerialInv
    <3>2. \A v \in Wake : v # w => pc'[v] \notin Holding
      BY <3>0 DEF TypeOK
    <3>3. pc'[w] = "list"
      BY <3>0 DEF TypeOK
    <3>4. OneWorker' /\ SessionIsFirst'
      BY <3>0, <3>2 DEF OneWorker, SessionIsFirst
    <3>5. ReportedIsClaimed'
      BY <3>0, <3>1 DEF ReportedIsClaimed, ClaimsOn
    <3>6. WakeIsFirst'
      BY <3>2, <3>3 DEF WakeIsFirst, Holding, Gating, Before
    <3> QED
      BY <3>4, <3>5, <3>6
  <2> QED
    BY <1>4, <2>1, <2>2 DEF LockStep
<1>5. ASSUME NEW w \in Wake, ListInbox(w) PROVE SerialInv'
  <2>0. UNCHANGED <<claims, reports, session, overlapped, lostCopy>>
    BY <1>5 DEF ListInbox
  <2>1. CASE Exit(w)
    BY <2>0, <2>1, ResetCalms, CalmKeeps DEF Exit
  <2>2. CASE ~Exit(w)
    <3>1. /\ pc[w] \in {"list", "relist"}
          /\ pc' = [pc EXCEPT ![w] = IF @ = "list" THEN "names" ELSE "renames"]
          /\ UNCHANGED <<seen, own>>
      BY <1>5, <2>2 DEF ListInbox
    <3>2. Calm
      BY <2>0, <3>1 DEF TypeOK, Calm, Holding, Gating, Before
    <3> QED
      BY <3>2, CalmKeeps
  <2> QED
    BY <2>1, <2>2
<1>6. ASSUME NEW w \in Wake, ReadNames(w) PROVE SerialInv'
  <2>0. UNCHANGED <<claims, reports, session, overlapped, lostCopy>>
    BY <1>6 DEF ReadNames
  <2>1. CASE Exit(w)
    BY <2>0, <2>1, ResetCalms, CalmKeeps DEF Exit
  <2>2. CASE ~Exit(w)
    <3>1. /\ pc[w] \in {"names", "renames"}
          /\ pc' = [pc EXCEPT ![w] = IF @ = "names" THEN "stage" ELSE "publish"]
          /\ UNCHANGED <<seen, own>>
      BY <1>6, <2>2 DEF ReadNames
    <3>2. Calm
      BY <2>0, <3>1 DEF TypeOK, Calm, Holding, Gating, Before
    <3> QED
      BY <3>2, CalmKeeps
  <2> QED
    BY <2>1, <2>2
<1>7. ASSUME NEW w \in Wake, Unavailable(w) \/ Kill(w) \/ EngineIdles(w) \/ MoveDone(w) PROVE SerialInv'
  <2>1. Reset(w) /\ UNCHANGED <<claims, reports, session, overlapped, lostCopy>>
    BY <1>7 DEF Unavailable, Kill, EngineIdles, MoveDone, Exit
  <2> QED
    BY <2>1, ResetCalms, CalmKeeps
<1>8. ASSUME NEW w \in Wake, StageIn(w) PROVE SerialInv'
  <2> SUFFICES ASSUME ~overlapped', ~lostCopy'
               PROVE  (OneWorker /\ ReportedIsClaimed /\ SessionIsFirst /\ WakeIsFirst)'
    BY DEF SerialInv
  <2>0. /\ ~overlapped /\ ~lostCopy /\ pc[w] = "stage"
        /\ pc' = [pc EXCEPT ![w] = "engine"]
        /\ UNCHANGED <<claims, reports, session, own>>
    BY <1>8 DEF StageIn
  <2>1. OneWorker /\ ReportedIsClaimed /\ SessionIsFirst /\ WakeIsFirst
    BY <2>0 DEF SerialInv
  <2>2. seen'[w].claims = claims /\ \A v \in Wake : v # w => seen'[v] = seen[v]
    BY <1>8 DEF StageIn, TypeOK
  <2>3. pc'[w] = "engine" /\ \A v \in Wake : v # w => pc'[v] = pc[v]
    BY <2>0 DEF TypeOK
  <2>4. OneWorker'
    <3>1. \A v \in Wake : pc'[v] \in Holding => pc[v] \in Holding
      BY <2>0, <2>3 DEF Holding
    <3> QED
      BY <2>0, <2>1, <3>1 DEF OneWorker
  <2>5. ReportedIsClaimed' /\ SessionIsFirst'
    BY <2>0, <2>1 DEF ReportedIsClaimed, SessionIsFirst, ClaimsOn
  <2>6. WakeIsFirst'
    BY <2>0, <2>1, <2>2, <2>3 DEF WakeIsFirst, Before
  <2> QED
    BY <2>4, <2>5, <2>6
<1>9. ASSUME NEW w \in Wake, NEW at \in Minute, NEW reporting \in BOOLEAN, NEW moves \in SUBSET File, EngineClaims(w, at, reporting, moves)
      PROVE  SerialInv'
  <2> SUFFICES ASSUME ~overlapped', ~lostCopy'
               PROVE  (OneWorker /\ ReportedIsClaimed /\ SessionIsFirst /\ WakeIsFirst)'
    BY DEF SerialInv
  <2> DEFINE f == Oldest(Unclaimed(w))
             c == [file |-> f, at |-> at]
  <2>0. /\ ~overlapped /\ ~lostCopy /\ pc[w] = "engine" /\ Unclaimed(w) # {}
        /\ pc' = [pc EXCEPT ![w] = "relist"]
        /\ own' = [own EXCEPT ![w] = c]
        /\ seen' = [seen EXCEPT ![w] = Nothing]
        /\ UNCHANGED <<claims, reports, session>>
    BY <1>9 DEF EngineClaims
  <2>1. OneWorker /\ ReportedIsClaimed /\ SessionIsFirst /\ WakeIsFirst
    BY <2>0 DEF SerialInv
  <2>2. f \in Unclaimed(w) /\ f \in File
    <3>1. Unclaimed(w) \in SUBSET File
      BY DEF Unclaimed, TypeOK
    <3> QED
      BY <2>0, <3>1, OldestIsOne
  <2>3. ClaimsOn(f, claims) = {}
    BY <2>0, <2>1, <2>2 DEF Unclaimed, WakeIsFirst
  <2>4. c.file = f
    OBVIOUS
  <2> HIDE DEF f, c
  <2>5. reports[f] = 0
    <3>1. reports[f] \in Nat
      BY <2>2 DEF TypeOK
    <3>2. ~(reports[f] > 0)
      BY <2>1, <2>2, <2>3 DEF ReportedIsClaimed
    <3> QED
      BY <3>1, <3>2
  <2>6. pc'[w] = "relist" /\ \A v \in Wake : v # w => pc'[v] = pc[v]
    BY <2>0 DEF TypeOK
  <2>7. own'[w].file = f /\ \A v \in Wake : v # w => own'[v] = own[v]
    BY <2>0, <2>4 DEF TypeOK
  <2>8. OneWorker'
    <3>1. \A v \in Wake : pc'[v] \in Holding => pc[v] \in Holding
      BY <2>0, <2>6 DEF Holding
    <3> QED
      BY <2>0, <2>1, <3>1 DEF OneWorker
  <2>9. ReportedIsClaimed' /\ SessionIsFirst'
    BY <2>0, <2>1 DEF ReportedIsClaimed, SessionIsFirst, ClaimsOn
  <2>10. WakeIsFirst'
    <3>1. \A v \in Wake : v # w => seen'[v] = seen[v]
      BY <2>0 DEF TypeOK
    <3> QED
      BY <2>0, <2>1, <2>5, <2>6, <2>7, <3>1 DEF WakeIsFirst, Before
  <2> QED
    BY <2>8, <2>9, <2>10
<1>10. ASSUME NEW w \in Wake, NEW copied \in BOOLEAN, PublishClaim(w, copied) PROVE SerialInv'
  <2> SUFFICES ASSUME ~overlapped', ~lostCopy'
               PROVE  (OneWorker /\ ReportedIsClaimed /\ SessionIsFirst /\ WakeIsFirst)'
    BY DEF SerialInv
  <2> DEFINE place == IF reported[w] THEN "report" ELSE "move"
  <2>0. /\ ~overlapped /\ ~lostCopy /\ copied
    BY <1>10 DEF PublishClaim, Copies
  <2>1. OneWorker /\ ReportedIsClaimed /\ SessionIsFirst /\ WakeIsFirst
    BY <2>0 DEF SerialInv
  <2>2. /\ pc[w] = "publish" /\ pc' = [pc EXCEPT ![w] = place]
        /\ claims' = claims \union {own[w]}
        /\ UNCHANGED <<reports, session, own, seen>>
    BY <1>10, <2>0 DEF PublishClaim
  <2>3. place \in {"report", "move"}
    OBVIOUS
  <2> HIDE DEF place
  <2>4. pc'[w] = place /\ \A v \in Wake : v # w => pc'[v] = pc[v]
    BY <2>2 DEF TypeOK
  <2>5. \A v \in Wake : v # w => pc[v] \notin Holding
    BY <2>1, <2>2 DEF OneWorker, Holding
  <2>6. OneWorker'
    <3>1. \A v \in Wake : pc'[v] \in Holding => pc[v] \in Holding
      BY <2>2, <2>4 DEF Holding
    <3> QED
      BY <2>2, <2>1, <3>1 DEF OneWorker
  <2>7. ReportedIsClaimed' /\ SessionIsFirst'
    BY <2>1, <2>2 DEF ReportedIsClaimed, SessionIsFirst, ClaimsOn
  <2>8. reports[own[w].file] = 0
    BY <2>1, <2>2 DEF WakeIsFirst, Before
  <2>9. WakeIsFirst'
    <3>1. \A v \in Wake : v # w => pc'[v] \notin Holding
      BY <2>4, <2>5
    <3> QED
      BY <2>2, <2>3, <2>4, <2>8, <3>1 DEF WakeIsFirst, Before, Holding, Gating
  <2> QED
    BY <2>6, <2>7, <2>9
<1>11. ASSUME NEW w \in Wake, NEW copied \in BOOLEAN, PublishReport(w, copied) PROVE SerialInv'
  <2> SUFFICES ASSUME ~overlapped', ~lostCopy'
               PROVE  (OneWorker /\ ReportedIsClaimed /\ SessionIsFirst /\ WakeIsFirst)'
    BY DEF SerialInv
  <2>0. /\ ~overlapped /\ ~lostCopy /\ copied
    BY <1>11 DEF PublishReport, Copies
  <2>1. OneWorker /\ ReportedIsClaimed /\ SessionIsFirst /\ WakeIsFirst
    BY <2>0 DEF SerialInv
  <2>2. /\ pc[w] = "report" /\ pc' = [pc EXCEPT ![w] = "move"]
        /\ reports' = [reports EXCEPT ![own[w].file] = @ + 1]
        /\ UNCHANGED <<claims, session>>
    BY <1>11, <2>0 DEF PublishReport
  <2>3. own[w].file \in File
    BY <2>2 DEF TypeOK, Claim
  <2>4. pc'[w] = "move" /\ \A v \in Wake : v # w => pc'[v] = pc[v]
    BY <2>2 DEF TypeOK
  <2>5. session = NoFile /\ \A v \in Wake : v # w => pc[v] \notin Holding
    BY <2>1, <2>2 DEF OneWorker, Holding
  <2>6. OneWorker'
    BY <2>2, <2>4, <2>5 DEF OneWorker
  <2>7. reports[own[w].file] = 0 /\ own[w] \in ClaimsOn(own[w].file, claims)
    BY <2>1, <2>2 DEF WakeIsFirst, ClaimsOn
  <2>8. ReportedIsClaimed'
    <3>1. \A f \in File : f # own[w].file => reports'[f] = reports[f]
      BY <2>2 DEF TypeOK
    <3>2. reports'[own[w].file] = 1
      BY <2>2, <2>3, <2>7 DEF TypeOK
    <3> QED
      BY <2>1, <2>2, <2>7, <3>1, <3>2 DEF ReportedIsClaimed, ClaimsOn
  <2>9. SessionIsFirst'
    BY <2>2, <2>5 DEF SessionIsFirst
  <2>10. WakeIsFirst'
    BY <2>4, <2>5 DEF WakeIsFirst, Before, Holding, Gating
  <2> QED
    BY <2>6, <2>8, <2>9, <2>10
<1> QED
  BY <1>1, <1>2, <1>3, <1>4, <1>5, <1>6, <1>7, <1>8, <1>9, <1>10, <1>11
     DEF Next, SessionStep, WakeRuns, Publishes, Engine

\* When the seat's workers never overlap and no copy is lost, one assignment is
\* reported once: a wake killed anywhere on its way to DONE leaves either
\* nothing or the claim that every later worker yields to.
THEOREM OneReportEach == Spec => []SerialOneReport
<1>1. Init => SerialInv
  BY DEF Init, SerialInv, OneWorker, ReportedIsClaimed, SessionIsFirst, WakeIsFirst, Holding, Gating, Before
<1>2. SerialInv => SerialOneReport
  BY DEF SerialInv, ReportedIsClaimed, SerialOneReport
<1> QED
  BY <1>1, <1>2, WakeTypeCorrect, SerialGoesOn, PTL DEF Spec
=============================================================================
