---- MODULE KernelStoreProofs ----
(***************************************************************************)
(* Theorems about KernelStore, for every number of processes and of        *)
(* assignments and every length of the log.                                *)
(***************************************************************************)
EXTENDS KernelStore, FiniteSetTheorems, SequenceTheorems, WellFoundedInduction, TLAPS

-----------------------------------------------------------------------------
(* The last entry of a log.                                                *)

\* A nonempty set of bounded naturals has a greatest member.
LEMMA Greatest ==
  ASSUME NEW n \in Nat, NEW T \in SUBSET (0..n), T # {}
  PROVE  \E x \in T : \A y \in T : y <= x
<1> DEFINE R == {n - t : t \in T}
<1>1. R \subseteq Nat /\ R # {}
  <2>1. \A t \in T : n - t \in Nat
    OBVIOUS
  <2>2. PICK t \in T : TRUE
    OBVIOUS
  <2>3. n - t \in R
    BY <2>2
  <2> QED
    BY <2>1, <2>3
<1>2. PICK m \in R : \A y \in R : ~ (<<y, m>> \in OpToRel(<, Nat))
  <2>1. IsWellFoundedOn(OpToRel(<, Nat), Nat)
    BY NatLessThanWellFounded
  <2> HIDE DEF R
  <2> QED
    BY <1>1, <2>1, WFMin
<1>3. \A y \in R : ~ (y < m)
  BY <1>1, <1>2 DEF OpToRel
<1>4. PICK x \in T : m = n - x
  BY <1>2
<1>5. ASSUME NEW y \in T PROVE y <= x
  <2>1. ~ (n - y < n - x)
    BY <1>3, <1>4
  <2> QED
    BY <2>1
<1> QED
  BY <1>5

\* read_all's last entry is one of the entries, with the greatest sequence of all.
LEMMA LastEntryIn ==
  ASSUME NEW entries \in Seq(Entry), entries # <<>>
  PROVE  \E i \in DOMAIN entries : LastEntry(entries) = entries[i]
<1> DEFINE greatest == {i \in DOMAIN entries : \A j \in DOMAIN entries : entries[j].seq <= entries[i].seq}
<1>1. \A i \in DOMAIN entries : entries[i] \in Entry /\ entries[i].seq \in 1..MaxLog
  <2>1. \A i \in DOMAIN entries : entries[i] \in Entry
    BY ElementOfSeq
  <2>2. \A e \in Entry : e.seq \in 1..MaxLog
    BY DEF Entry
  <2> QED
    BY <2>1, <2>2
<1>2. DOMAIN entries = 1..Len(entries) /\ Len(entries) \in Nat \ {0}
  BY EmptySeq, LenProperties
<1>3. greatest # {}
  <2> DEFINE T == {entries[i].seq : i \in DOMAIN entries}
  <2>1. T \in SUBSET (0..MaxLog) /\ T # {}
    BY <1>1, <1>2, StoreAssumption
  <2>2. PICK x \in T : \A y \in T : y <= x
    <3> HIDE DEF T
    <3> QED
      BY <2>1, Greatest, StoreAssumption
  <2>3. PICK i \in DOMAIN entries : x = entries[i].seq
    BY <2>2
  <2> QED
    BY <2>2, <2>3
<1>4. PICK i \in greatest : \A j \in greatest : j <= i
  <2>1. greatest \in SUBSET (0..Len(entries))
    BY <1>2
  <2> HIDE DEF greatest
  <2> QED
    BY <1>2, <1>3, <2>1, Greatest
<1>5. (CHOOSE k \in greatest : \A j \in greatest : j <= k) \in greatest
  BY <1>4
<1> QED
  BY <1>5 DEF LastEntry

\* An entry sealed on a log that has room is an entry.
LEMMA SealedType ==
  ASSUME TypeOK, Len(log) < MaxLog, \A i \in DOMAIN log : log[i].seq <= i,
         NEW p \in Process, NEW task \in Task, NEW from \in Status,
         NEW to \in Status \union {Bookkeeping}
  PROVE  /\ Sealed(p, log, task, from, to) \in Entry
         /\ Sealed(p, log, task, from, to).seq <= Len(log) + 1
<1>1. log \in Seq(Entry) /\ Len(log) \in Nat /\ MaxLog \in Nat
  BY StoreAssumption DEF TypeOK
<1>2. Genesis \in Hash
  BY <1>1 DEF Genesis, Hash
<1>3. CASE log = <<>>
  BY <1>1, <1>2, <1>3 DEF Sealed, Entry
<1>4. CASE log # <<>>
  <2>1. PICK i \in DOMAIN log : LastEntry(log) = log[i]
    BY <1>1, <1>4, LastEntryIn
  <2>2. i \in 1..Len(log) /\ log[i] \in Entry
    BY <1>1, <2>1, ElementOfSeq
  <2>3. log[i].seq \in 1..MaxLog /\ log[i].by \in Process /\ log[i].seq <= i
    BY <2>2 DEF Entry
  <2>4. log[i].seq + 1 \in 1..MaxLog /\ log[i].seq + 1 <= Len(log) + 1
    BY <1>1, <2>2, <2>3
  <2>5. HashOf(log[i]) \in Hash
    BY <1>1, <2>3 DEF HashOf, Hash
  <2> QED
    BY <1>4, <2>1, <2>4, <2>5 DEF Sealed, Entry
<1> QED
  BY <1>3, <1>4

-----------------------------------------------------------------------------
(* Plans.                                                                  *)

\* Whatever an operation starts, it is a plan with something to do.
LEMMA PlansType ==
  ASSUME NEW status, NEW todo \in Plans(status)
  PROVE  todo \in Seq(Step) /\ todo # <<>>
<1>1. \A row \in Transitions : row.event \in Step
  BY DEF Step
<1>2. {"verify_start", "submit", "classify_ok", "approvals_complete"} \union Verdict \subseteq Step
  <2>1. {"verify_start", "submit", "classify_ok", "approvals_complete"} \union Verdict
          \subseteq {row.event : row \in Transitions}
    BY DEF Transitions, Row, Verdict
  <2> QED
    BY <2>1 DEF Step
<1>3. {"note", "reload", "free", "rewrite"} \subseteq Step
  BY DEF Step
<1>4. ASSUME NEW event \in Step PROVE PlanOf(event) \in Seq(Step) /\ PlanOf(event) # <<>>
  BY <1>2, <1>3, <1>4 DEF PlanOf
<1>5. ASSUME NEW v \in Verdict
      PROVE  /\ <<"verify_start", v, "rewrite">> \in Seq(Step)
             /\ <<"submit", "verify_start", v, "rewrite">> \in Seq(Step)
  BY <1>2, <1>3, <1>5
<1>6. /\ <<"note">> \in Seq(Step) /\ <<"note">> # <<>>
      /\ <<"rewrite", "note">> \in Seq(Step) /\ <<"rewrite", "note">> # <<>>
  BY <1>3
<1>7. CASE \E row \in Transitions : todo = PlanOf(row.event)
  BY <1>1, <1>4, <1>7
<1>8. CASE \E v \in Verdict : todo = <<"verify_start", v, "rewrite">>
  BY <1>5, <1>8
<1>9. CASE \E v \in Verdict : todo = <<"submit", "verify_start", v, "rewrite">>
  BY <1>5, <1>9
<1>10. CASE todo \in {<<"note">>, <<"rewrite", "note">>}
  BY <1>6, <1>10
<1> QED
  BY <1>7, <1>8, <1>9, <1>10 DEF Plans

-----------------------------------------------------------------------------
(* Type correctness.                                                       *)

\* The part of TypeOK about what each process holds.
LocalType ==
  /\ stage \in [Process -> Stage]
  /\ plan \in [Process -> Seq(Step)]
  /\ mem \in [Process -> Work \union {NoWork}]
  /\ seen \in [Process -> 0..MaxLog]
  /\ sealed \in [Process -> Entry \union {None}]
  /\ \A p \in Process : /\ stage[p] \in Working => mem[p] \in Work
                        /\ stage[p] = "sealed" => sealed[p] \in Entry

\* A process that ends leaves the types as they are.
LEMMA QuitType == ASSUME LocalType, NEW p \in Process, Quit(p) PROVE LocalType'
<1>1. "idle" \in Stage /\ "idle" \notin Working /\ "idle" # "sealed"
  BY DEF Stage, Working
<1>2. 0 \in 0..MaxLog /\ <<>> \in Seq(Step)
  BY StoreAssumption
<1> QED
  BY <1>1, <1>2 DEF LocalType, Quit

\* A process that goes on, with an assignment, leaves the types as they are.
LEMMA OnwardType ==
  ASSUME LocalType, NEW p \in Process, plan[p] # <<>>, NEW work \in Work, Onward(p, work)
  PROVE  LocalType'
<1>1. CASE Quit(p)
  BY <1>1, QuitType
<1>2. CASE ~ (Len(plan[p]) = 1)
  <2>1. Tail(plan[p]) \in Seq(Step)
    BY DEF LocalType
  <2>2. "running" \in Stage /\ "running" \in Working /\ "running" # "sealed"
    BY DEF Stage, Working
  <2> QED
    BY <1>2, <2>1, <2>2 DEF LocalType, Onward
<1> QED
  BY <1>1, <1>2 DEF Onward

\* The log has as many entries as its bound allows, and no sequence runs ahead of its
\* place on the log: with these, type correctness is inductive.
LogBounds ==
  /\ Len(log) <= MaxLog
  /\ \A i \in DOMAIN log : log[i].seq <= i
  /\ \A p \in Process : stage[p] = "sealed" => sealed[p].seq <= Len(log) + 1

\* The assignment a process goes on with after a transition is one it can save.
LEMMA MovedType ==
  ASSUME NEW work \in Work, NEW entry \in Entry, entry.to # Bookkeeping
  PROVE  Moved(work, entry) \in Work
<1>1. entry.to \in Status /\ entry.from \in Status
  BY DEF Entry
<1>2. HashOf(entry) \in Hash
  BY StoreAssumption DEF Entry, HashOf, Hash
<1>3. RecordOf(entry) \in Record
  BY <1>1, <1>2 DEF Record, RecordOf
<1>4. work.history \in Seq(Record) /\ work.task \in Task
  BY DEF Work
<1>5. Append(work.history, RecordOf(entry)) \in Seq(Record)
  BY <1>3, <1>4
<1> QED
  BY <1>1, <1>4, <1>5 DEF Moved, Work

\* What a save writes is what a file may hold.
LEMMA StoredType ==
  ASSUME NEW work \in Work
  PROVE  Stored(work) \in [status : Status, history : Seq(Record)]
BY DEF Stored, Work

\* What a process loads is an assignment.
LEMMA LoadedType == ASSUME TypeOK, NEW t \in Task PROVE Loaded(t) \in Work
BY DEF TypeOK, Loaded, Work

\* A process at work has something left to do.
PlansPending == \A p \in Process : stage[p] \in Working => plan[p] # <<>>

\* A process that ends has nothing left to do and is not at work.
LEMMA QuitPending ==
  ASSUME LocalType, PlansPending, NEW p \in Process, Quit(p) PROVE PlansPending'
BY DEF LocalType, PlansPending, Quit, Working

\* A process goes on only to a step its plan still has.
LEMMA OnwardPending ==
  ASSUME LocalType, PlansPending, NEW p \in Process, plan[p] # <<>>, NEW work, Onward(p, work)
  PROVE  PlansPending'
<1>1. CASE Quit(p)
  BY <1>1, QuitPending
<1>2. CASE ~ (Len(plan[p]) = 1)
  <2>1. plan[p] \in Seq(Step)
    BY DEF LocalType
  <2>2. Len(Tail(plan[p])) = Len(plan[p]) - 1 /\ Len(plan[p]) \in Nat /\ Len(plan[p]) # 0
    BY <2>1
  <2>3. Tail(plan[p]) # <<>>
    <3>1. Len(<<>>) = 0
      OBVIOUS
    <3>2. Len(Tail(plan[p])) # 0
      BY <1>2, <2>2
    <3> QED
      BY <3>1, <3>2, Zenon
  <2> QED
    BY <1>2, <2>3 DEF LocalType, PlansPending, Onward
<1> QED
  BY <1>1, <1>2 DEF Onward

TypeInv == TypeOK /\ LogBounds /\ PlansPending

\* Every step of a process keeps the types, the bounds on the log and the pending plans.
LEMMA TypeStep == TypeInv /\ [Next]_vars => TypeInv'
<1> SUFFICES ASSUME TypeInv, [Next]_vars PROVE TypeInv'
  OBVIOUS
<1>0. /\ TypeOK /\ LocalType /\ LogBounds /\ PlansPending
      /\ log \in Seq(Entry) /\ Len(log) \in Nat /\ MaxLog \in Nat
  BY StoreAssumption DEF TypeInv, TypeOK, LocalType
<1>work. Working = {"running", "sealed", "appended", "saved"} /\ Working \subseteq Stage
  BY DEF Working, Stage
<1>1. CASE UNCHANGED vars
  BY <1>1 DEF vars, TypeInv, TypeOK, LogBounds, PlansPending
<1>quit. ASSUME NEW p \in Process, Quit(p), UNCHANGED <<log, file, pointer, overlap>> PROVE TypeInv'
  <2>1. LocalType' /\ PlansPending'
    BY <1>0, <1>quit, QuitType, QuitPending
  <2>2. LogBounds'
    BY <1>0, <1>quit DEF LogBounds, Quit, LocalType
  <2> QED
    BY <1>0, <1>quit, <2>1, <2>2 DEF TypeInv, TypeOK, LocalType
<1>onward. ASSUME NEW p \in Process, plan[p] # <<>>, NEW work \in Work, Onward(p, work),
             UNCHANGED log, TypeOK => file' \in [Task -> [status : Status, history : Seq(Record)]],
             pointer' \in Task \union {None}, UNCHANGED overlap
      PROVE  TypeInv'
  <2>1. LocalType' /\ PlansPending'
    BY <1>0, <1>onward, OnwardType, OnwardPending
  <2>2. LogBounds'
    BY <1>0, <1>onward DEF LogBounds, Onward, Quit, LocalType
  <2> QED
    BY <1>0, <1>onward, <2>1, <2>2 DEF TypeInv, TypeOK, LocalType
<1>2. ASSUME NEW p \in Process, ReadLog(p) PROVE TypeInv'
  <2>1. Len(log) \in 0..MaxLog
    BY <1>0 DEF LogBounds
  <2> QED
    BY <1>0, <1>work, <1>2, <2>1 DEF ReadLog, TypeInv, TypeOK, LogBounds, PlansPending, Stage
<1>3. ASSUME NEW p \in Process, VerifyFiles(p) PROVE TypeInv'
  <2>1. CASE Quit(p)
    BY <1>3, <1>quit, <2>1 DEF VerifyFiles
  <2>2. CASE stage' = [stage EXCEPT ![p] = "loading"] /\ UNCHANGED <<plan, mem, seen, sealed>>
    BY <1>0, <1>work, <1>3, <2>2 DEF VerifyFiles, TypeInv, TypeOK, LogBounds, PlansPending, Stage
  <2> QED
    BY <1>3, <2>1, <2>2 DEF VerifyFiles
<1>4. ASSUME NEW p \in Process, Load(p) PROVE TypeInv'
  <2>0. PICK t \in Task : \E todo \in Plans(file[t].status) :
          /\ mem' = [mem EXCEPT ![p] = Loaded(t)]
          /\ plan' = [plan EXCEPT ![p] = todo]
    BY <1>4 DEF Load
  <2>1. PICK todo \in Plans(file[t].status) :
          /\ mem' = [mem EXCEPT ![p] = Loaded(t)]
          /\ plan' = [plan EXCEPT ![p] = todo]
    BY <2>0
  <2>2. Loaded(t) \in Work
    BY <1>0, LoadedType
  <2>3. todo \in Seq(Step) /\ todo # <<>>
    BY PlansType
  <2> QED
    BY <1>0, <1>work, <1>4, <2>1, <2>2, <2>3 DEF Load, TypeInv, TypeOK, LogBounds, PlansPending, Stage
<1>5. ASSUME NEW p \in Process, CheckSlot(p) PROVE TypeInv'
  <2>1. mem[p] \in Work /\ plan[p] # <<>>
    BY <1>0, <1>work, <1>5 DEF CheckSlot, AtStep, TypeOK
  <2> QED
    BY <1>0, <1>5, <1>quit, <1>onward, <2>1 DEF CheckSlot, TypeOK
<1>6. ASSUME NEW p \in Process, Reload(p) PROVE TypeInv'
  <2>1. mem[p] \in Work /\ plan[p] # <<>>
    BY <1>0, <1>work, <1>6 DEF Reload, AtStep, TypeOK
  <2>2. Loaded(mem[p].task) \in Work
    BY <1>0, <2>1, LoadedType DEF Work
  <2> QED
    BY <1>0, <1>6, <1>quit, <1>onward, <2>1, <2>2 DEF Reload, TypeOK
<1>7. ASSUME NEW p \in Process, Seal(p) PROVE TypeInv'
  <2>1. PICK to \in IF Head(plan[p]) = "note" THEN {Bookkeeping} ELSE Targets(mem[p], Head(plan[p])) :
          sealed' = [sealed EXCEPT ![p] = Sealed(p, log, mem[p].task, mem[p].status, to)]
    BY <1>7 DEF Seal
  <2>2. mem[p] \in Work
    BY <1>0, <1>work, <1>7 DEF Seal, TypeOK
  <2>3. mem[p].task \in Task /\ mem[p].status \in Status
    BY <2>2 DEF Work
  <2>4. to \in Status \union {Bookkeeping}
    BY <2>1 DEF Targets
  <2>5. /\ Sealed(p, log, mem[p].task, mem[p].status, to) \in Entry
        /\ Sealed(p, log, mem[p].task, mem[p].status, to).seq <= Len(log) + 1
    BY <1>0, <1>7, <2>3, <2>4, SealedType DEF Seal, LogBounds
  <2>6. stage' = [stage EXCEPT ![p] = "sealed"] /\ UNCHANGED <<log, file, pointer, plan, mem, seen, overlap>>
        /\ stage[p] \in Working
    BY <1>7, <1>work DEF Seal
  <2> QED
    BY <1>0, <1>work, <2>1, <2>2, <2>5, <2>6 DEF TypeInv, TypeOK, LogBounds, PlansPending
<1>8. ASSUME NEW p \in Process, AppendEntry(p) PROVE TypeInv'
  <2>1. /\ sealed[p] \in Entry /\ mem[p] \in Work /\ plan[p] # <<>>
        /\ sealed[p].seq <= Len(log) + 1
    BY <1>0, <1>work, <1>8 DEF AppendEntry, TypeOK, LogBounds, PlansPending
  <2>2. /\ log' \in Seq(Entry) /\ Len(log') = Len(log) + 1 /\ Len(log') <= MaxLog
        /\ \A i \in DOMAIN log' : log'[i] = IF i = Len(log) + 1 THEN sealed[p] ELSE log[i]
        /\ DOMAIN log' = 1..(Len(log) + 1) /\ DOMAIN log = 1..Len(log)
    BY <1>0, <1>8, <2>1 DEF AppendEntry
  <2>3. \A i \in DOMAIN log' : log'[i].seq <= i
    BY <1>0, <2>1, <2>2 DEF LogBounds
  <2>4. LocalType' /\ PlansPending'
    <3>1. CASE sealed[p].to = Bookkeeping
      BY <1>0, <1>8, <2>1, <3>1, OnwardType, OnwardPending DEF AppendEntry
    <3>2. CASE sealed[p].to # Bookkeeping
      <4>1. Moved(mem[p], sealed[p]) \in Work
        BY <2>1, <3>2, MovedType
      <4> QED
        BY <1>0, <1>work, <1>8, <2>1, <3>2, <4>1 DEF AppendEntry, LocalType, PlansPending
    <3> QED
      BY <3>1, <3>2
  <2>5. \A q \in Process : stage'[q] = "sealed" => sealed'[q].seq <= Len(log') + 1
    <3> SUFFICES ASSUME NEW q \in Process, stage'[q] = "sealed"
                 PROVE  sealed'[q].seq <= Len(log) + 2
      BY <1>0, <2>2
    <3>1. stage[q] = "sealed" /\ sealed'[q] = sealed[q]
      BY <1>0, <1>8 DEF AppendEntry, Onward, Quit, LocalType
    <3>2. sealed[q].seq <= Len(log) + 1 /\ sealed[q].seq \in Nat
      BY <1>0, <3>1 DEF LogBounds, LocalType, Entry
    <3> QED
      BY <1>0, <3>1, <3>2
  <2>6. UNCHANGED <<file, pointer, overlap>>
    BY <1>8 DEF AppendEntry
  <2> QED
    BY <1>0, <2>2, <2>3, <2>4, <2>5, <2>6 DEF TypeInv, TypeOK, LocalType, LogBounds
<1>9. ASSUME NEW p \in Process, Save(p) PROVE TypeInv'
  <2>1. mem[p] \in Work /\ Stored(mem[p]) \in [status : Status, history : Seq(Record)]
    BY <1>0, <1>work, <1>9, StoredType DEF Save, TypeOK
  <2> QED
    BY <1>0, <1>work, <1>9, <2>1 DEF Save, TypeInv, TypeOK, LogBounds, PlansPending
<1>10. ASSUME NEW p \in Process, SetPointer(p) PROVE TypeInv'
  <2>1. mem[p] \in Work /\ plan[p] # <<>> /\ mem[p].task \in Task
    BY <1>0, <1>work, <1>10 DEF SetPointer, TypeOK, PlansPending, Work
  <2>2. pointer' \in Task \union {None}
    BY <1>0, <1>10, <2>1 DEF SetPointer, TypeOK
  <2> QED
    BY <1>0, <1>10, <1>onward, <2>1, <2>2 DEF SetPointer, TypeOK
<1>11. ASSUME NEW p \in Process, Rewrite(p) PROVE TypeInv'
  <2>1. /\ mem[p] \in Work /\ plan[p] # <<>>
        /\ Stored(mem[p]) \in [status : Status, history : Seq(Record)]
    BY <1>0, <1>work, <1>11, StoredType DEF Rewrite, AtStep, TypeOK
  <2>2. file' \in [Task -> [status : Status, history : Seq(Record)]]
    BY <1>0, <1>11, <2>1 DEF Rewrite, TypeOK
  <2> QED
    BY <1>0, <1>11, <1>onward, <2>1, <2>2 DEF Rewrite, TypeOK
<1>12. ASSUME NEW p \in Process, Stop(p) PROVE TypeInv'
  BY <1>12, <1>quit DEF Stop
<1> QED
  BY <1>1, <1>2, <1>3, <1>4, <1>5, <1>6, <1>7, <1>8, <1>9, <1>10, <1>11, <1>12 DEF Next

\* Nothing logged, every assignment a draft and every process idle: the types hold.
LEMMA TypeInit == Init => TypeInv
<1> SUFFICES ASSUME Init PROVE TypeInv
  OBVIOUS
<1>1. "idle" \in Stage /\ "idle" \notin Working /\ "draft" \in Status
  BY DEF Stage, Working, Status
<1>2. <<>> \in Seq(Entry) /\ <<>> \in Seq(Record) /\ <<>> \in Seq(Step) /\ Len(<<>>) = 0
  OBVIOUS
<1>3. DOMAIN <<>> = {}
  OBVIOUS
<1>4. 0 \in 0..MaxLog
  BY StoreAssumption
<1>5. TypeOK
  BY <1>1, <1>2, <1>4 DEF Init, TypeOK
<1>6. LogBounds
  BY <1>2, <1>3, <1>4 DEF Init, LogBounds
<1>7. PlansPending
  BY <1>1 DEF Init, PlansPending
<1> QED
  BY <1>5, <1>6, <1>7 DEF TypeInv

\* Every variable of the store keeps its type, whatever processes run and stop.
THEOREM StoreTypeCorrect == Spec => []TypeOK
<1>1. TypeInv => TypeOK
  BY DEF TypeInv
<1> QED
  BY <1>1, TypeInit, TypeStep, PTL DEF Spec

-----------------------------------------------------------------------------
(* What a file cites is on the log.  The inductive invariant says the same *)
(* of what the processes hold, which is what they will save.               *)

CiteInv ==
  /\ FilesCiteLog
  /\ \A p \in Process : stage[p] \in Working => Refs(mem[p].history) \subseteq Hashes(log)

\* The log only grows: an append keeps every hash and adds the new entry's.
LEMMA HashesGrow ==
  ASSUME NEW entries \in Seq(Entry), NEW entry \in Entry
  PROVE  Hashes(Append(entries, entry)) = Hashes(entries) \union {HashOf(entry)}
<1> DEFINE longer == Append(entries, entry)
<1>1. /\ Len(entries) \in Nat
      /\ DOMAIN entries = 1..Len(entries)
      /\ DOMAIN longer = 1..(Len(entries) + 1)
      /\ \A i \in DOMAIN longer :
           longer[i] = IF i = Len(entries) + 1 THEN entry ELSE entries[i]
  OBVIOUS
<1>2. DOMAIN longer = DOMAIN entries \union {Len(entries) + 1}
  BY <1>1
<1>3. Len(entries) + 1 \notin DOMAIN entries
  BY <1>1
<1> HIDE DEF longer
<1>4. \A i \in DOMAIN entries : longer[i] = entries[i]
  BY <1>1, <1>2, <1>3
<1>5. longer[Len(entries) + 1] = entry
  BY <1>1, <1>2
<1>6. Hashes(longer) = Hashes(entries) \union {HashOf(entry)}
  BY <1>2, <1>4, <1>5 DEF Hashes
<1> QED
  BY <1>6 DEF longer

\* A transition adds its entry's hash to what the history cites, and nothing else.
LEMMA RefsGrow ==
  ASSUME NEW work \in Work, NEW entry \in Entry, entry.to # Bookkeeping
  PROVE  Refs(Moved(work, entry).history) = Refs(work.history) \union {HashOf(entry)}
<1> DEFINE h == work.history
           r == RecordOf(entry)
           longer == Append(h, r)
<1>1. Moved(work, entry).history = longer /\ longer \in Seq(Record) /\ h \in Seq(Record)
  BY MovedType DEF Moved, Work
<1>2. r \in Record
  BY StoreAssumption DEF Entry, HashOf, Hash, Record, RecordOf
<1>3. /\ Len(h) \in Nat
      /\ DOMAIN h = 1..Len(h)
      /\ DOMAIN longer = 1..(Len(h) + 1)
      /\ \A i \in DOMAIN longer : longer[i] = IF i = Len(h) + 1 THEN r ELSE h[i]
  BY <1>1, <1>2
<1>4. DOMAIN longer = DOMAIN h \union {Len(h) + 1} /\ Len(h) + 1 \notin DOMAIN h
  BY <1>3
<1>5. r.ref = HashOf(entry)
  BY DEF RecordOf
<1> HIDE DEF longer, r, h
<1>6. /\ \A i \in DOMAIN h : longer[i] = h[i]
      /\ longer[Len(h) + 1] = r
  BY <1>3, <1>4
<1>7. Refs(longer) = Refs(h) \union {HashOf(entry)}
  BY <1>4, <1>5, <1>6 DEF Refs
<1> QED
  BY <1>1, <1>7 DEF h

\* Quitting or going on, a process is left with nothing in hand or with the work it
\* goes on with, and the others are as they were.
LEMMA OnwardLocal ==
  ASSUME LocalType, NEW p \in Process, NEW work, Onward(p, work) \/ Quit(p),
         NEW q \in Process, stage'[q] \in Working
  PROVE  IF q = p THEN mem'[q] = work
                  ELSE stage'[q] = stage[q] /\ mem'[q] = mem[q] /\ sealed'[q] = sealed[q]
BY DEF LocalType, Onward, Quit, Working

\* No process is about to append when it has just gone on or quit.
LEMMA OnwardUnsealed ==
  ASSUME LocalType, NEW p \in Process, NEW work, Onward(p, work) \/ Quit(p)
  PROVE  stage'[p] # "sealed"
BY DEF LocalType, Onward, Quit

\* No step lets a file, or an assignment in memory, cite what is not on the log.
LEMMA CiteStep == TypeInv /\ CiteInv /\ [Next]_vars => CiteInv'
<1> SUFFICES ASSUME TypeInv, CiteInv, [Next]_vars PROVE CiteInv'
  OBVIOUS
<1>typed. /\ TypeOK /\ LocalType /\ log \in Seq(Entry)
          /\ \A p \in Process : stage[p] \in Working => mem[p] \in Work
  BY DEF TypeInv, TypeOK, LocalType
<1>work. Working = {"running", "sealed", "appended", "saved"}
  BY DEF Working
<1>1. CASE UNCHANGED vars
  BY <1>1 DEF vars, CiteInv, FilesCiteLog
<1>onward. ASSUME NEW p \in Process, NEW work, Onward(p, work) \/ Quit(p),
                  UNCHANGED <<log, file>>, Refs(work.history) \subseteq Hashes(log)
           PROVE  CiteInv'
  <2>1. ASSUME NEW q \in Process, stage'[q] \in Working
        PROVE  Refs(mem'[q].history) \subseteq Hashes(log)
    BY <1>typed, <1>onward, <2>1, OnwardLocal DEF CiteInv
  <2> QED
    BY <1>onward, <2>1 DEF CiteInv, FilesCiteLog
<1>2. ASSUME NEW p \in Process, ReadLog(p) PROVE CiteInv'
  BY <1>typed, <1>2 DEF ReadLog, CiteInv, FilesCiteLog, LocalType, Working
<1>3. ASSUME NEW p \in Process, VerifyFiles(p) PROVE CiteInv'
  <2>1. CASE Quit(p)
    <3>1. Refs(NoWork.history) \subseteq Hashes(log)
      BY DEF NoWork, Refs
    <3> QED
      BY <1>3, <1>onward, <2>1, <3>1 DEF VerifyFiles
  <2>2. CASE stage' = [stage EXCEPT ![p] = "loading"] /\ UNCHANGED <<plan, mem, seen, sealed>>
    BY <1>typed, <1>3, <2>2 DEF VerifyFiles, CiteInv, FilesCiteLog, LocalType, Working
  <2> QED
    BY <1>3, <2>1, <2>2 DEF VerifyFiles
<1>4. ASSUME NEW p \in Process, Load(p) PROVE CiteInv'
  <2>1. PICK t \in Task : mem' = [mem EXCEPT ![p] = Loaded(t)]
    BY <1>4 DEF Load
  <2>2. Refs(Loaded(t).history) \subseteq Hashes(log)
    BY DEF CiteInv, FilesCiteLog, Loaded
  <2> QED
    BY <1>typed, <1>4, <2>1, <2>2 DEF Load, CiteInv, FilesCiteLog, LocalType
<1>5. ASSUME NEW p \in Process, CheckSlot(p) PROVE CiteInv'
  BY <1>typed, <1>work, <1>5, <1>onward DEF CheckSlot, AtStep, CiteInv
<1>6. ASSUME NEW p \in Process, Reload(p) PROVE CiteInv'
  <2>1. mem[p].task \in Task
    BY <1>typed, <1>work, <1>6 DEF Reload, AtStep, Work
  <2>2. Refs(Loaded(mem[p].task).history) \subseteq Hashes(log)
    BY <2>1 DEF CiteInv, FilesCiteLog, Loaded
  <2> QED
    BY <1>6, <1>onward, <2>2 DEF Reload
<1>7. ASSUME NEW p \in Process, Seal(p) PROVE CiteInv'
  BY <1>typed, <1>work, <1>7 DEF Seal, CiteInv, FilesCiteLog, LocalType
<1>8. ASSUME NEW p \in Process, AppendEntry(p) PROVE CiteInv'
  <2>1. sealed[p] \in Entry /\ mem[p] \in Work /\ stage[p] \in Working
    BY <1>typed, <1>work, <1>8 DEF AppendEntry, LocalType
  <2>2. Hashes(log') = Hashes(log) \union {HashOf(sealed[p])}
    BY <1>typed, <1>8, <2>1, HashesGrow DEF AppendEntry
  <2>3. FilesCiteLog'
    BY <1>8, <2>2 DEF AppendEntry, CiteInv, FilesCiteLog
  <2>4. ASSUME NEW q \in Process, stage'[q] \in Working
        PROVE  Refs(mem'[q].history) \subseteq Hashes(log')
    <3>1. CASE sealed[p].to = Bookkeeping
      <4>1. Onward(p, mem[p])
        BY <1>8, <3>1 DEF AppendEntry
      <4>2. mem'[q] = mem[q] /\ stage[q] \in Working
        BY <1>typed, <2>1, <2>4, <4>1, OnwardLocal
      <4> QED
        BY <2>2, <4>2 DEF CiteInv
    <3>2. CASE sealed[p].to # Bookkeeping
      <4>1. /\ stage' = [stage EXCEPT ![p] = "appended"]
            /\ mem' = [mem EXCEPT ![p] = Moved(mem[p], sealed[p])]
        BY <1>8, <3>2 DEF AppendEntry
      <4>2. CASE q = p
        <5>1. mem'[q] = Moved(mem[p], sealed[p])
          BY <1>typed, <4>1, <4>2 DEF LocalType
        <5>2. Refs(mem'[q].history) = Refs(mem[p].history) \union {HashOf(sealed[p])}
          BY <2>1, <3>2, <5>1, RefsGrow
        <5> QED
          BY <2>1, <2>2, <5>2 DEF CiteInv
      <4>3. CASE q # p
        <5>1. mem'[q] = mem[q] /\ stage[q] \in Working
          BY <1>typed, <2>4, <4>1, <4>3 DEF LocalType
        <5> QED
          BY <2>2, <5>1 DEF CiteInv
      <4> QED
        BY <4>2, <4>3
    <3> QED
      BY <3>1, <3>2
  <2> QED
    BY <2>3, <2>4 DEF CiteInv
<1>9. ASSUME NEW p \in Process, Save(p) PROVE CiteInv'
  <2>1. Refs(Stored(mem[p]).history) \subseteq Hashes(log)
    BY <1>work, <1>9 DEF Save, CiteInv, Stored
  <2> QED
    BY <1>typed, <1>work, <1>9, <2>1 DEF Save, CiteInv, FilesCiteLog, TypeOK
<1>10. ASSUME NEW p \in Process, SetPointer(p) PROVE CiteInv'
  BY <1>typed, <1>work, <1>10, <1>onward DEF SetPointer, CiteInv
<1>11. ASSUME NEW p \in Process, Rewrite(p) PROVE CiteInv'
  <2>1. Refs(mem[p].history) \subseteq Hashes(log) /\ Refs(Stored(mem[p]).history) \subseteq Hashes(log)
    BY <1>work, <1>11 DEF Rewrite, AtStep, CiteInv, Stored
  <2>2. FilesCiteLog'
    BY <1>typed, <1>11, <2>1 DEF Rewrite, CiteInv, FilesCiteLog, TypeOK
  <2>3. ASSUME NEW q \in Process, stage'[q] \in Working
        PROVE  Refs(mem'[q].history) \subseteq Hashes(log')
    <3>1. Onward(p, mem[p]) /\ log' = log
      BY <1>11 DEF Rewrite
    <3> QED
      BY <1>typed, <2>1, <2>3, <3>1, OnwardLocal DEF CiteInv
  <2> QED
    BY <2>2, <2>3 DEF CiteInv
<1>12. ASSUME NEW p \in Process, Stop(p) PROVE CiteInv'
  <2>1. Refs(NoWork.history) \subseteq Hashes(log)
    BY DEF NoWork, Refs
  <2> QED
    BY <1>12, <1>onward, <2>1 DEF Stop
<1> QED
  BY <1>1, <1>2, <1>3, <1>4, <1>5, <1>6, <1>7, <1>8, <1>9, <1>10, <1>11, <1>12 DEF Next

\* The log is ahead of the files, never behind: for any number of processes stopped at
\* any step, what a file's history cites is on the log.
THEOREM FilesNeverAhead == Spec => []FilesCiteLog
<1>1. Init => TypeInv /\ CiteInv
  <2>1. Init => CiteInv
    BY DEF Init, CiteInv, FilesCiteLog, Refs, Working
  <2> QED
    BY <2>1, TypeInit
<1>2. TypeInv /\ CiteInv /\ [Next]_vars => TypeInv' /\ CiteInv'
  BY TypeStep, CiteStep
<1>3. CiteInv => FilesCiteLog
  BY DEF CiteInv
<1> QED
  BY <1>1, <1>2, <1>3, PTL DEF Spec

-----------------------------------------------------------------------------
(* Every file is a path of the state machine.  Inductively, so is all that *)
(* a process holds, and the entry it is about to append goes on from it.   *)

Follows(work) == FollowsTheTable(work.status, work.history)

GoesOn(work, entry) ==
  /\ entry.from = work.status
  /\ \E row \in Transitions :
       row.from = entry.from /\ entry.to = Target(row, Prior(work.history))

PathInv ==
  /\ FilesFollowTheTable
  /\ \A p \in Process :
       /\ stage[p] \in Working => Follows(mem[p])
       /\ stage[p] = "sealed" /\ sealed[p].to # Bookkeeping => GoesOn(mem[p], sealed[p])

\* A lawful record on top of a path of the table is a path of the table.
LEMMA MovedFollows ==
  ASSUME NEW work \in Work, NEW entry \in Entry, entry.to # Bookkeeping,
         Follows(work), GoesOn(work, entry)
  PROVE  Follows(Moved(work, entry))
<1> DEFINE h == work.history
           r == RecordOf(entry)
           longer == Append(h, r)
<1>1. /\ Moved(work, entry).history = longer
      /\ Moved(work, entry).status = entry.to
      /\ h \in Seq(Record)
  BY DEF Moved, Work
<1>2. r \in Record
  BY StoreAssumption DEF Entry, HashOf, Hash, Record, RecordOf
<1>3. /\ Len(h) \in Nat
      /\ DOMAIN h = 1..Len(h)
      /\ longer \in Seq(Record)
      /\ Len(longer) = Len(h) + 1
      /\ DOMAIN longer = 1..(Len(h) + 1)
      /\ \A i \in DOMAIN longer : longer[i] = IF i = Len(h) + 1 THEN r ELSE h[i]
  BY <1>1, <1>2
<1>4. r.from = entry.from /\ r.to = entry.to
  BY DEF RecordOf
<1>5. ASSUME NEW i \in 1..(Len(h) + 1) PROVE SubSeq(longer, 1, i - 1) = SubSeq(h, 1, i - 1)
  <2> HIDE DEF longer, r, h
  <2>1. \A j \in 1..(i - 1) : longer[j] = h[j]
    BY <1>3
  <2> QED
    BY <1>1, <1>3, <2>1
<1>6. SubSeq(h, 1, Len(h)) = h
  BY <1>1, <1>3
<1> HIDE DEF longer, r, h
<1>7. StatusConsistent(entry.to, longer)
  <2>1. longer[Len(longer)] = r /\ longer # <<>>
    BY <1>3
  <2> QED
    BY <1>4, <2>1 DEF StatusConsistent
<1>8. ASSUME NEW i \in DOMAIN longer PROVE Lawful(longer, i)
  <2>1. CASE i \in 1..Len(h)
    <3>1. Lawful(h, i)
      BY <1>3, <2>1 DEF Follows, FollowsTheTable, h
    <3>2. longer[i] = h[i]
      BY <1>3, <2>1
    <3>3. SubSeq(longer, 1, i - 1) = SubSeq(h, 1, i - 1)
      BY <1>3, <1>5
    <3>4. i # 1 => longer[i - 1] = h[i - 1]
      BY <1>3, <2>1
    <3> QED
      BY <3>1, <3>2, <3>3, <3>4 DEF Lawful
  <2>2. CASE i = Len(h) + 1
    <3>1. longer[i] = r /\ (i # 1 => longer[i - 1] = h[Len(h)])
      BY <1>3, <2>2
    <3>2. SubSeq(longer, 1, i - 1) = h
      BY <1>3, <1>5, <1>6, <2>2
    <3>3. r.from = IF i = 1 THEN "draft" ELSE h[Len(h)].to
      <4>1. i = 1 <=> h = <<>>
        BY <1>1, <1>3, <2>2
      <4>2. work.status = IF h = <<>> THEN "draft" ELSE h[Len(h)].to
        BY DEF Follows, FollowsTheTable, StatusConsistent, h
      <4> QED
        BY <1>4, <4>1, <4>2 DEF GoesOn
    <3>4. \E row \in Transitions : row.from = r.from /\ r.to = Target(row, Prior(h))
      BY <1>4 DEF GoesOn, h
    <3> QED
      BY <3>1, <3>2, <3>3, <3>4 DEF Lawful
  <2> QED
    BY <1>3, <2>1, <2>2
<1> QED
  BY <1>1, <1>7, <1>8 DEF Follows, FollowsTheTable

\* No step takes a file, or an assignment in memory, off the paths of the table.
LEMMA PathStep == TypeInv /\ PathInv /\ [Next]_vars => PathInv'
<1> SUFFICES ASSUME TypeInv, PathInv, [Next]_vars PROVE PathInv'
  OBVIOUS
<1>typed. /\ TypeOK /\ LocalType
          /\ \A p \in Process : stage[p] \in Working => mem[p] \in Work
  BY DEF TypeInv, TypeOK, LocalType
<1>work. Working = {"running", "sealed", "appended", "saved"}
  BY DEF Working
<1>1. CASE UNCHANGED vars
  BY <1>1 DEF vars, PathInv, FilesFollowTheTable
<1>onward. ASSUME NEW p \in Process, NEW work, Onward(p, work) \/ Quit(p), Follows(work),
                  FilesFollowTheTable'
           PROVE  PathInv'
  <2>1. ASSUME NEW q \in Process, stage'[q] \in Working PROVE Follows(mem'[q])
    BY <1>typed, <1>onward, <2>1, OnwardLocal DEF PathInv
  <2>2. ASSUME NEW q \in Process, stage'[q] = "sealed", sealed'[q].to # Bookkeeping
        PROVE  GoesOn(mem'[q], sealed'[q])
    <3>1. q # p /\ stage'[q] \in Working
      BY <1>typed, <1>work, <1>onward, <2>2, OnwardUnsealed
    <3> QED
      BY <1>typed, <1>onward, <2>2, <3>1, OnwardLocal DEF PathInv
  <2> QED
    BY <1>onward, <2>1, <2>2 DEF PathInv
<1>none. Follows(NoWork)
  BY DEF Follows, FollowsTheTable, StatusConsistent, NoWork
<1>2. ASSUME NEW p \in Process, ReadLog(p) PROVE PathInv'
  BY <1>typed, <1>2 DEF ReadLog, PathInv, FilesFollowTheTable, LocalType, Working
<1>3. ASSUME NEW p \in Process, VerifyFiles(p) PROVE PathInv'
  <2>1. CASE Quit(p)
    BY <1>3, <1>onward, <1>none, <2>1 DEF VerifyFiles, PathInv, FilesFollowTheTable
  <2>2. CASE stage' = [stage EXCEPT ![p] = "loading"] /\ UNCHANGED <<plan, mem, seen, sealed>>
    BY <1>typed, <1>3, <2>2 DEF VerifyFiles, PathInv, FilesFollowTheTable, LocalType, Working
  <2> QED
    BY <1>3, <2>1, <2>2 DEF VerifyFiles
<1>4. ASSUME NEW p \in Process, Load(p) PROVE PathInv'
  <2>1. PICK t \in Task : mem' = [mem EXCEPT ![p] = Loaded(t)]
    BY <1>4 DEF Load
  <2>2. Follows(Loaded(t))
    BY DEF PathInv, FilesFollowTheTable, Follows, Loaded
  <2> QED
    BY <1>typed, <1>4, <2>1, <2>2 DEF Load, PathInv, FilesFollowTheTable, LocalType
<1>5. ASSUME NEW p \in Process, CheckSlot(p) PROVE PathInv'
  <2>1. Follows(mem[p]) /\ FilesFollowTheTable'
    BY <1>work, <1>5 DEF CheckSlot, AtStep, PathInv, FilesFollowTheTable
  <2> QED
    BY <1>5, <1>onward, <2>1 DEF CheckSlot
<1>6. ASSUME NEW p \in Process, Reload(p) PROVE PathInv'
  <2>1. mem[p].task \in Task
    BY <1>typed, <1>work, <1>6 DEF Reload, AtStep, Work
  <2>2. Follows(Loaded(mem[p].task)) /\ FilesFollowTheTable'
    BY <1>6, <2>1 DEF Reload, PathInv, FilesFollowTheTable, Follows, Loaded
  <2> QED
    BY <1>6, <1>onward, <2>2 DEF Reload
<1>7. ASSUME NEW p \in Process, Seal(p) PROVE PathInv'
  <2>1. PICK to \in IF Head(plan[p]) = "note" THEN {Bookkeeping} ELSE Targets(mem[p], Head(plan[p])) :
          sealed' = [sealed EXCEPT ![p] = Sealed(p, log, mem[p].task, mem[p].status, to)]
    BY <1>7 DEF Seal
  <2>2. sealed'[p].from = mem[p].status /\ sealed'[p].to = to
    BY <1>typed, <2>1 DEF LocalType, Sealed
  <2>3. to # Bookkeeping => GoesOn(mem[p], sealed'[p])
    BY <2>1, <2>2 DEF Targets, GoesOn
  <2>4. /\ stage' = [stage EXCEPT ![p] = "sealed"] /\ stage[p] \in Working
        /\ UNCHANGED <<file, mem>>
    BY <1>work, <1>7 DEF Seal
  <2> QED
    BY <1>typed, <1>work, <2>1, <2>2, <2>3, <2>4 DEF PathInv, FilesFollowTheTable, LocalType
<1>8. ASSUME NEW p \in Process, AppendEntry(p) PROVE PathInv'
  <2>1. /\ sealed[p] \in Entry /\ mem[p] \in Work /\ stage[p] \in Working /\ Follows(mem[p])
        /\ sealed[p].to # Bookkeeping => GoesOn(mem[p], sealed[p])
        /\ FilesFollowTheTable'
    BY <1>typed, <1>work, <1>8 DEF AppendEntry, LocalType, PathInv, FilesFollowTheTable
  <2>2. CASE sealed[p].to = Bookkeeping
    BY <1>8, <1>onward, <2>1, <2>2 DEF AppendEntry
  <2>3. CASE sealed[p].to # Bookkeeping
    <3>1. Follows(Moved(mem[p], sealed[p]))
      BY <2>1, <2>3, MovedFollows
    <3>2. /\ stage' = [stage EXCEPT ![p] = "appended"]
          /\ mem' = [mem EXCEPT ![p] = Moved(mem[p], sealed[p])]
          /\ sealed' = [sealed EXCEPT ![p] = None]
      BY <1>8, <2>3 DEF AppendEntry
    <3> QED
      BY <1>typed, <2>1, <3>1, <3>2 DEF PathInv, LocalType
  <2> QED
    BY <2>2, <2>3
<1>9. ASSUME NEW p \in Process, Save(p) PROVE PathInv'
  <2>1. FollowsTheTable(Stored(mem[p]).status, Stored(mem[p]).history)
    BY <1>work, <1>9 DEF Save, PathInv, Follows, Stored
  <2>2. FilesFollowTheTable'
    BY <1>typed, <1>9, <2>1 DEF Save, PathInv, FilesFollowTheTable, TypeOK
  <2> QED
    BY <1>typed, <1>work, <1>9, <2>2 DEF Save, PathInv, LocalType
<1>10. ASSUME NEW p \in Process, SetPointer(p) PROVE PathInv'
  <2>1. Follows(mem[p]) /\ FilesFollowTheTable'
    BY <1>work, <1>10 DEF SetPointer, PathInv, FilesFollowTheTable
  <2> QED
    BY <1>10, <1>onward, <2>1 DEF SetPointer
<1>11. ASSUME NEW p \in Process, Rewrite(p) PROVE PathInv'
  <2>1. Follows(mem[p]) /\ FollowsTheTable(Stored(mem[p]).status, Stored(mem[p]).history)
    BY <1>work, <1>11 DEF Rewrite, AtStep, PathInv, Follows, Stored
  <2>2. FilesFollowTheTable'
    BY <1>typed, <1>11, <2>1 DEF Rewrite, PathInv, FilesFollowTheTable, TypeOK
  <2> QED
    BY <1>11, <1>onward, <2>1, <2>2 DEF Rewrite
<1>12. ASSUME NEW p \in Process, Stop(p) PROVE PathInv'
  BY <1>12, <1>onward, <1>none DEF Stop, PathInv, FilesFollowTheTable
<1> QED
  BY <1>1, <1>2, <1>3, <1>4, <1>5, <1>6, <1>7, <1>8, <1>9, <1>10, <1>11, <1>12 DEF Next

\* Lost updates lose whole transitions, never parts: for any number of processes that
\* overwrite each other, every file is a path of the transition table from DRAFT.
THEOREM FilesArePaths == Spec => []FilesFollowTheTable
<1>1. Init => TypeInv /\ PathInv
  <2>1. Init => PathInv
    BY DEF Init, PathInv, FilesFollowTheTable, FollowsTheTable, StatusConsistent, Working
  <2> QED
    BY <2>1, TypeInit
<1>2. TypeInv /\ PathInv /\ [Next]_vars => TypeInv' /\ PathInv'
  BY TypeStep, PathStep
<1>3. PathInv => FilesFollowTheTable
  BY DEF PathInv
<1> QED
  BY <1>1, <1>2, <1>3, PTL DEF Spec

-----------------------------------------------------------------------------
(* What a single user is owed.  As long as operations have not overlapped, *)
(* at most one process is at work, and what it has verified, loaded and    *)
(* sealed still agrees with the files when it uses it: AloneAt says so,    *)
(* stage by stage.                                                         *)

\* The events that may take an assignment into the slot from outside it.
Entering == {"start", "resume", "founder_resolve_proceed"}

\* Wherever a plan enters the slot it checks that it is free just before.
Guarded(todo) == \A i \in 2..Len(todo) : todo[i] \in Entering => todo[i - 1] = "free"

\* Nobody but t is in the slot if this status is one of it.
Admits(t, status) == status \in ActiveSlot => InSlot(file) \subseteq {t}

\* What a process that is alone knows at each of its stages.
AloneAt(p) ==
  /\ stage[p] = "checking" => seen[p] = Len(log)
  /\ stage[p] \in {"loading", "running", "sealed", "saved"} => Dropped(log, file) = {}
  /\ stage[p] \in {"running", "sealed", "saved"} => mem[p] = Loaded(mem[p].task)
  /\ stage[p] \in Working => Guarded(plan[p])
  /\ stage[p] \in {"sealed", "appended", "saved"} => Head(plan[p]) # "free"
  /\ stage[p] = "running" /\ Head(plan[p]) \in Entering => FreeFor(mem[p], Head(plan[p]))
  /\ stage[p] = "sealed" =>
       /\ sealed[p] = Sealed(p, log, mem[p].task, mem[p].status, sealed[p].to)
       /\ Admits(mem[p].task, sealed[p].to)
  /\ stage[p] = "appended" =>
       LET last == log[Len(log)] IN
       /\ log # <<>> /\ last.task = mem[p].task /\ last.to # Bookkeeping
       /\ mem[p] = Moved(Loaded(last.task), last)
       /\ HashOf(last) \notin Refs(file[last.task].history)
       /\ Admits(last.task, last.to)

AloneInv ==
  ~overlap =>
    /\ \A p, q \in Process : stage[p] # "idle" /\ stage[q] # "idle" => p = q
    /\ ChainIntact(log)
    /\ \A t \in Task : Recounts(file[t].history, t)
    /\ \A entry \in Dropped(log, file) : entry = log[Len(log)]
    /\ \A s, t \in InSlot(file) : s = t
    /\ \A p \in Process : AloneAt(p)

\* An idle process knows nothing.
LEMMA IdleAlone == ASSUME NEW p \in Process, stage'[p] = "idle" PROVE AloneAt(p)'
BY DEF AloneAt, Working

\* On a chain that links, the entry with the greatest sequence is the last line.
LEMMA ChainLast ==
  ASSUME NEW entries \in Seq(Entry), entries # <<>>, ChainIntact(entries)
  PROVE  LastEntry(entries) = entries[Len(entries)]
<1> DEFINE greatest == {i \in DOMAIN entries : \A j \in DOMAIN entries : entries[j].seq <= entries[i].seq}
<1>1. /\ Len(entries) \in Nat \ {0} /\ DOMAIN entries = 1..Len(entries)
      /\ \A i \in 1..Len(entries) : entries[i].seq = i
  BY EmptySeq, LenProperties DEF ChainIntact
<1>2. greatest = {Len(entries)}
  BY <1>1
<1> HIDE DEF greatest
<1>3. (CHOOSE i \in greatest : \A j \in greatest : j <= i) = Len(entries)
  BY <1>1, <1>2
<1> QED
  BY <1>3 DEF LastEntry, greatest

\* What is appended to a log.
LEMMA Appended ==
  ASSUME NEW entries \in Seq(Entry), NEW entry \in Entry
  PROVE  /\ Len(entries) \in Nat /\ DOMAIN entries = 1..Len(entries)
         /\ Append(entries, entry) \in Seq(Entry) /\ Append(entries, entry) # <<>>
         /\ Len(Append(entries, entry)) = Len(entries) + 1
         /\ DOMAIN Append(entries, entry) = 1..(Len(entries) + 1)
         /\ \A i \in 1..Len(entries) : Append(entries, entry)[i] = entries[i]
         /\ Append(entries, entry)[Len(entries) + 1] = entry
OBVIOUS

\* An entry sealed on a chain links to it.
LEMMA ChainGrows ==
  ASSUME NEW entries \in Seq(Entry), ChainIntact(entries),
         NEW p, NEW task, NEW from, NEW to, Sealed(p, entries, task, from, to) \in Entry
  PROVE  /\ ChainIntact(Append(entries, Sealed(p, entries, task, from, to)))
         /\ Sealed(p, entries, task, from, to).seq = Len(entries) + 1
<1> DEFINE entry == Sealed(p, entries, task, from, to)
           longer == Append(entries, entry)
<1>1. /\ Len(entries) \in Nat /\ DOMAIN entries = 1..Len(entries)
      /\ DOMAIN longer = 1..(Len(entries) + 1)
      /\ \A i \in 1..Len(entries) : longer[i] = entries[i]
      /\ longer[Len(entries) + 1] = entry
  BY Appended
<1>2. CASE entries = <<>>
  <2>1. Len(entries) = 0 /\ entry.seq = 1 /\ entry.prev = Genesis
    BY <1>2 DEF Sealed
  <2> HIDE DEF longer, entry
  <2>2. ChainIntact(longer)
    BY <1>1, <2>1 DEF ChainIntact
  <2> QED
    BY <2>1, <2>2 DEF longer, entry
<1>3. CASE entries # <<>>
  <2>1. LastEntry(entries) = entries[Len(entries)] /\ Len(entries) # 0
    BY <1>3, ChainLast, EmptySeq
  <2>2. entry.seq = entries[Len(entries)].seq + 1 /\ entry.prev = HashOf(entries[Len(entries)])
    BY <1>3, <2>1 DEF Sealed
  <2>3. entry.seq = Len(entries) + 1
    BY <1>1, <2>1, <2>2 DEF ChainIntact
  <2> HIDE DEF longer, entry
  <2>4. ASSUME NEW i \in 1..(Len(entries) + 1)
        PROVE  /\ longer[i].seq = i
               /\ longer[i].prev = IF i = 1 THEN Genesis ELSE HashOf(longer[i - 1])
    <3>1. CASE i \in 1..Len(entries)
      <4>1. i # 1 => longer[i - 1] = entries[i - 1]
        BY <1>1, <3>1
      <4> QED
        BY <1>1, <3>1, <4>1 DEF ChainIntact
    <3>2. CASE i = Len(entries) + 1
      <4>1. longer[i - 1] = entries[Len(entries)] /\ i # 1 /\ longer[i] = entry
        BY <1>1, <2>1, <3>2
      <4> QED
        BY <2>2, <2>3, <3>2, <4>1
    <3> QED
      BY <1>1, <3>1, <3>2
  <2>5. ChainIntact(longer)
    BY <1>1, <2>4 DEF ChainIntact
  <2> QED
    BY <2>3, <2>5 DEF longer, entry
<1> QED
  BY <1>2, <1>3

\* An append drops nothing but, until it is saved, the transition appended.
LEMMA DroppedGrows ==
  ASSUME NEW entries \in Seq(Entry), NEW entry \in Entry, NEW files,
         NEW x \in Dropped(Append(entries, entry), files)
  PROVE  x \in Dropped(entries, files) \/ (x = entry /\ entry.to # Bookkeeping)
<1>1. PICK i \in 1..(Len(entries) + 1) : x = Append(entries, entry)[i]
  BY Appended DEF Dropped
<1>2. x.to # Bookkeeping /\ HashOf(x) \notin Refs(files[x.task].history)
  BY DEF Dropped
<1>3. CASE i \in 1..Len(entries)
  BY <1>1, <1>2, <1>3, Appended DEF Dropped
<1>4. CASE i = Len(entries) + 1
  BY <1>1, <1>2, <1>4, Appended
<1> QED
  BY <1>3, <1>4, Appended

\* A history does not cite an entry sealed after all it recounts.
LEMMA NewHash ==
  ASSUME log \in Seq(Entry), ChainIntact(log), NEW t, NEW history, Recounts(history, t),
         NEW entry, entry.seq = Len(log) + 1
  PROVE  HashOf(entry) \notin Refs(history)
<1> SUFFICES ASSUME NEW i \in DOMAIN history, history[i].ref = HashOf(entry) PROVE FALSE
  BY DEF Refs
<1>1. PICK k \in DOMAIN log : history[i] = RecordOf(log[k])
  BY DEF Recounts
<1>2. HashOf(log[k]) = HashOf(entry)
  BY <1>1 DEF RecordOf
<1>3. log[k].seq = k /\ k \in 1..Len(log) /\ Len(log) \in Nat
  BY DEF ChainIntact
<1>4. log[k].seq = entry.seq
  BY <1>2 DEF HashOf
<1> QED
  BY <1>3, <1>4

\* The record of the log's last transition on top of a history that recounts the log
\* up to it recounts the log.
LEMMA RecountsMore ==
  ASSUME log \in Seq(Entry), log # <<>>, ChainIntact(log),
         NEW history \in Seq(Record), Recounts(history, log[Len(log)].task),
         log[Len(log)].to # Bookkeeping, HashOf(log[Len(log)]) \notin Refs(history)
  PROVE  Recounts(Append(history, RecordOf(log[Len(log)])), log[Len(log)].task)
<1> DEFINE last == log[Len(log)]
           r == RecordOf(last)
           longer == Append(history, r)
<1>1. /\ Len(history) \in Nat /\ DOMAIN history = 1..Len(history)
      /\ DOMAIN longer = 1..(Len(history) + 1)
      /\ \A i \in 1..Len(history) : longer[i] = history[i]
      /\ longer[Len(history) + 1] = r
  OBVIOUS
<1>2. /\ Len(log) \in Nat \ {0} /\ DOMAIN log = 1..Len(log)
      /\ \A k \in 1..Len(log) : log[k].seq = k
  BY EmptySeq, LenProperties DEF ChainIntact
<1>3. r.ref[1] = Len(log) /\ r.ref = HashOf(last)
  <2>1. last.seq = Len(log)
    BY <1>2
  <2> QED
    BY <2>1 DEF RecordOf, HashOf
<1>4. ASSUME NEW i \in 1..Len(history) PROVE history[i].ref[1] < Len(log)
  <2>1. PICK k \in 1..Len(log) : history[i] = RecordOf(log[k])
    BY <1>1, <1>2 DEF Recounts
  <2>2. history[i].ref = HashOf(log[k])
    BY <2>1 DEF RecordOf
  <2>3. k # Len(log)
    BY SMTT(30), <1>1, <2>2 DEF Refs
  <2>4. history[i].ref[1] = k
    BY <1>2, <2>2 DEF HashOf
  <2>5. k < Len(log)
    <3> DEFINE n == Len(log)
    <3>1. n \in Nat /\ k \in 1..n /\ k # n
      BY <1>2, <2>3
    <3> HIDE DEF n
    <3>2. k < n
      BY <3>1
    <3> QED
      BY <3>2 DEF n
  <2> QED
    BY <2>4, <2>5
<1>5. ASSUME NEW i \in 1..(Len(history) + 1)
      PROVE  \E k \in DOMAIN log : /\ log[k].task = last.task /\ log[k].to # Bookkeeping
                                  /\ longer[i] = RecordOf(log[k])
  <2>1. CASE i \in 1..Len(history)
    BY <1>1, <2>1 DEF Recounts
  <2>2. CASE i = Len(history) + 1
    BY <1>1, <1>2, <2>2
  <2> QED
    BY <1>1, <2>1, <2>2
<1>6. ASSUME NEW i \in 1..(Len(history) + 1), NEW j \in 1..(Len(history) + 1), i < j
      PROVE  longer[i].ref[1] < longer[j].ref[1]
  <2>1. i \in 1..Len(history) /\ longer[i] = history[i]
    BY <1>1, <1>6
  <2>2. CASE j \in 1..Len(history)
    BY <1>1, <1>6, <2>1, <2>2 DEF Recounts
  <2>3. CASE j = Len(history) + 1
    BY <1>1, <1>3, <1>4, <2>1, <2>3
  <2> QED
    BY <1>1, <2>2, <2>3
<1> HIDE DEF last, r, longer
<1>7. Recounts(longer, last.task)
  BY <1>1, <1>5, <1>6 DEF Recounts
<1> QED
  BY <1>7 DEF longer, r, last

\* Past its first step, a plan is guarded as the whole is, and enters the slot first
\* only when the step it has behind it was the check.
LEMMA GuardedTail ==
  ASSUME NEW todo \in Seq(Step), todo # <<>>, Len(todo) # 1, Guarded(todo)
  PROVE  /\ Guarded(Tail(todo)) /\ Head(Tail(todo)) = todo[2]
         /\ Head(Tail(todo)) \in Entering => Head(todo) = "free"
<1>1. Len(todo) \in Nat /\ Len(todo) >= 2
  <2> DEFINE n == Len(todo)
  <2>1. n \in Nat /\ n # 0 /\ n # 1
    OBVIOUS
  <2> HIDE DEF n
  <2>2. n \in Nat /\ n >= 2
    BY <2>1
  <2> QED
    BY <2>2 DEF n
<1>2. /\ Len(Tail(todo)) = Len(todo) - 1 /\ Head(todo) = todo[1]
      /\ \A i \in 1..(Len(todo) - 1) : Tail(todo)[i] = todo[i + 1]
  BY <1>1
<1>3. Head(Tail(todo)) = todo[2]
  BY <1>1, <1>2
<1>4. Guarded(Tail(todo))
  <2> SUFFICES ASSUME NEW i \in 2..(Len(todo) - 1), Tail(todo)[i] \in Entering
               PROVE  Tail(todo)[i - 1] = "free"
    BY <1>2 DEF Guarded
  <2>1. Tail(todo)[i] = todo[i + 1] /\ Tail(todo)[i - 1] = todo[i] /\ i + 1 \in 2..Len(todo)
    BY <1>1, <1>2
  <2>2. (i + 1) - 1 = i
    BY <1>1
  <2> QED
    BY <2>1, <2>2 DEF Guarded
<1>5. todo[2] \in Entering => todo[1] = "free"
  <2>1. 2 \in 2..Len(todo) /\ 2 - 1 = 1
    BY <1>1
  <2> QED
    BY <2>1 DEF Guarded
<1> QED
  BY <1>2, <1>3, <1>4, <1>5

\* Every operation that enters the slot checks it just before.
LEMMA PlansGuarded ==
  ASSUME NEW status, NEW todo \in Plans(status)
  PROVE  Guarded(todo) /\ Head(todo) \notin Entering
<1>1. ASSUME NEW event PROVE Guarded(PlanOf(event)) /\ Head(PlanOf(event)) \notin Entering
  BY DEF PlanOf, Guarded, Entering
<1>2. ASSUME NEW v \in Verdict
      PROVE  /\ Guarded(<<"verify_start", v, "rewrite">>)
             /\ Guarded(<<"submit", "verify_start", v, "rewrite">>)
             /\ Head(<<"verify_start", v, "rewrite">>) = "verify_start"
             /\ Head(<<"submit", "verify_start", v, "rewrite">>) = "submit"
  BY DEF Guarded, Entering, Verdict
<1>3. {"verify_start", "submit", "note", "rewrite"} \intersect Entering = {}
  BY DEF Entering
<1>4. Guarded(<<"note">>) /\ Guarded(<<"rewrite", "note">>)
  BY DEF Guarded, Entering
<1>5. CASE \E row \in Transitions : todo = PlanOf(row.event)
  BY <1>1, <1>5
<1>6. CASE \E v \in Verdict : todo = <<"verify_start", v, "rewrite">>
  BY <1>2, <1>3, <1>6
<1>7. CASE \E v \in Verdict : todo = <<"submit", "verify_start", v, "rewrite">>
  BY <1>2, <1>3, <1>7
<1>8. CASE todo \in {<<"note">>, <<"rewrite", "note">>}
  BY <1>3, <1>4, <1>8
<1> QED
  BY <1>5, <1>6, <1>7, <1>8 DEF Plans

\* Going on with the work as its file has it, alone, when all that was appended is saved.
LEMMA OnwardAlone ==
  ASSUME LocalType, NEW p \in Process, plan[p] # <<>>, Guarded(plan[p]),
         NEW work, Onward(p, work), work = Loaded(work.task), UNCHANGED file,
         Dropped(log', file) = {},
         Len(plan[p]) # 1 /\ Head(plan[p]) = "free" => FreeFor(work, plan[p][2])
  PROVE  AloneAt(p)'
<1>1. CASE Quit(p)
  <2>1. stage'[p] = "idle"
    BY <1>1 DEF Quit, LocalType
  <2> QED
    BY <2>1, IdleAlone
<1>2. CASE Len(plan[p]) # 1
  <2>1. /\ stage'[p] = "running" /\ plan'[p] = Tail(plan[p]) /\ mem'[p] = work
    BY <1>2 DEF Onward, LocalType
  <2>2. /\ Guarded(Tail(plan[p])) /\ Head(Tail(plan[p])) = plan[p][2]
        /\ Head(Tail(plan[p])) \in Entering => Head(plan[p]) = "free"
    <3>1. plan[p] \in Seq(Step)
      BY DEF LocalType
    <3> QED
      BY <1>2, <3>1, GuardedTail
  <2>3. mem'[p] = Loaded(mem[p].task)'
    BY <2>1 DEF Loaded
  <2>4. Head(plan'[p]) \in Entering => FreeFor(mem[p], Head(plan[p]))'
    BY <1>2, <2>1, <2>2 DEF FreeFor
  <2>5. Dropped(log, file)' = {}
    OBVIOUS
  <2>6. Guarded(plan'[p])
    BY <2>1, <2>2
  <2> QED
    BY <2>1, <2>3, <2>4, <2>5, <2>6 DEF AloneAt
<1> QED
  BY <1>1, <1>2 DEF Onward

\* Entering the slot from outside takes one of three events, and a proceed enters only
\* the status it restores.
LEMMA EnteringRows ==
  \A row \in Transitions : \A before :
    LET to == Target(row, before) IN
    to \in ActiveSlot /\ row.from \notin ActiveSlot =>
      /\ row.event \in Entering
      /\ row.event = "founder_resolve_proceed" => to = before
BY DEF Transitions, Row, Target, PriorState, ActiveSlot, Entering

\* A transition that a process which is alone seals into the slot finds nobody else in it.
LEMMA SealAdmits ==
  ASSUME TypeOK, NEW work \in Work, NEW event, work = Loaded(work.task),
         \A s, t \in InSlot(file) : s = t, event \in Entering => FreeFor(work, event),
         NEW to \in Targets(work, event)
  PROVE  Admits(work.task, to)
<1>1. PICK row \in Transitions : /\ row.from = work.status /\ row.event = event
                                 /\ to = Target(row, Prior(work.history))
  BY DEF Targets
<1>2. work.task \in Task /\ work.status = file[work.task].status
  <2>1. work.task \in Task
    BY DEF Work
  <2> QED
    BY <2>1 DEF Loaded
<1> SUFFICES ASSUME to \in ActiveSlot PROVE InSlot(file) \subseteq {work.task}
  BY DEF Admits
<1>3. CASE row.from \in ActiveSlot
  BY <1>1, <1>2, <1>3 DEF InSlot
<1>4. CASE row.from \notin ActiveSlot
  <2>1. event \in Entering /\ (event = "founder_resolve_proceed" => to = Prior(work.history))
    BY <1>1, <1>4, EnteringRows
  <2> QED
    BY <2>1 DEF FreeFor
<1> QED
  BY <1>3, <1>4

\* The step that is in progress when an entry is sealed is not the check of the slot.
LEMMA SealedStep ==
  ASSUME NEW s, NEW work, NEW to \in IF s = "note" THEN {Bookkeeping} ELSE Targets(work, s)
  PROVE  s # "free" /\ (s # "note" => to \in Targets(work, s)) /\ (s = "note" => to = Bookkeeping)
<1>1. \A row \in Transitions : row.event # "free"
  BY SMTT(30) DEF Transitions, Row
<1> QED
  BY <1>1 DEF Targets

\* A process that is alone saves the transition it appended: nothing is lost, and the
\* file's history is again what the log has.
LEMMA SaveAlone ==
  ASSUME TypeOK, NEW last, last = log[Len(log)], log # <<>>, last.to # Bookkeeping, last.task \in Task,
         ChainIntact(log), \A t \in Task : Recounts(file[t].history, t),
         \A entry \in Dropped(log, file) : entry = last,
         HashOf(last) \notin Refs(file[last.task].history),
         Admits(last.task, last.to), \A s, t \in InSlot(file) : s = t,
         file' = [file EXCEPT ![last.task] = Stored(Moved(Loaded(last.task), last))],
         UNCHANGED log
  PROVE  /\ Dropped(log, file)' = {}
         /\ \A t \in Task : Recounts(file[t].history, t)'
         /\ \A s, t \in InSlot(file)' : s = t
         /\ Stored(Moved(Loaded(last.task), last)) = file'[last.task]
<1> DEFINE h == file[last.task].history
<1>1. /\ log \in Seq(Entry) /\ file \in [Task -> [status : Status, history : Seq(Record)]]
      /\ h \in Seq(Record)
  BY DEF TypeOK
<1>2. last \in Entry
  <2>1. Len(log) \in DOMAIN log
    BY <1>1
  <2> QED
    BY <1>1, <2>1, ElementOfSeq
<1>3. file' = [file EXCEPT ![last.task] = [status |-> last.to, history |-> Append(h, RecordOf(last))]]
  BY DEF Stored, Moved, Loaded
<1>4. /\ file'[last.task].status = last.to
      /\ file'[last.task].history = Append(h, RecordOf(last))
      /\ \A t \in Task \ {last.task} : file'[t] = file[t]
  BY <1>1, <1>3
<1>5. Refs(Append(h, RecordOf(last))) = Refs(h) \union {HashOf(last)}
  <2>1. Loaded(last.task) \in Work /\ Loaded(last.task).history = h
    BY LoadedType DEF Loaded
  <2>2. Moved(Loaded(last.task), last).history = Append(h, RecordOf(last))
    BY <2>1 DEF Moved
  <2> QED
    BY <1>2, <2>1, <2>2, RefsGrow
<1>6. Dropped(log, file)' = {}
  <2> SUFFICES ASSUME NEW x \in Dropped(log, file') PROVE FALSE
    OBVIOUS
  <2>1. x.to # Bookkeeping /\ HashOf(x) \notin Refs(file'[x.task].history)
        /\ x \in {log[i] : i \in DOMAIN log}
    BY DEF Dropped
  <2>2. x \in Entry
    BY <1>1, <2>1, ElementOfSeq
  <2>3. x.task \in Task
    BY SMTT(30), <2>2 DEF Entry
  <2>4. Refs(file[x.task].history) \subseteq Refs(file'[x.task].history)
    BY <1>4, <1>5, <2>3
  <2>5. x \in Dropped(log, file)
    BY <2>1, <2>4 DEF Dropped
  <2>6. x = last
    BY <2>5
  <2> QED
    BY <1>4, <1>5, <2>1, <2>6
<1>7. ASSUME NEW t \in Task PROVE Recounts(file[t].history, t)'
  <2>1. Recounts(file'[t].history, t)
    <3>1. CASE t = last.task
      <4>1. Recounts(Append(h, RecordOf(last)), last.task)
        BY <1>1, RecountsMore
      <4> QED
        BY <1>4, <3>1, <4>1
    <3>2. CASE t # last.task
      BY <1>4, <3>2
    <3> QED
      BY <3>1, <3>2
  <2> QED
    BY <2>1 DEF Recounts
<1>8. \A s, t \in InSlot(file)' : s = t
  BY <1>4 DEF InSlot, Admits
<1> QED
  BY <1>1, <1>3, <1>4, <1>6, <1>7, <1>8 DEF Stored, Moved, Loaded

\* Every step of a process that is alone keeps what it knows and what the user is owed.
LEMMA AloneStep == TypeInv /\ AloneInv /\ [Next]_vars => AloneInv'
<1> SUFFICES ASSUME TypeInv, AloneInv, [Next]_vars, ~overlap' PROVE AloneInv'
  BY DEF AloneInv
<1>typed. /\ TypeOK /\ LocalType /\ log \in Seq(Entry)
          /\ file \in [Task -> [status : Status, history : Seq(Record)]]
          /\ \A p \in Process : stage[p] \in Working => mem[p] \in Work /\ plan[p] # <<>>
  BY DEF TypeInv, TypeOK, LocalType, PlansPending
<1>work. Working = {"running", "sealed", "appended", "saved"}
  BY DEF Working
<1>before. ~overlap
  BY DEF Next, ReadLog, VerifyFiles, Load, CheckSlot, Reload, Seal, AppendEntry, Save, SetPointer,
         Rewrite, Stop, vars
<1>alone. /\ \A p, q \in Process : stage[p] # "idle" /\ stage[q] # "idle" => p = q
          /\ ChainIntact(log)
          /\ \A t \in Task : Recounts(file[t].history, t)
          /\ \A entry \in Dropped(log, file) : entry = log[Len(log)]
          /\ \A s, t \in InSlot(file) : s = t
          /\ \A p \in Process : AloneAt(p)
  BY <1>before DEF AloneInv
<1>still. CASE UNCHANGED vars
  BY <1>still DEF vars, AloneInv, AloneAt, Loaded, Admits, FreeFor, Recounts
<1>move. ASSUME NEW p \in Process, \A q \in Process \ {p} : stage'[q] = "idle", AloneAt(p)',
                ChainIntact(log)', \A t \in Task : Recounts(file[t].history, t)',
                \A entry \in Dropped(log, file)' : entry = log'[Len(log')],
                \A s, t \in InSlot(file)' : s = t
         PROVE  AloneInv'
  <2>1. \A q \in Process : AloneAt(q)'
    BY <1>move, IdleAlone
  <2> QED
    BY <1>move, <2>1 DEF AloneInv
<1>local. ASSUME NEW p \in Process, \A q \in Process \ {p} : stage'[q] = "idle", AloneAt(p)',
                 UNCHANGED <<log, file>>
          PROVE  AloneInv'
  BY <1>move, <1>local, <1>alone DEF Recounts
<1>others. ASSUME NEW p \in Process, stage[p] # "idle", NEW s, stage' = [stage EXCEPT ![p] = s]
           PROVE  \A q \in Process \ {p} : stage'[q] = "idle"
  BY <1>others, <1>alone, <1>typed DEF LocalType
<1>onward. ASSUME NEW p \in Process, stage[p] \in Working, NEW work, Onward(p, work) \/ Quit(p)
           PROVE  \A q \in Process \ {p} : stage'[q] = "idle"
  BY <1>onward, <1>others, <1>work DEF Onward, Quit
<1>quit. ASSUME NEW p \in Process, stage[p] # "idle", Quit(p), UNCHANGED <<log, file>> PROVE AloneInv'
  <2>1. stage'[p] = "idle" /\ \A q \in Process \ {p} : stage'[q] = "idle"
    BY <1>quit, <1>others, <1>typed DEF Quit, LocalType
  <2> QED
    BY <1>quit, <1>local, <2>1, IdleAlone
<1>2. ASSUME NEW p \in Process, ReadLog(p) PROVE AloneInv'
  <2>1. \A q \in Process \ {p} : stage'[q] = "idle"
    BY <1>2, <1>typed DEF ReadLog, LocalType
  <2>2. AloneAt(p)'
    BY <1>2, <1>typed DEF ReadLog, LocalType, AloneAt, Working
  <2> QED
    BY <1>2, <1>local, <2>1, <2>2 DEF ReadLog
<1>3. ASSUME NEW p \in Process, VerifyFiles(p) PROVE AloneInv'
  <2>1. CASE Quit(p)
    BY <1>3, <1>quit, <2>1 DEF VerifyFiles
  <2>2. CASE StateVerifies(SubSeq(log, 1, seen[p]), file) /\ stage' = [stage EXCEPT ![p] = "loading"]
    <3>1. seen[p] = Len(log)
      BY <1>3, <1>alone DEF VerifyFiles, AloneAt
    <3>2. SubSeq(log, 1, Len(log)) = log
      BY <1>typed
    <3>3. Dropped(log, file) = {}
      BY <2>2, <3>1, <3>2 DEF StateVerifies
    <3>4. AloneAt(p)'
      BY <1>3, <1>typed, <2>2, <3>3 DEF VerifyFiles, LocalType, AloneAt, Working
    <3> QED
      BY <1>3, <1>local, <1>others, <2>2, <3>4 DEF VerifyFiles
  <2> QED
    BY <1>3, <2>1, <2>2 DEF VerifyFiles
<1>4. ASSUME NEW p \in Process, Load(p) PROVE AloneInv'
  <2>1. PICK t \in Task : \E todo \in Plans(file[t].status) :
          mem' = [mem EXCEPT ![p] = Loaded(t)] /\ plan' = [plan EXCEPT ![p] = todo]
    BY <1>4 DEF Load
  <2>2. PICK todo \in Plans(file[t].status) :
          mem' = [mem EXCEPT ![p] = Loaded(t)] /\ plan' = [plan EXCEPT ![p] = todo]
    BY <2>1
  <2>3. Guarded(todo) /\ Head(todo) \notin Entering
    BY PlansGuarded
  <2>4. stage'[p] = "running" /\ plan'[p] = todo /\ mem'[p] = Loaded(t)
        /\ UNCHANGED <<log, file>> /\ stage[p] = "loading"
    BY <1>4, <1>typed, <2>2 DEF Load, LocalType
  <2>5. mem'[p] = Loaded(mem[p].task)'
    BY <2>4 DEF Loaded
  <2>6. Dropped(log, file)' = {}
    BY <1>alone, <2>4 DEF AloneAt
  <2>7. AloneAt(p)'
    BY <2>3, <2>4, <2>5, <2>6 DEF AloneAt
  <2> QED
    BY <1>4, <1>local, <1>others, <2>4, <2>7 DEF Load
<1>5. ASSUME NEW p \in Process, CheckSlot(p) PROVE AloneInv'
  <2>1. CASE Quit(p)
    BY <1>5, <1>quit, <2>1 DEF CheckSlot, AtStep
  <2>2. CASE FreeFor(mem[p], plan[p][2]) /\ Onward(p, mem[p])
    <3>1. /\ stage[p] = "running" /\ stage[p] \in Working /\ UNCHANGED <<log, file>>
          /\ Guarded(plan[p]) /\ mem[p] = Loaded(mem[p].task) /\ Dropped(log, file) = {}
          /\ plan[p] # <<>>
      BY <1>5, <1>alone, <1>work DEF CheckSlot, AtStep, AloneAt
    <3>2. AloneAt(p)'
      BY <1>typed, <2>2, <3>1, OnwardAlone
    <3> QED
      BY <1>local, <1>onward, <2>2, <3>1, <3>2
  <2> QED
    BY <1>5, <2>1, <2>2 DEF CheckSlot
<1>6. ASSUME NEW p \in Process, Reload(p) PROVE AloneInv'
  <2>1. CASE Quit(p)
    BY <1>6, <1>quit, <2>1 DEF Reload, AtStep
  <2>2. CASE Onward(p, Loaded(mem[p].task))
    <3>1. /\ stage[p] = "running" /\ stage[p] \in Working /\ UNCHANGED <<log, file>>
          /\ Guarded(plan[p]) /\ Dropped(log, file) = {}
          /\ plan[p] # <<>> /\ Head(plan[p]) = "reload"
      BY <1>6, <1>alone, <1>work DEF Reload, AtStep, AloneAt
    <3>2. Loaded(mem[p].task) = Loaded(Loaded(mem[p].task).task)
      BY DEF Loaded
    <3>3. AloneAt(p)'
      BY <1>typed, <2>2, <3>1, <3>2, OnwardAlone
    <3> QED
      BY <1>local, <1>onward, <2>2, <3>1, <3>3
  <2> QED
    BY <1>6, <2>1, <2>2 DEF Reload
<1>7. ASSUME NEW p \in Process, Seal(p) PROVE AloneInv'
  <2>1. PICK to \in IF Head(plan[p]) = "note" THEN {Bookkeeping} ELSE Targets(mem[p], Head(plan[p])) :
          sealed' = [sealed EXCEPT ![p] = Sealed(p, log, mem[p].task, mem[p].status, to)]
    BY <1>7 DEF Seal
  <2>2. /\ stage[p] = "running" /\ stage[p] \in Working
        /\ mem[p] = Loaded(mem[p].task) /\ mem[p] \in Work
        /\ Guarded(plan[p]) /\ Dropped(log, file) = {}
        /\ Head(plan[p]) \in Entering => FreeFor(mem[p], Head(plan[p]))
        /\ UNCHANGED <<log, file, plan, mem>>
    BY <1>7, <1>typed, <1>alone, <1>work DEF Seal, AloneAt
  <2>3. stage'[p] = "sealed" /\ sealed'[p] = Sealed(p, log, mem[p].task, mem[p].status, to)
    BY <1>7, <1>typed, <2>1 DEF Seal, LocalType
  <2>4. sealed'[p].to = to
    BY <2>3 DEF Sealed
  <2>5. Admits(mem[p].task, to)
    <3>1. CASE Head(plan[p]) = "note"
      BY <3>1, <2>1, SealedStep DEF Admits, Bookkeeping, ActiveSlot
    <3>2. CASE Head(plan[p]) # "note"
      <4>1. to \in Targets(mem[p], Head(plan[p]))
        BY <2>1, <3>2
      <4> QED
        BY <1>typed, <1>alone, <2>2, <4>1, SealAdmits
    <3> QED
      BY <3>1, <3>2
  <2>6. Head(plan[p]) # "free"
    BY <2>1, SealedStep
  <2>7. mem'[p] = Loaded(mem[p].task)' /\ Admits(mem[p].task, sealed[p].to)'
    BY <2>2, <2>4, <2>5 DEF Loaded, Admits
  <2>8. AloneAt(p)'
    BY <2>2, <2>3, <2>4, <2>6, <2>7 DEF AloneAt
  <2> QED
    BY <1>7, <1>local, <1>others, <2>2, <2>8 DEF Seal
<1>8. ASSUME NEW p \in Process, AppendEntry(p) PROVE AloneInv'
  <2>0. PICK entry : entry = sealed[p]
    OBVIOUS
  <2>1. /\ stage[p] = "sealed" /\ stage[p] \in Working /\ entry \in Entry /\ mem[p] \in Work
        /\ plan[p] # <<>> /\ mem[p] = Loaded(mem[p].task) /\ Dropped(log, file) = {}
        /\ Guarded(plan[p]) /\ Head(plan[p]) # "free"
        /\ entry = Sealed(p, log, mem[p].task, mem[p].status, entry.to)
        /\ Admits(mem[p].task, entry.to)
        /\ log' = Append(log, entry) /\ UNCHANGED file
    BY <1>8, <2>0, <1>typed, <1>alone, <1>work DEF AppendEntry, AloneAt, LocalType
  <2>2. entry.task = mem[p].task /\ entry.from = mem[p].status
    BY <2>1 DEF Sealed
  <2>3. ChainIntact(log') /\ entry.seq = Len(log) + 1
    BY <1>typed, <1>alone, <2>1, ChainGrows
  <2>4. /\ log' # <<>> /\ log'[Len(log')] = entry
        /\ \A k \in DOMAIN log : k \in DOMAIN log' /\ log'[k] = log[k]
    BY <1>typed, <2>1, Appended
  <2>5. \A t \in Task : Recounts(file[t].history, t)'
    BY <1>alone, <2>1, <2>4 DEF Recounts
  <2>6. \A x \in Dropped(log', file) : x = entry /\ entry.to # Bookkeeping
    BY <1>typed, <2>1, DroppedGrows
  <2>7. \A s, t \in InSlot(file)' : s = t
    BY <1>alone, <2>1
  <2>8. CASE entry.to = Bookkeeping
    <3>1. Onward(p, mem[p])
      BY <1>8, <2>0, <2>8 DEF AppendEntry
    <3>2. Dropped(log', file) = {}
      BY <2>6, <2>8
    <3>3. AloneAt(p)'
      BY <1>typed, <2>1, <3>1, <3>2, OnwardAlone
    <3> QED
      BY <1>move, <1>onward, <2>1, <2>3, <2>4, <2>5, <2>6, <2>7, <3>1, <3>3
  <2>9. CASE entry.to # Bookkeeping
    <3>1. /\ stage' = [stage EXCEPT ![p] = "appended"]
          /\ stage'[p] = "appended" /\ mem'[p] = Moved(mem[p], entry) /\ plan' = plan
      BY <1>8, <2>0, <1>typed, <2>9 DEF AppendEntry, LocalType
    <3>2. mem[p].task \in Task
      BY <2>1 DEF Work
    <3>3. HashOf(entry) \notin Refs(file[mem[p].task].history)
      BY <1>typed, <1>alone, <2>3, <3>2, NewHash
    <3>4. mem'[p].task = mem[p].task /\ mem'[p] = Moved(Loaded(entry.task), entry)'
      <4>1. mem'[p].task = mem[p].task
        BY <3>1 DEF Moved
      <4>2. Loaded(entry.task)' = Loaded(entry.task)
        BY <2>1 DEF Loaded
      <4>3. mem'[p] = Moved(Loaded(entry.task), entry)
        BY <2>1, <2>2, <3>1
      <4> QED
        BY <4>1, <4>2, <4>3 DEF Moved
    <3>5. Admits(entry.task, entry.to)'
      BY <2>1, <2>2 DEF Admits
    <3>6. AloneAt(p)'
      BY SMTT(30), <2>1, <2>2, <2>4, <2>9, <3>1, <3>3, <3>4, <3>5 DEF AloneAt
    <3> QED
      BY <1>move, <1>others, <2>1, <2>3, <2>4, <2>5, <2>6, <2>7, <3>1, <3>6
  <2> QED
    BY <2>8, <2>9
<1>9. ASSUME NEW p \in Process, Save(p) PROVE AloneInv'
  <2> DEFINE last == log[Len(log)]
  <2>1. /\ stage[p] = "appended" /\ stage[p] \in Working /\ mem[p] \in Work /\ plan[p] # <<>>
        /\ log # <<>> /\ last.task = mem[p].task /\ last.to # Bookkeeping
        /\ mem[p] = Moved(Loaded(last.task), last)
        /\ HashOf(last) \notin Refs(file[last.task].history)
        /\ Admits(last.task, last.to) /\ Guarded(plan[p]) /\ Head(plan[p]) # "free"
        /\ file' = [file EXCEPT ![mem[p].task] = Stored(mem[p])]
        /\ UNCHANGED <<log, plan, mem>>
    BY <1>9, <1>typed, <1>alone, <1>work DEF Save, AloneAt
  <2> HIDE DEF last
  <2>2. last.task \in Task
    BY <2>1 DEF Work
  <2>3. /\ Dropped(log, file)' = {}
        /\ \A t \in Task : Recounts(file[t].history, t)'
        /\ \A s, t \in InSlot(file)' : s = t
        /\ Stored(mem[p]) = file'[last.task]
    BY <1>typed, <1>alone, <2>1, <2>2, SaveAlone DEF last
  <2>4. mem'[p] = Loaded(mem[p].task)'
    <3>1. mem[p] = [task |-> mem[p].task, status |-> mem[p].status, history |-> mem[p].history]
      BY <2>1 DEF Work
    <3>2. /\ file'[mem[p].task].status = mem[p].status
          /\ file'[mem[p].task].history = mem[p].history
      BY <2>1, <2>3 DEF Stored
    <3>3. mem' = mem
      BY <2>1
    <3> QED
      BY <3>1, <3>2, <3>3 DEF Loaded
  <2>5. stage'[p] = "saved" /\ stage' = [stage EXCEPT ![p] = "saved"]
    BY <1>9, <1>typed DEF Save, LocalType
  <2>6. AloneAt(p)'
    BY <2>1, <2>3, <2>4, <2>5 DEF AloneAt
  <2> QED
    BY <1>move, <1>others, <1>alone, <2>1, <2>3, <2>5, <2>6
<1>10. ASSUME NEW p \in Process, SetPointer(p) PROVE AloneInv'
  <2>1. /\ stage[p] = "saved" /\ stage[p] \in Working /\ UNCHANGED <<log, file>>
        /\ Guarded(plan[p]) /\ mem[p] = Loaded(mem[p].task) /\ Dropped(log, file) = {}
        /\ plan[p] # <<>> /\ Head(plan[p]) # "free" /\ Onward(p, mem[p])
    BY <1>10, <1>typed, <1>alone, <1>work DEF SetPointer, AloneAt
  <2>2. AloneAt(p)'
    BY <1>typed, <2>1, OnwardAlone
  <2> QED
    BY <1>local, <1>onward, <2>1, <2>2
<1>11. ASSUME NEW p \in Process, Rewrite(p) PROVE AloneInv'
  <2>1. /\ stage[p] = "running" /\ stage[p] \in Working /\ UNCHANGED log /\ mem[p] \in Work
        /\ Guarded(plan[p]) /\ mem[p] = Loaded(mem[p].task) /\ Dropped(log, file) = {}
        /\ plan[p] # <<>> /\ Head(plan[p]) = "rewrite" /\ Onward(p, mem[p])
        /\ file' = [file EXCEPT ![mem[p].task] = Stored(mem[p])]
    BY <1>11, <1>typed, <1>alone, <1>work DEF Rewrite, AtStep, AloneAt
  <2>2. mem[p].task \in Task /\ Stored(mem[p]) = file[mem[p].task]
    <3>1. mem[p].task \in Task
      BY <2>1 DEF Work
    <3>2. file[mem[p].task] \in [status : Status, history : Seq(Record)]
      BY <1>typed, <3>1
    <3>3. mem[p].status = file[mem[p].task].status /\ mem[p].history = file[mem[p].task].history
      BY <2>1 DEF Loaded
    <3> QED
      BY <3>1, <3>2, <3>3 DEF Stored
  <2>3. UNCHANGED file
    BY <1>typed, <2>1, <2>2
  <2>4. AloneAt(p)'
    BY <1>typed, <2>1, <2>3, OnwardAlone
  <2> QED
    BY <1>local, <1>onward, <2>1, <2>3, <2>4
<1>12. ASSUME NEW p \in Process, Stop(p) PROVE AloneInv'
  BY <1>12, <1>quit DEF Stop
<1> QED
  BY <1>still, <1>2, <1>3, <1>4, <1>5, <1>6, <1>7, <1>8, <1>9, <1>10, <1>11, <1>12 DEF Next

\* Nothing logged and nobody at work: the user is owed nothing yet.
LEMMA AloneInit == Init => AloneInv
<1> SUFFICES ASSUME Init PROVE AloneInv
  OBVIOUS
<1>1. DOMAIN log = {} /\ \A t \in Task : file[t].history = <<>> /\ DOMAIN file[t].history = {}
  BY DEF Init
<1>2. /\ ChainIntact(log) /\ Dropped(log, file) = {}
      /\ \A t \in Task : Recounts(file[t].history, t)
  BY <1>1 DEF ChainIntact, Dropped, Recounts
<1>3. InSlot(file) = {}
  BY DEF Init, InSlot, ActiveSlot
<1>4. \A p \in Process : stage[p] = "idle"
  BY DEF Init
<1>5. \A p \in Process : AloneAt(p)
  BY <1>4 DEF AloneAt, Working
<1> QED
  BY <1>2, <1>3, <1>4, <1>5 DEF AloneInv

\* A single user loses nothing that was saved: whatever operation is killed at whichever
\* of its file operations, the chain links, each file recounts the log but for its last
\* line, and one assignment at most is at work.
THEOREM SingleUserUnharmed == Spec => []AloneUnharmed
<1>1. AloneInv => AloneUnharmed
  <2> SUFFICES ASSUME AloneInv, ~overlap PROVE AloneUnharmed
    BY DEF AloneUnharmed, AloneChainIntact, AloneLosesOne, AloneSingleSlot
  <2>1. Cardinality(InSlot(file)) <= 1
    <3>1. CASE InSlot(file) = {}
      BY <3>1, FS_EmptySet
    <3>2. CASE InSlot(file) # {}
      <4>1. PICK t \in InSlot(file) : InSlot(file) = {t}
        BY <3>2 DEF AloneInv
      <4> QED
        BY <4>1, FS_Singleton
    <3> QED
      BY <3>1, <3>2
  <2> QED
    BY <2>1 DEF AloneInv, AloneUnharmed, AloneChainIntact, AloneLosesOne, AloneSingleSlot
<1>2. Init => TypeInv /\ AloneInv
  BY TypeInit, AloneInit
<1>3. TypeInv /\ AloneInv /\ [Next]_vars => TypeInv' /\ AloneInv'
  BY TypeStep, AloneStep
<1> QED
  BY <1>1, <1>2, <1>3, PTL DEF Spec
-----------------------------------------------------------------------------
(* The files implement the single work slot.                               *)

\* With one assignment at most in the slot, the occupant is that one.
LEMMA OccupantIs ==
  ASSUME NEW S \in SUBSET Task, \A s, t \in S : s = t
  PROVE  LET occupant == IF S = {} THEN None ELSE CHOOSE t \in S : TRUE IN
         /\ occupant = None <=> S = {}
         /\ \A t \in Task : occupant = t <=> t \in S
<1>1. CASE S = {}
  BY <1>1, StoreAssumption
<1>2. CASE S # {}
  <2>1. PICK u \in S : TRUE
    BY <1>2
  <2>2. S = {u}
    BY <2>1
  <2>3. (CHOOSE t \in S : TRUE) = u
    BY <2>2
  <2> QED
    BY <1>2, <2>2, <2>3, StoreAssumption
<1> QED
  BY <1>1, <1>2

\* A process that is alone saves a row of the table, taken from the status on file, and
\* into the slot only if nobody else is in it.
LEMMA SaveIsRow ==
  ASSUME TypeInv, PathInv, AloneInv, ~overlap, NEW p \in Process, Save(p)
  PROVE  \E t \in Task, row \in Transitions : \E before :
           /\ row.from = file[t].status
           /\ Admits(t, Target(row, before))
           /\ \E history : file' = [file EXCEPT ![t] = [status  |-> Target(row, before),
                                                         history |-> history]]
<1> DEFINE last == log[Len(log)]
           t == mem[p].task
           h == file[t].history
<1>1. /\ stage[p] = "appended" /\ mem[p] \in Work
      /\ log \in Seq(Entry)
      /\ file \in [Task -> [status : Status, history : Seq(Record)]]
      /\ file' = [file EXCEPT ![t] = Stored(mem[p])]
  BY DEF Save, TypeInv, TypeOK, Working
<1>2. /\ log # <<>> /\ last.task = t /\ mem[p] = Moved(Loaded(last.task), last) /\ Admits(last.task, last.to)
  BY <1>1 DEF AloneInv, AloneAt
<1>3. last \in Entry /\ t \in Task /\ h \in Seq(Record)
  <2>1. Len(log) \in DOMAIN log
    BY <1>1, <1>2
  <2>2. t \in Task
    BY <1>1 DEF Work
  <2> QED
    BY <1>1, <2>1, <2>2, ElementOfSeq
<1>4. RecordOf(last) \in Record /\ RecordOf(last).from = last.from /\ RecordOf(last).to = last.to
  <2>1. RecordOf(last).from = last.from /\ RecordOf(last).to = last.to
    BY DEF RecordOf
  <2>2. mem[p].history \in Seq(Record) /\ mem[p].status \in Status
    BY <1>1 DEF Work
  <2>3. mem[p].status = last.to
    BY <1>2 DEF Moved
  <2> HIDE DEF last
  <2>4. last.to \in Status /\ last.from \in Status /\ HashOf(last) \in Hash
    BY <1>3, <2>2, <2>3, StoreAssumption DEF Entry, HashOf, Hash
  <2> QED
    BY <2>1, <2>4 DEF Record, RecordOf
<1>5. mem[p].status = last.to /\ mem[p].history = Append(h, RecordOf(last))
  <2>1. Loaded(last.task).history = h
    BY <1>2 DEF Loaded
  <2> HIDE DEF h, last
  <2> QED
    BY SMTT(30), <1>2, <2>1 DEF Moved
<1> DEFINE longer == Append(h, RecordOf(last))
<1> HIDE DEF last, h, t
<1>6. /\ Len(h) \in Nat /\ DOMAIN h = 1..Len(h) /\ Len(h) + 1 \in DOMAIN longer
      /\ longer[Len(h) + 1] = RecordOf(last)
      /\ Len(h) # 0 => longer[Len(h)] = h[Len(h)]
      /\ Len(h) = 0 <=> h = <<>>
  BY SMTT(30), <1>3, <1>4, EmptySeq
<1>7. Lawful(longer, Len(h) + 1)
  BY <1>1, <1>5, <1>6 DEF PathInv, Follows, FollowsTheTable, Working
<1> HIDE DEF longer
<1>8. longer[Len(h) + 1].from = file[t].status
  <2>1. file[t].status = IF h = <<>> THEN "draft" ELSE h[Len(h)].to
    BY <1>3 DEF PathInv, FilesFollowTheTable, FollowsTheTable, StatusConsistent, h
  <2>2. longer[Len(h) + 1].from = IF Len(h) + 1 = 1 THEN "draft" ELSE longer[Len(h) + 1 - 1].to
    BY <1>7 DEF Lawful
  <2> QED
    BY <1>6, <2>1, <2>2
<1>9. PICK row \in Transitions :
        /\ row.from = file[t].status
        /\ last.to = Target(row, Prior(SubSeq(longer, 1, Len(h) + 1 - 1)))
  BY <1>4, <1>6, <1>7, <1>8 DEF Lawful
<1>10. PICK before : last.to = Target(row, before)
  BY <1>9
<1>11. file' = [file EXCEPT ![t] = [status |-> last.to, history |-> mem[p].history]]
  BY <1>1, <1>5 DEF Stored
<1>12. Admits(t, Target(row, before))
  BY <1>2, <1>10
<1>13. \E history : file' = [file EXCEPT ![t] = [status |-> Target(row, before), history |-> history]]
  BY <1>10, <1>11
<1> QED
  BY <1>3, <1>9, <1>12, <1>13

\* Nothing but a save changes a file: a process that is alone rewrites what is there.
LEMMA FilesStay ==
  ASSUME TypeInv, AloneInv, ~overlap, [Next]_vars, ~ \E p \in Process : Save(p)
  PROVE  UNCHANGED file
<1>1. ASSUME NEW p \in Process, Rewrite(p) PROVE UNCHANGED file
  <2>1. /\ stage[p] = "running" /\ mem[p] \in Work
        /\ file \in [Task -> [status : Status, history : Seq(Record)]]
        /\ file' = [file EXCEPT ![mem[p].task] = Stored(mem[p])]
    BY <1>1 DEF Rewrite, AtStep, TypeInv, TypeOK, Working
  <2>2. mem[p] = Loaded(mem[p].task)
    BY <2>1 DEF AloneInv, AloneAt
  <2>3. mem[p].task \in Task
    BY <2>1 DEF Work
  <2>4. /\ file[mem[p].task] \in [status : Status, history : Seq(Record)]
        /\ mem[p].status = file[mem[p].task].status /\ mem[p].history = file[mem[p].task].history
    BY <2>1, <2>2, <2>3 DEF Loaded
  <2>5. Stored(mem[p]) = file[mem[p].task]
    BY <2>4 DEF Stored
  <2> QED
    BY <2>1, <2>3, <2>5
<1> QED
  BY <1>1 DEF Next, ReadLog, VerifyFiles, Load, CheckSlot, Reload, Seal, AppendEntry, Save, SetPointer,
              Stop, vars

LEMMA SlotStep ==
  ASSUME TypeInv, PathInv, AloneInv, TypeInv', AloneInv', [Next]_vars, ~overlap'
  PROVE  [Slot!Next]_(Slot!vars)
<1>before. ~overlap
  BY DEF Next, ReadLog, VerifyFiles, Load, CheckSlot, Reload, Seal, AppendEntry, Save, SetPointer,
         Rewrite, Stop, vars
<1>still. ASSUME UNCHANGED <<Occupant, WithStatus("closed"), WithStatus("cancelled")>>
          PROVE  [Slot!Next]_(Slot!vars)
  BY <1>still DEF Slot!vars
<1>1. CASE ~ \E p \in Process : Save(p)
  <2>1. UNCHANGED file
    BY <1>before, <1>1, FilesStay
  <2> QED
    BY <1>still, <2>1 DEF Occupant, InSlot, WithStatus
<1>2. ASSUME NEW p \in Process, Save(p) PROVE [Slot!Next]_(Slot!vars)
  <2>1. PICK t \in Task, row \in Transitions : \E before :
          /\ row.from = file[t].status
          /\ Admits(t, Target(row, before))
          /\ \E history : file' = [file EXCEPT ![t] = [status  |-> Target(row, before),
                                                        history |-> history]]
    BY <1>before, <1>2, SaveIsRow
  <2>2. PICK before :
          /\ row.from = file[t].status
          /\ Admits(t, Target(row, before))
          /\ \E history : file' = [file EXCEPT ![t] = [status  |-> Target(row, before),
                                                        history |-> history]]
    BY <2>1
  <2> DEFINE from == file[t].status
             to == Target(row, before)
  <2>3. /\ file'[t].status = to
        /\ \A u \in Task \ {t} : file'[u] = file[u]
    BY <2>2 DEF TypeInv, TypeOK
  <2>4. /\ from \notin {"closed", "cancelled"}
        /\ to = "closed" => from \notin ActiveSlot
    <3>1. /\ row.from \notin {"closed", "cancelled"}
          /\ row.to = "closed" => row.from \notin ActiveSlot
          /\ row.to = PriorState => row.from = "escalated"
      BY DEF Transitions, Row, PriorState, ActiveSlot
    <3> QED
      BY <2>2, <3>1 DEF Target, ActiveSlot
  <2>5. to \in ActiveSlot => InSlot(file) \subseteq {t}
    BY <2>2 DEF Admits
  <2> HIDE DEF to, from
  <2>6. /\ Occupant = None <=> InSlot(file) = {}
        /\ \A u \in Task : Occupant = u <=> u \in InSlot(file)
    BY <1>before, OccupantIs DEF AloneInv, Occupant, InSlot
  <2>7. /\ Occupant' = None <=> InSlot(file') = {}
        /\ \A u \in Task : Occupant' = u <=> u \in InSlot(file')
    <3>1. InSlot(file') \in SUBSET Task /\ \A s, u \in InSlot(file') : s = u
      BY DEF AloneInv, InSlot
    <3> QED
      BY <3>1, OccupantIs DEF Occupant
  <2>8. InSlot(file') = IF to \in ActiveSlot THEN InSlot(file) \union {t} ELSE InSlot(file) \ {t}
    BY <2>3 DEF InSlot
  <2>9. t \in InSlot(file) <=> from \in ActiveSlot
    BY DEF InSlot, from
  <2>10. \A s \in {"closed", "cancelled"} :
           WithStatus(s)' = IF to = s THEN WithStatus(s) \union {t} ELSE WithStatus(s)
    BY <2>3, <2>4 DEF WithStatus, from
  <2>11. t \notin WithStatus("closed") \union WithStatus("cancelled")
    BY <2>4 DEF WithStatus, from
  <2>12. ASSUME to \notin ActiveSlot PROVE Occupant' = IF Occupant = t THEN None ELSE Occupant
    <3>1. CASE InSlot(file) = {}
      BY <2>6, <2>7, <2>8, <2>12, <3>1, StoreAssumption
    <3>2. CASE InSlot(file) # {}
      <4>1. PICK u \in InSlot(file) : u \in Task /\ Occupant = u
        BY <2>6, <3>2 DEF InSlot
      <4>2. CASE u = t
        <5>1. InSlot(file) = {t}
          BY <1>before, <4>1, <4>2 DEF AloneInv
        <5> QED
          BY <2>7, <2>8, <2>12, <4>1, <4>2, <5>1
      <4>3. CASE u # t
        BY <2>7, <2>8, <2>12, <4>1, <4>3
      <4> QED
        BY <4>2, <4>3
    <3> QED
      BY <3>1, <3>2
  <2>13. CASE to \in ActiveSlot /\ from \notin ActiveSlot
    <3>1. Occupant = None /\ Occupant' = t
      BY <2>5, <2>6, <2>7, <2>8, <2>9, <2>13
    <3>2. Slot!Take(t)
      BY <2>10, <2>11, <2>13, <3>1 DEF Slot!Take, Slot!Over, ActiveSlot
    <3> QED
      BY <3>2 DEF Slot!Next
  <2>14. CASE to \in ActiveSlot /\ from \in ActiveSlot
    <3>1. Occupant = t /\ Occupant' = t
      BY <2>6, <2>7, <2>8, <2>9, <2>14
    <3> QED
      BY <1>still, <2>10, <2>14, <3>1 DEF ActiveSlot
  <2>15. CASE to = "cancelled"
    <3>1. Slot!Drop(t)
      BY <2>10, <2>11, <2>12, <2>15 DEF Slot!Drop, Slot!Over, ActiveSlot
    <3> QED
      BY <3>1 DEF Slot!Next
  <2>16. CASE to = "closed"
    <3>1. Occupant # t /\ Occupant' = Occupant
      BY <2>4, <2>6, <2>9, <2>12, <2>16 DEF ActiveSlot
    <3>2. Slot!Close(t)
      BY <2>10, <2>11, <2>16, <3>1 DEF Slot!Close, Slot!Over
    <3> QED
      BY <3>2 DEF Slot!Next
  <2>17. CASE to \notin ActiveSlot \union {"cancelled", "closed"} /\ from \in ActiveSlot
    <3>1. Occupant = t /\ t # None /\ Occupant' = None
      BY <2>6, <2>9, <2>12, <2>17, StoreAssumption
    <3>2. Slot!Release
      BY <2>10, <2>17, <3>1 DEF Slot!Release
    <3> QED
      BY <3>2 DEF Slot!Next
  <2>18. CASE to \notin ActiveSlot \union {"cancelled", "closed"} /\ from \notin ActiveSlot
    <3>1. Occupant' = Occupant
      BY <2>6, <2>9, <2>12, <2>18
    <3> QED
      BY <1>still, <2>10, <2>18, <3>1
  <2> QED
    BY <2>13, <2>14, <2>15, <2>16, <2>17, <2>18
<1> QED
  BY <1>1, <1>2

\* The files implement the single work slot as long as commands do not overlap: whatever
\* is killed between an append, a save and the pointer, what the next command finds is the
\* slot taken, released, closed or dropped by whole steps.
THEOREM FilesImplementSlot == Spec => AloneImplementsSlot
<1>1. Init => Slot!Init
  <2> SUFFICES ASSUME Init PROVE Slot!Init
    OBVIOUS
  <2>1. \A t \in Task : file[t].status = "draft"
    BY DEF Init
  <2>2. InSlot(file) = {} /\ WithStatus("closed") = {} /\ WithStatus("cancelled") = {}
    BY <2>1 DEF InSlot, ActiveSlot, WithStatus
  <2> QED
    BY <2>2 DEF Slot!Init, Occupant
<1>2. Spec => [](TypeInv /\ PathInv /\ AloneInv)
  <2>1. Init => TypeInv /\ PathInv /\ AloneInv
    BY TypeInit, AloneInit DEF Init, PathInv, FilesFollowTheTable, FollowsTheTable, StatusConsistent, Working
  <2>2. TypeInv /\ PathInv /\ AloneInv /\ [Next]_vars => (TypeInv /\ PathInv /\ AloneInv)'
    BY TypeStep, PathStep, AloneStep
  <2> QED
    BY <2>1, <2>2, PTL DEF Spec
<1>3. TypeInv /\ PathInv /\ AloneInv /\ TypeInv' /\ AloneInv' /\ [Next]_vars
        => [~overlap' => [Slot!Next]_(Slot!vars)]_vars
  BY SlotStep
<1> QED
  BY <1>1, <1>2, <1>3, PTL DEF Spec, AloneImplementsSlot
====
