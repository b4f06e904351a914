----------------------------- MODULE FleetProofs -----------------------------
(***************************************************************************)
(* What the fleet's tools and the workspace registry guarantee for any     *)
(* number of runners, machines, keys, manifests, classes, commands and     *)
(* projects, and wherever they are killed.                                 *)
(***************************************************************************)
EXTENDS SpendGovernor, KeyRing, FleetApplier, FleetLaw, DefectSweep, Registry, FiniteSetTheorems,
        SequenceTheorems, WellFoundedInduction, TLAPS

-----------------------------------------------------------------------------
(* SpendGovernor.  There is no sum over a set here, so that the units of    *)
(* money that runners may still be charged, or were charged and have not    *)
(* recorded, are counted as pairs of a runner and a number.                 *)

Unit == 1 .. MaxCost
Owed == {q \in Runner \X Unit : q[2] <= cost[q[1]]}
Promised == {q \in Runner \X Unit : at[q[1]] = "asked"}
Limit == DayCap + MaxCost * Cardinality(Runner)

CapInv ==
  /\ day \in Day
  /\ charged \in [Day -> Nat] /\ recorded \in [Day -> Nat]
  /\ torn \in BOOLEAN
  /\ at \in [Runner -> {"idle", "asked", "called"}]
  /\ cost \in [Runner -> 0 .. MaxCost]
  /\ \A r \in Runner : at[r] # "called" => cost[r] = 0
  /\ losses \in Nat
  /\ \A d \in Day : d > day => charged[d] = 0
  /\ losses = 0 =>
       /\ ~torn
       /\ charged[day] <= recorded[day] + Cardinality(Owed)
       /\ charged[day] + Cardinality(Promised) < Limit
       /\ \A d \in Day : charged[d] < Limit

LEMMA Column ==
  ASSUME NEW r, NEW c \in Nat
  PROVE  IsFiniteSet({r} \X (1 .. c)) /\ Cardinality({r} \X (1 .. c)) = c
<1>1. IsFiniteSet({r}) /\ Cardinality({r}) = 1
  BY FS_Singleton
<1>2. IsFiniteSet(1 .. c) /\ Cardinality(1 .. c) = c
  BY FS_Interval
<1>3. 1 * c = c
  OBVIOUS
<1>4. /\ IsFiniteSet({r} \X (1 .. c))
      /\ Cardinality({r} \X (1 .. c)) = Cardinality({r}) * Cardinality(1 .. c)
  BY <1>1, <1>2, FS_Product
<1> QED
  BY <1>1, <1>2, <1>3, <1>4

LEMMA DisjointUnion ==
  ASSUME NEW S, NEW T, IsFiniteSet(S), IsFiniteSet(T), S \intersect T = {}
  PROVE  IsFiniteSet(S \union T) /\ Cardinality(S \union T) = Cardinality(S) + Cardinality(T)
<1>1. Cardinality(S \intersect T) = 0
  BY FS_EmptySet
<1>2. Cardinality(S) \in Nat /\ Cardinality(T) \in Nat
  BY FS_CardinalityType
<1>3. /\ IsFiniteSet(S \union T)
      /\ Cardinality(S \union T) = Cardinality(S) + Cardinality(T) - Cardinality(S \intersect T)
  BY FS_Union
<1> QED
  BY <1>1, <1>2, <1>3

LEMMA Slots ==
  /\ IsFiniteSet(Runner \X Unit)
  /\ Cardinality(Runner \X Unit) = MaxCost * Cardinality(Runner)
  /\ Cardinality(Runner) \in Nat /\ MaxCost \in Nat /\ DayCap \in Nat /\ DayCap > 0
  /\ Limit \in Nat /\ Limit > 0
<1>1. MaxCost \in Nat /\ DayCap \in Nat /\ DayCap > 0
  BY AmountsAreNaturals
<1>2. IsFiniteSet(Unit) /\ Cardinality(Unit) = MaxCost
  BY <1>1, FS_Interval DEF Unit
<1>3. IsFiniteSet(Runner) /\ Cardinality(Runner) \in Nat
  BY RunnersAreFinite, FS_CardinalityType
<1>4. IsFiniteSet(Runner \X Unit) /\ Cardinality(Runner \X Unit) = Cardinality(Runner) * Cardinality(Unit)
  BY <1>2, <1>3, FS_Product
<1>5. Cardinality(Runner) * MaxCost = MaxCost * Cardinality(Runner) /\ MaxCost * Cardinality(Runner) \in Nat
  BY <1>1, <1>3
<1>6. Limit \in Nat /\ Limit > 0
  BY <1>1, <1>5 DEF Limit
<1> QED
  BY <1>1, <1>2, <1>3, <1>4, <1>5, <1>6

\* Both are sets of slots, and share none.
LEMMA Counts ==
  /\ IsFiniteSet(Owed) /\ Cardinality(Owed) \in Nat
  /\ IsFiniteSet(Promised) /\ Cardinality(Promised) \in Nat
  /\ Cardinality(Promised) <= MaxCost * Cardinality(Runner)
<1>1. Owed \in SUBSET (Runner \X Unit) /\ Promised \in SUBSET (Runner \X Unit)
  BY DEF Owed, Promised
<1> QED
  BY <1>1, Slots, FS_Subset, FS_CardinalityType

LEMMA CapBegins == SpendInit => CapInv
<1> SUFFICES ASSUME SpendInit PROVE CapInv
  OBVIOUS
<1>1. Promised = {}
  <2>1. \A r \in Runner : at[r] # "asked"
    BY DEF SpendInit
  <2> QED
    BY <2>1 DEF Promised
<1>2. Cardinality(Promised) = 0
  BY <1>1, FS_EmptySet
<1>3. day \in Day => day = 1 /\ charged[day] = 0 /\ recorded[day] = 0
  BY DEF SpendInit
<1>4. Limit \in Nat /\ 0 < Limit
  BY Slots
<1>5. day \in Day
  BY AmountsAreNaturals DEF SpendInit, Day
<1>6. \A d \in Day : charged[d] = 0
  BY DEF SpendInit
<1>7. /\ charged \in [Day -> Nat] /\ recorded \in [Day -> Nat]
      /\ at \in [Runner -> {"idle", "asked", "called"}] /\ cost \in [Runner -> 0 .. MaxCost]
      /\ \A r \in Runner : cost[r] = 0
  BY Slots DEF SpendInit
<1>8. losses = 0 /\ torn = FALSE
  BY DEF SpendInit
<1>9. charged[day] <= recorded[day] + Cardinality(Owed) /\ charged[day] + Cardinality(Promised) < Limit
  BY <1>2, <1>3, <1>4, <1>5, Counts
<1>10. \A d \in Day : charged[d] < Limit
  BY <1>4, <1>6
<1> HIDE DEF SpendInit, Day
<1> QED
  BY <1>5, <1>6, <1>7, <1>8, <1>9, <1>10 DEF CapInv

LEMMA CapGoesOn == CapInv /\ [SpendNext]_spendVars => CapInv'
<1> SUFFICES ASSUME CapInv, [SpendNext]_spendVars PROVE CapInv'
  OBVIOUS
<1>0. /\ MaxCost \in Nat /\ DayCap \in Nat /\ Limit \in Nat
      /\ Cardinality(Owed) \in Nat /\ Cardinality(Promised) \in Nat
      /\ IsFiniteSet(Owed) /\ IsFiniteSet(Promised)
  BY Slots, Counts
<1>1. ASSUME NEW r \in Runner, NEW i \in Item, NEW passed \in BOOLEAN, DecideSpend(r, i, passed)
      PROVE  CapInv'
  <2>1. /\ at[r] = "idle"
        /\ UNCHANGED <<day, charged, recorded, torn, cost, losses>>
    BY <1>1 DEF DecideSpend
  <2>2. CASE at' = [at EXCEPT ![r] = "called"]
    <3>1. Promised' = Promised
      BY <2>1, <2>2 DEF Promised, CapInv
    <3>2. Owed' = Owed
      BY <2>1 DEF Owed
    <3> QED
      BY <2>1, <2>2, <3>1, <3>2 DEF CapInv
  <2>3. CASE at' = [at EXCEPT ![r] = "asked"] /\ recorded[day] < DayCap
    <3>1. Owed' = Owed
      BY <2>1 DEF Owed
    <3>2. Owed \intersect Promised' = {}
      <4>1. \A q \in Promised' : q \in Runner \X Unit /\ at'[q[1]] = "asked"
        BY DEF Promised
      <4>2. \A p \in Runner : at'[p] = "asked" => cost[p] = 0
        BY <2>1, <2>3 DEF CapInv
      <4>3. \A q \in Owed : q \in Runner \X Unit /\ q[2] <= cost[q[1]]
        BY DEF Owed
      <4>4. \A q \in Runner \X Unit : q[1] \in Runner /\ q[2] \in Nat /\ q[2] > 0
        BY <1>0 DEF Unit
      <4> QED
        BY <4>1, <4>2, <4>3, <4>4
    <3>3. Owed \union Promised' \in SUBSET (Runner \X Unit)
      BY DEF Owed, Promised
    <3>4. IsFiniteSet(Promised') /\ Cardinality(Promised') \in Nat
      <4>1. Promised' \in SUBSET (Runner \X Unit)
        BY DEF Promised
      <4> QED
        BY <4>1, Slots, FS_Subset, FS_CardinalityType
    <3>5. Cardinality(Owed \union Promised') = Cardinality(Owed) + Cardinality(Promised')
      <4>1. Cardinality(Owed \intersect Promised') = 0
        BY <3>2, FS_EmptySet
      <4> QED
        BY <1>0, <3>4, <4>1, FS_Union
    <3>6. Cardinality(Owed \union Promised') <= MaxCost * Cardinality(Runner)
      BY <3>3, Slots, FS_Subset
    <3>7. losses = 0 => charged[day] + Cardinality(Promised') < Limit
      <4>1. MaxCost * Cardinality(Runner) \in Nat
        BY Slots
      <4>2. charged[day] \in Nat /\ recorded[day] \in Nat
        BY DEF CapInv
      <4> QED
        BY <1>0, <2>3, <3>4, <3>5, <3>6, <4>1, <4>2 DEF CapInv, Limit
    <3> QED
      BY <2>1, <2>3, <3>1, <3>7 DEF CapInv, Limit
  <2> QED
    BY <1>1, <2>2, <2>3 DEF DecideSpend, Spends
<1>2. ASSUME NEW r \in Runner, NEW c \in 0 .. MaxCost, CallVendor(r, c) PROVE CapInv'
  <2>1. /\ at[r] = "asked" /\ cost[r] = 0
        /\ charged' = [charged EXCEPT ![day] = @ + c]
        /\ cost' = [cost EXCEPT ![r] = c]
        /\ at' = [at EXCEPT ![r] = "called"]
        /\ UNCHANGED <<day, recorded, torn, losses>>
    BY <1>2 DEF CallVendor, CapInv
  <2>2. c \in Nat /\ c <= MaxCost
    BY <1>0
  <2>3. Owed' = Owed \union ({r} \X (1 .. c)) /\ Owed \intersect ({r} \X (1 .. c)) = {}
    BY <1>0, <2>1, <2>2 DEF Owed, Unit, CapInv
  <2>4. Cardinality(Owed') = Cardinality(Owed) + c
    <3> DEFINE column == {r} \X (1 .. c)
    <3>1. IsFiniteSet(column) /\ Cardinality(column) = c
      BY <2>2, Column
    <3>2. Owed' = Owed \union column /\ Owed \intersect column = {}
      BY <2>3
    <3> HIDE DEF column
    <3> QED
      BY <1>0, <3>1, <3>2, DisjointUnion
  <2>5. Promised = Promised' \union ({r} \X Unit) /\ Promised' \intersect ({r} \X Unit) = {}
    BY <2>1 DEF Promised, CapInv
  <2>6. Cardinality(Promised) = Cardinality(Promised') + MaxCost /\ Cardinality(Promised') \in Nat
    <3>1. IsFiniteSet(Promised') /\ Cardinality(Promised') \in Nat
      <4>1. Promised' \in SUBSET Promised
        BY <2>5
      <4> QED
        BY <1>0, <4>1, FS_Subset, FS_CardinalityType
    <3> DEFINE column == {r} \X Unit
    <3>2. IsFiniteSet(column) /\ Cardinality(column) = MaxCost
      BY <1>0, Column DEF Unit
    <3>3. Promised = Promised' \union column /\ Promised' \intersect column = {}
      BY <2>5
    <3> HIDE DEF column
    <3> QED
      BY <3>1, <3>2, <3>3, DisjointUnion
  <2>7. charged \in [Day -> Nat] /\ day \in Day /\ charged'[day] = charged[day] + c /\ charged' \in [Day -> Nat]
    BY <2>1, <2>2 DEF CapInv
  <2>8. \A d \in Day : d # day => charged'[d] = charged[d]
    BY <2>1, <2>7
  <2>9. losses = 0 =>
          /\ charged'[day] <= recorded[day] + Cardinality(Owed')
          /\ charged'[day] + Cardinality(Promised') < Limit
          /\ charged'[day] < Limit
    <3>1. recorded[day] \in Nat /\ charged[day] \in Nat
      BY DEF CapInv
    <3> QED
      BY <1>0, <2>2, <2>4, <2>6, <2>7, <3>1 DEF CapInv
  <2>10. \A d \in Day : d > day => d # day
    BY DEF Day
  <2> QED
    BY <2>1, <2>2, <2>7, <2>8, <2>9, <2>10 DEF CapInv, Limit
<1>3. ASSUME NEW r \in Runner, RecordCost(r) PROVE CapInv'
  <2>1. /\ recorded' = [recorded EXCEPT ![day] = @ + Readable(cost[r])]
        /\ torn' = FALSE
        /\ at' = [at EXCEPT ![r] = "idle"]
        /\ cost' = [cost EXCEPT ![r] = 0]
        /\ UNCHANGED <<day, charged, losses>>
        /\ at[r] = "called"
    BY <1>3 DEF RecordCost
  <2>2. cost[r] \in Nat /\ cost[r] <= MaxCost
    BY <1>0 DEF CapInv
  <2>3. Owed = Owed' \union ({r} \X (1 .. cost[r])) /\ Owed' \intersect ({r} \X (1 .. cost[r])) = {}
    BY <1>0, <2>1, <2>2 DEF Owed, Unit, CapInv
  <2>4. Cardinality(Owed) = Cardinality(Owed') + cost[r] /\ Cardinality(Owed') \in Nat
    <3>1. IsFiniteSet(Owed') /\ Cardinality(Owed') \in Nat
      <4>1. Owed' \in SUBSET Owed
        BY <2>3
      <4> QED
        BY <1>0, <4>1, FS_Subset, FS_CardinalityType
    <3> DEFINE column == {r} \X (1 .. cost[r])
    <3>2. IsFiniteSet(column) /\ Cardinality(column) = cost[r]
      BY <2>2, Column
    <3>3. Owed = Owed' \union column /\ Owed' \intersect column = {}
      BY <2>3
    <3> HIDE DEF column
    <3> QED
      BY <3>1, <3>2, <3>3, DisjointUnion
  <2>5. Promised' = Promised
    BY <2>1 DEF Promised, CapInv
  <2>6. Readable(cost[r]) \in Nat /\ (~torn => Readable(cost[r]) = cost[r])
    BY <2>2 DEF Readable
  <2>7. recorded' \in [Day -> Nat] /\ recorded'[day] = recorded[day] + Readable(cost[r])
    BY <2>1, <2>6 DEF CapInv
  <2>8. losses = 0 => charged[day] <= recorded'[day] + Cardinality(Owed')
    <3>1. recorded[day] \in Nat /\ charged[day] \in Nat
      BY DEF CapInv
    <3> QED
      BY <2>2, <2>4, <2>6, <2>7, <3>1 DEF CapInv
  <2>9. /\ at' \in [Runner -> {"idle", "asked", "called"}] /\ cost' \in [Runner -> 0 .. MaxCost]
        /\ \A p \in Runner : at'[p] # "called" => cost'[p] = 0
    BY <1>0, <2>1 DEF CapInv
  <2>10. UNCHANGED <<day, charged, losses, Promised>> /\ torn' = FALSE
    BY <2>1, <2>5
  <2> QED
    BY <2>7, <2>8, <2>9, <2>10 DEF CapInv, Limit
<1>4. ASSUME NEW r \in Runner, NEW inside \in BOOLEAN, RunnerKilled(r, inside) PROVE CapInv'
  <2>1. losses' \in Nat /\ losses' # 0
    BY <1>4 DEF RunnerKilled, CapInv
  <2>2. torn' \in BOOLEAN
    BY <1>4 DEF RunnerKilled, CapInv
  <2> QED
    BY <1>0, <1>4, <2>1, <2>2 DEF RunnerKilled, CapInv
<1>5. CASE NextDay
  <2>1. /\ day' = day + 1 /\ day' \in Day
        /\ UNCHANGED <<charged, recorded, torn, at, cost, losses>>
    BY <1>5, AmountsAreNaturals DEF NextDay, CapInv, Day
  <2>2. charged[day'] = 0 /\ recorded[day'] \in Nat
    BY <2>1 DEF CapInv, Day
  <2>3. Owed' = Owed /\ Promised' = Promised
    BY <2>1 DEF Owed, Promised
  <2>4. Cardinality(Promised) < Limit
    <3>1. MaxCost * Cardinality(Runner) \in Nat
      BY Slots
    <3> QED
      BY <1>0, <3>1, Counts, Slots DEF Limit
  <2>5. \A d \in Day : d > day' => d > day
    BY <2>1 DEF Day, CapInv
  <2> QED
    BY <1>0, <2>1, <2>2, <2>3, <2>4, <2>5 DEF CapInv, Limit
<1>6. CASE SpendSurroundings \/ UNCHANGED spendVars
  <2>1. UNCHANGED <<day, charged, recorded, torn, at, cost, losses>>
    BY <1>6 DEF SpendSurroundings, spendVars
  <2>2. Owed' = Owed /\ Promised' = Promised
    BY <2>1 DEF Owed, Promised
  <2> QED
    BY <2>1, <2>2 DEF CapInv, Limit
<1> QED
  BY <1>1, <1>2, <1>3, <1>4, <1>5, <1>6 DEF SpendNext

\* With no record lost, no day is charged more than the cap and one call of each runner.
THEOREM CapHoldsEachDay == SpendSpec => []DayCapHolds
<1>1. CapInv => DayCapHolds
  BY DEF CapInv, DayCapHolds, Limit
<1> QED
  BY CapBegins, CapGoesOn, <1>1, PTL DEF SpendSpec

-----------------------------------------------------------------------------
(* FleetLaw.                                                                *)

\* Unless no file is named like the law, one that is is as new as all that was uploaded.
LawInv ==
  /\ LawTypeOK
  /\ IsFiniteSet(folder)
  /\ LawNamed # {} => \A v \in published : \E f \in LawNamed : v <= f.version

LEMMA LawBegins == LawInit => LawInv
BY FS_EmptySet DEF LawInit, LawInv, LawTypeOK, LawFiles, LawNamed

\* The answer of a seat that gets one is the only file that could be the law.
LEMMA OnlyCandidate ==
  ASSUME LawTypeOK, IsFiniteSet(folder), Cardinality(Candidates) = 1
  PROVE  \E f \in Candidates : /\ Candidates = {f}
                               /\ (CHOOSE g \in Candidates : TRUE).version = f.version
                               /\ f.version \in Version
<1>1. \A f \in Candidates : f.version \in Version
  BY DEF LawTypeOK, Candidates, LawFiles
<1>2. PICK f : Candidates = {f}
  <2>1. IsFiniteSet(Candidates)
    BY FS_Subset DEF Candidates
  <2> QED
    BY <2>1, FS_Singleton
<1>3. (CHOOSE g \in Candidates : TRUE) = f
  BY <1>2
<1> QED
  BY <1>1, <1>2, <1>3

\* A file that is replaced by one of its versions keeps the folder what it was.
LEMMA FileReplaced ==
  ASSUME LawInv, NEW f \in folder, NEW g \in LawFiles, folder' = (folder \ {f}) \union {g},
         UNCHANGED <<published, booted>>
  PROVE  LawTypeOK' /\ IsFiniteSet(folder')
<1>1. IsFiniteSet(folder \ {f})
  BY FS_RemoveElement DEF LawInv
<1>2. IsFiniteSet(folder')
  BY <1>1, FS_AddElement
<1> QED
  BY <1>2 DEF LawInv, LawTypeOK

LEMMA LawGoesOn == LawInv /\ [LawNext]_lawVars => LawInv'
<1> SUFFICES ASSUME LawInv, [LawNext]_lawVars PROVE LawInv'
  OBVIOUS
<1>0. /\ \A f \in folder : f \in LawFiles /\ f.version \in Nat
      /\ \A v \in published : v \in Nat
  BY VersionsAreNumbers DEF LawInv, LawTypeOK, LawFiles
<1>1. ASSUME NEW v \in Version, NEW whole \in BOOLEAN, Upload(v, whole) PROVE LawInv'
  <2>0. published' = published \union {v} /\ UNCHANGED booted /\ \A u \in published : u < v
    BY <1>1 DEF Upload
  <2>1. PICK name \in LawNames :
          folder' = folder \union {[name |-> name, version |-> v, legible |-> whole]}
    BY <1>1 DEF Upload, LawNames
  <2> DEFINE file == [name |-> name, version |-> v, legible |-> whole]
  <2>2. file \in LawFiles /\ file.name \in LawNames /\ file.version = v
    BY <2>1 DEF LawFiles, LawFileNames, LawNames
  <2>3. folder' = folder \union {file}
    BY <2>1
  <2> HIDE DEF file
  <2>4. LawTypeOK' /\ IsFiniteSet(folder')
    BY <2>0, <2>2, <2>3, FS_AddElement DEF LawInv, LawTypeOK
  <2>5. \A u \in published' : u <= file.version
    BY <1>0, <2>0, <2>2, VersionsAreNumbers
  <2>6. file \in LawNamed'
    BY <2>2, <2>3 DEF LawNamed
  <2> QED
    BY <2>4, <2>5, <2>6 DEF LawInv
<1>2. ASSUME NEW f \in folder, Supersede(f) PROVE LawInv'
  <2> DEFINE retired == [f EXCEPT !.name = "SUPERSEDED-"]
  <2>1. retired \in LawFiles /\ retired.name = "SUPERSEDED-"
    BY <1>0 DEF LawFiles, LawFileNames
  <2>2. folder' = (folder \ {f}) \union {retired} /\ UNCHANGED <<published, booted>>
    BY <1>2 DEF Supersede
  <2> HIDE DEF retired
  <2>3. LawTypeOK' /\ IsFiniteSet(folder')
    BY <2>1, <2>2, FileReplaced
  <2>4. LawNamed' = LawNamed \ {f}
    BY <2>1, <2>2 DEF LawNamed, LawNames
  <2>5. CASE LawNamed = {f}
    BY <2>3, <2>4, <2>5 DEF LawInv
  <2>6. ASSUME NEW g \in LawNamed, g.version > f.version PROVE LawInv'
    <3>1. ASSUME NEW v \in published PROVE \E h \in LawNamed' : v <= h.version
      <4>1. PICK h \in LawNamed : v <= h.version
        BY <2>6 DEF LawInv
      <4>2. h \in folder /\ g \in folder
        BY DEF LawNamed
      <4>3. CASE h = f
        <5>1. v <= g.version /\ g # f
          BY <1>0, <2>6, <4>1, <4>2, <4>3
        <5> QED
          BY <2>4, <5>1
      <4> QED
        BY <2>4, <4>1, <4>3
    <3> QED
      BY <2>2, <2>3, <3>1 DEF LawInv
  <2> QED
    BY <1>2, <2>5, <2>6 DEF Supersede
<1>3. ASSUME NEW f \in folder, Sync(f) PROVE LawInv'
  <2> DEFINE other == [f EXCEPT !.legible = ~@]
  <2>1. other \in LawFiles /\ other.name = f.name /\ other.version = f.version
    BY <1>0 DEF LawFiles
  <2>2. folder' = (folder \ {f}) \union {other} /\ f.name \in LawNames /\ UNCHANGED <<published, booted>>
    BY <1>3 DEF Sync, LawNamed
  <2> HIDE DEF other
  <2>3. LawTypeOK' /\ IsFiniteSet(folder')
    BY <2>1, <2>2, FileReplaced
  <2>4. other \in LawNamed' /\ f \in LawNamed /\ \A h \in LawNamed : h # f => h \in LawNamed'
    BY <2>1, <2>2 DEF LawNamed
  <2>5. ASSUME NEW v \in published PROVE \E h \in LawNamed' : v <= h.version
    <3>1. PICK h \in LawNamed : v <= h.version
      BY <2>4 DEF LawInv
    <3> QED
      BY <2>1, <2>4, <3>1
  <2> QED
    BY <2>2, <2>3, <2>5 DEF LawInv
<1>4. ASSUME NEW s \in Seat, Report(s) PROVE LawInv'
  <2> DEFINE report == [name |-> "other", version |-> booted[s], legible |-> TRUE]
  <2>1. report \in LawFiles /\ report.name \notin LawNames
    BY <1>4 DEF LawInv, LawTypeOK, Report, LawFiles, LawFileNames, LawNames
  <2>2. folder' = folder \union {report} /\ UNCHANGED <<published, booted>>
    BY <1>4 DEF Report
  <2> HIDE DEF report
  <2>3. LawNamed' = LawNamed
    BY <2>1, <2>2 DEF LawNamed
  <2> QED
    BY <2>1, <2>2, <2>3, FS_AddElement DEF LawInv, LawTypeOK
<1>5. ASSUME NEW s \in Seat, Boot(s) PROVE LawInv'
  <2>1. booted'[s] \in Version \union {NoVersion}
    BY <1>5, OnlyCandidate DEF Boot, LawInv, LawTypeOK
  <2> QED
    BY <1>5, <2>1 DEF LawInv, LawTypeOK, Boot, LawNamed
<1>6. CASE UNCHANGED lawVars
  BY <1>6 DEF lawVars, LawInv, LawTypeOK, LawNamed
<1> QED
  BY <1>1, <1>2, <1>3, <1>4, <1>5, <1>6 DEF LawNext

\* A seat that gets an answer boots from the newest law that was uploaded, or from an
\* older one while a newer one in the folder cannot be read.
THEOREM LawIsTheNewest == LawSpec => LawIsNewest
<1>1. LawInv /\ [LawNext]_lawVars =>
        [\A s \in Seat : booted'[s] # booted[s] /\ booted'[s] # NoVersion
           => \A v \in published : v <= booted'[s] \/ UnreadFrom(v)]_lawVars
  <2> SUFFICES ASSUME LawInv, LawNext, NEW s \in Seat,
                      booted'[s] # booted[s], booted'[s] # NoVersion,
                      NEW v \in published
               PROVE  v <= booted'[s] \/ UnreadFrom(v)
    BY DEF lawVars
  <2>1. PICK t \in Seat : Boot(t)
    BY DEF LawNext, Upload, Supersede, Sync, Report
  <2>2. t = s /\ Cardinality(Candidates) = 1 /\ booted'[s] = (CHOOSE f \in Candidates : TRUE).version
    BY <2>1 DEF Boot, LawInv, LawTypeOK
  <2>3. PICK f \in Candidates : Candidates = {f} /\ booted'[s] = f.version
    BY <2>2, OnlyCandidate DEF LawInv
  <2>4. f \in LawNamed
    BY DEF Candidates, LawNamed
  <2>5. PICK g \in LawNamed : v <= g.version
    BY <2>4 DEF LawInv
  <2>6. CASE g \in Candidates
    BY <2>3, <2>5, <2>6
  <2>7. CASE g \notin Candidates
    <3>1. v \in Nat /\ g.version \in Nat
      BY VersionsAreNumbers DEF LawInv, LawTypeOK, LawFiles, LawNamed
    <3>2. g.version >= v
      BY <2>5, <3>1
    <3> QED
      BY <2>5, <2>7, <3>2 DEF UnreadFrom
  <2> QED
    BY <2>6, <2>7
<1> QED
  BY LawBegins, LawGoesOn, <1>1, PTL DEF LawSpec, LawIsNewest

-----------------------------------------------------------------------------
(* KeyRing.                                                                 *)

\* A reader finds what was declared in its checkout, nothing, or a half-written file.
RegistryInv ==
  /\ declared \in [Machine -> Modes]
  /\ registry \in [Machine -> Modes \union {"none", "torn"}]
  /\ \A m \in Machine : registry[m] \in {declared[m], "none", "torn"}
  /\ job \in [Machine -> {"idle", "sign", "judged"}]

LEMMA RegistryFollows == KeyInit => RegistryInv
BY DEF KeyInit, RegistryInv, Modes

LEMMA RegistryGoesOn == RegistryInv /\ [KeyNext]_keyVars => RegistryInv'
<1> SUFFICES ASSUME RegistryInv, [KeyNext]_keyVars PROVE RegistryInv'
  OBVIOUS
<1> USE DEF RegistryInv, command
<1>1. ASSUME NEW m \in Machine, Load(m) \/ Act(m) \/ Leave(m) PROVE RegistryInv'
  BY <1>1 DEF Load, Act, Leave, Finish
<1>2. ASSUME NEW m \in Machine, NEW d \in Document, Sign(m, d) \/ Verify(m, d) PROVE RegistryInv'
  BY <1>2 DEF Sign, Verify
<1>3. ASSUME NEW m \in Machine, NEW k, AppendKey(m, k) \/ RetireKey(m, k) PROVE RegistryInv'
  BY <1>3 DEF AppendKey, RetireKey
<1>4. ASSUME NEW m \in Machine, NEW mode \in Modes, Declare(m, mode) PROVE RegistryInv'
  <2>1. PICK found \in {"torn", "none"} : registry' = [registry EXCEPT ![m] = found]
    BY <1>4 DEF Declare
  <2>2. declared' = [declared EXCEPT ![m] = mode] /\ UNCHANGED job
    BY <1>4 DEF Declare
  <2> QED
    BY <2>1, <2>2
<1>5. ASSUME NEW m \in Machine, Restored(m) PROVE RegistryInv'
  BY <1>5 DEF Restored
<1>6. ASSUME NEW d \in Document, IssueText(d) \/ \E paste \in BOOLEAN : EditText(d, paste) PROVE RegistryInv'
  BY <1>6 DEF IssueText, EditText
<1>7. CASE UNCHANGED keyVars
  BY <1>7 DEF keyVars
<1> QED
  BY <1>1, <1>2, <1>3, <1>4, <1>5, <1>6, <1>7 DEF KeyNext

\* Once a machine's own checkout is enforcing, that machine acts on no text that does not
\* verify, whatever it judged before, except while its registry is half-written.
THEOREM EnforcedEverywhere == KeySpec => EnforcingHolds
<1>1. RegistryInv /\ [KeyNext]_keyVars =>
        [\A m \in Machine : Takes(m) =>
           \/ verdict[m] = "authentic"
           \/ verdict[m] = "no stamp" /\ (declared[m] # "enforcing" \/ registry[m] = "torn")]_keyVars
  <2> SUFFICES ASSUME RegistryInv, KeyNext, NEW m \in Machine,
                      job[m] = "judged", job'[m] = "idle", text' # text
               PROVE  \/ verdict[m] = "authentic"
                      \/ verdict[m] = "no stamp" /\ (declared[m] # "enforcing" \/ registry[m] = "torn")
    BY DEF keyVars, Takes
  <2>1. \E n \in Machine : Act(n)
    <3>1. \A n \in Machine : Load(n) \/ Leave(n) => text' = text
      BY DEF Load, Leave
    <3>2. \A n \in Machine, d \in Document : Sign(n, d) => job' = job
      BY DEF Sign, command
    <3>3. \A n \in Machine, d \in Document : Verify(n, d) => text' = text
      BY DEF Verify
    <3>4. \A n \in Machine : \A k : AppendKey(n, k) \/ RetireKey(n, k) => text' = text
      BY DEF AppendKey, RetireKey
    <3>5. \A n \in Machine, mode \in Modes : Declare(n, mode) => text' = text
      BY DEF Declare
    <3>6. \A n \in Machine : Restored(n) => text' = text
      BY DEF Restored
    <3>7. \A d \in Document : IssueText(d) \/ (\E paste \in BOOLEAN : EditText(d, paste)) => job' = job
      BY DEF IssueText, EditText, command
    <3>8. job' # job
      OBVIOUS
    <3> QED
      BY <3>1, <3>2, <3>3, <3>4, <3>5, <3>6, <3>7, <3>8 DEF KeyNext
  <2>2. Act(m)
    BY <2>1 DEF Act, Finish, RegistryInv
  <2> QED
    BY <2>2 DEF Act, ShouldAct, RegistryInv
<1> QED
  BY RegistryFollows, RegistryGoesOn, <1>1, PTL DEF KeySpec, EnforcingHolds

\* The least of a set of numbers.
LEMMA LeastOfNat ==
  ASSUME NEW S \in SUBSET Nat, S # {}
  PROVE  \E x \in S : \A y \in S : x <= y
<1>1. PICK m \in S : \A y \in S : ~ (<<y, m>> \in OpToRel(<, Nat))
  <2>1. IsWellFoundedOn(OpToRel(<, Nat), Nat)
    BY NatLessThanWellFounded
  <2> QED
    BY <2>1, WFMin
<1>2. \A y \in S : ~ (y < m)
  BY <1>1 DEF OpToRel
<1> QED
  BY <1>2

LEMMA FirstPlaceIs ==
  ASSUME NEW entries \in Seq(Key), NEW k \in Holds(entries)
  PROVE  FirstPlace(entries, k) \in 1 .. Len(entries)
<1> DEFINE I == {i \in 1 .. Len(entries) : entries[i] = k}
<1>1. I # {} /\ I \in SUBSET Nat
  BY DEF Holds, ToSet
<1>2. PICK x \in I : \A y \in I : x <= y
  BY <1>1, LeastOfNat
<1>3. Min(I) \in I
  BY <1>2 DEF Min
<1>4. FirstPlace(entries, k) = IF I # {} THEN Min(I) ELSE 0
  BY DEF FirstPlace, SelectInSeq
<1> QED
  BY <1>1, <1>3, <1>4

\* There is always a key to sign with, and it is one of the ring's.
LEMMA SigningKeyHeld ==
  ASSUME NEW entries \in Seq(Key), entries # <<>>
  PROVE  SigningKey(entries) \in Holds(entries)
<1> DEFINE Left(k) == Len(entries) - FirstPlace(entries, k)
           S == {Left(k) : k \in Holds(entries)}
<1>1. \A k \in Holds(entries) : FirstPlace(entries, k) \in 1 .. Len(entries)
  BY FirstPlaceIs
<1>2. S \in SUBSET Nat
  BY <1>1
<1>3. S # {}
  <2>1. entries[1] \in Holds(entries)
    BY DEF Holds, ToSet
  <2> QED
    BY <2>1
<1>4. PICK x \in S : \A y \in S : x <= y
  BY <1>2, <1>3, LeastOfNat
<1>5. PICK k \in Holds(entries) : x = Left(k)
  BY <1>4
<1>6. \A e \in Holds(entries) : FirstPlace(entries, e) <= FirstPlace(entries, k)
  <2> SUFFICES ASSUME NEW e \in Holds(entries)
               PROVE  FirstPlace(entries, e) <= FirstPlace(entries, k)
    OBVIOUS
  <2>1. Left(k) <= Left(e)
    BY <1>4, <1>5
  <2> QED
    BY <1>1, <2>1
<1> QED
  BY <1>6 DEF SigningKey

\* A line added adds its key.
LEMMA LineAdded ==
  ASSUME NEW entries \in Seq(Key), NEW k \in Key
  PROVE  Append(entries, k) \in Seq(Key) /\ Holds(Append(entries, k)) = Holds(entries) \union {k}
<1>1. /\ Append(entries, k) \in Seq(Key)
      /\ Len(Append(entries, k)) = Len(entries) + 1
      /\ \A i \in 1 .. Len(entries) : Append(entries, k)[i] = entries[i]
      /\ Append(entries, k)[Len(entries) + 1] = k
  BY AppendProperties
<1> QED
  BY <1>1 DEF Holds, ToSet

\* A line deleted takes away at most its own key.
LEMMA LineDeleted ==
  ASSUME NEW entries \in Seq(Key), NEW i \in DOMAIN entries
  PROVE  /\ RemoveAt(entries, i) \in Seq(Key)
         /\ Holds(RemoveAt(entries, i)) \subseteq Holds(entries)
         /\ Holds(entries) \subseteq Holds(RemoveAt(entries, i)) \union {entries[i]}
<1> DEFINE s1 == SubSeq(entries, 1, i - 1)
           s2 == SubSeq(entries, i + 1, Len(entries))
<1>0. i \in 1 .. Len(entries) /\ Len(entries) \in Nat
  OBVIOUS
<1>1. s1 \in Seq(Key) /\ Len(s1) = i - 1 /\ \A j \in 1 .. i - 1 : s1[j] = entries[j]
  BY <1>0, SubSeqProperties
<1>2. s2 \in Seq(Key) /\ Len(s2) = Len(entries) - i /\ \A j \in 1 .. Len(entries) - i : s2[j] = entries[i + j]
  BY <1>0, SubSeqProperties
<1> HIDE DEF s1, s2
<1>3. PICK r : r = s1 \o s2
  OBVIOUS
<1>4. /\ r \in Seq(Key) /\ Len(r) = Len(entries) - 1
      /\ \A j \in 1 .. i - 1 : r[j] = entries[j]
      /\ \A j \in i .. Len(entries) - 1 : r[j] = entries[j + 1]
  <2>1. /\ r \in Seq(Key) /\ Len(r) = Len(s1) + Len(s2)
        /\ \A j \in 1 .. Len(s1) + Len(s2) : r[j] = IF j <= Len(s1) THEN s1[j] ELSE s2[j - Len(s1)]
    BY <1>1, <1>2, <1>3, ConcatProperties
  <2>2. ASSUME NEW j \in i .. Len(entries) - 1 PROVE r[j] = entries[j + 1]
    <3>1. r[j] = s2[j - (i - 1)] /\ j - (i - 1) \in 1 .. Len(entries) - i
      <4>1. j \in 1 .. Len(s1) + Len(s2) /\ ~(j <= Len(s1)) /\ j \in Int /\ i \in Int
        BY SMTT(30), <1>0, <1>1, <1>2
      <4>2. r[j] = s2[j - Len(s1)]
        BY <2>1, <4>1
      <4> QED
        BY SMTT(30), <1>0, <1>1, <4>1, <4>2
    <3>2. s2[j - (i - 1)] = entries[i + (j - (i - 1))] /\ i + (j - (i - 1)) = j + 1
      BY SMTT(30), <1>0, <1>2, <3>1
    <3> QED
      BY <3>1, <3>2
  <2>3. Len(r) = Len(entries) - 1
    BY <1>0, <1>1, <1>2, <2>1
  <2>4. ASSUME NEW j \in 1 .. i - 1 PROVE r[j] = entries[j]
    <3>1. j \in 1 .. Len(s1) + Len(s2) /\ j <= Len(s1)
      BY <1>0, <1>1, <1>2
    <3> QED
      BY <1>1, <2>1, <3>1
  <2> QED
    BY <2>1, <2>2, <2>3, <2>4
<1>5. RemoveAt(entries, i) = r
  BY <1>3 DEF RemoveAt, s1, s2
<1>6. \A j \in DOMAIN r : r[j] \in Holds(entries)
  BY SMTT(30), <1>0, <1>4 DEF Holds, ToSet
<1>7. ASSUME NEW j \in DOMAIN entries, j # i PROVE entries[j] \in Holds(r)
  <2>1. CASE j < i
    BY <1>0, <1>4, <2>1 DEF Holds, ToSet
  <2>2. CASE j > i
    <3>1. j - 1 \in DOMAIN r /\ r[j - 1] = entries[j]
      BY <1>0, <1>4, <2>2
    <3> QED
      BY <3>1 DEF Holds, ToSet
  <2> QED
    BY <1>0, <1>7, <2>1, <2>2
<1>8. Holds(r) \subseteq Holds(entries)
  BY <1>6 DEF Holds, ToSet
<1>9. Holds(entries) \subseteq Holds(r) \union {entries[i]}
  <2>1. ASSUME NEW j \in DOMAIN entries PROVE entries[j] \in Holds(r) \union {entries[i]}
    BY <1>7
  <2> QED
    BY <2>1 DEF Holds, ToSet
<1> QED
  BY <1>4, <1>5, <1>8, <1>9

\* Every machine has the signer's keys, the signer still has those of a command under
\* way, and a text that was signed and left alone carries one of them.
Rotated ==
  /\ \A m \in Machine : Holds(ring[Signer]) \subseteq Holds(ring[m])
  /\ job[Signer] = "sign" => Holds(loaded[Signer]) \subseteq Holds(ring[Signer])
  /\ \A d \in Document : text[d].good => text[d].stamp \in Holds(ring[Signer])

RotationInv ==
  /\ ring \in [Machine -> Seq(Key)] /\ loaded \in [Machine -> Seq(Key)]
  /\ text \in [Document -> Texts]
  /\ job \in [Machine -> {"idle", "sign", "judged"}]
  /\ \A m \in Machine : job[m] = "sign" => m = Signer /\ loaded[m] # <<>>
  /\ ~strayed => Rotated

LEMMA NoTextType == NoText \in Texts /\ ~NoText.good
BY DEF NoText, Texts

LEMMA RotationBegins == KeyInit => RotationInv
<1> SUFFICES ASSUME KeyInit PROVE RotationInv
  OBVIOUS
<1>1. <<FirstKey>> \in Seq(Key) /\ <<>> \in Seq(Key)
  BY FirstKeyIsKey
<1>2. ring \in [Machine -> Seq(Key)] /\ loaded \in [Machine -> Seq(Key)]
  BY <1>1 DEF KeyInit
<1>3. \A m \in Machine : ring[m] = ring[Signer] /\ job[m] = "idle"
  BY SignerIsMachine DEF KeyInit
<1>4. text \in [Document -> Texts] /\ \A d \in Document : ~text[d].good
  BY NoTextType DEF KeyInit
<1>5. job \in [Machine -> {"idle", "sign", "judged"}]
  BY DEF KeyInit
<1> QED
  BY <1>2, <1>3, <1>4, <1>5, SignerIsMachine DEF RotationInv, Rotated

\* A ring changes.
LEMMA RingChanges ==
  ASSUME RotationInv, NEW m \in Machine, NEW entries \in Seq(Key),
         ring' = [ring EXCEPT ![m] = entries], UNCHANGED <<text, command>>,
         ~strayed' => ~strayed /\ (Rotated => Rotated')
  PROVE  RotationInv'
BY DEF RotationInv, command

\* What the founder adds and deletes in its order.
LEMMA RotationGoesOn ==
  ASSUME RotationInv, NEW m \in Machine,
         \/ \E k \in Key : AppendKey(m, k)
         \/ \E i \in DOMAIN ring[m] : RetireKey(m, i)
  PROVE  RotationInv'
<1>0. ring[m] \in Seq(Key) /\ ring \in [Machine -> Seq(Key)]
  BY DEF RotationInv
<1>1. ASSUME NEW k \in Key, AppendKey(m, k) PROVE RotationInv'
  <2>1. PICK entries \in Seq(Key) : entries = Append(ring[m], k)
    BY <1>0, LineAdded
  <2>2. Holds(entries) = Holds(ring[m]) \union {k}
    BY <1>0, <2>1, LineAdded
  <2>3. ring' = [ring EXCEPT ![m] = entries] /\ UNCHANGED <<text, command>>
    BY <1>1, <2>1 DEF AppendKey
  <2>4. ASSUME ~strayed', Rotated PROVE Rotated'
    <3>1. m = Signer => \A n \in Machine \ {m} : k \in Holds(ring[n])
      BY <1>1, <2>4 DEF AppendKey
    <3>2. \A n \in Machine : Holds(ring[n]) \subseteq Holds(ring'[n]) /\ (n # m => ring'[n] = ring[n])
      BY <1>0, <2>2, <2>3
    <3>3. Holds(ring'[m]) = Holds(ring[m]) \union {k}
      BY <1>0, <2>2, <2>3
    <3>4. \A n \in Machine : Holds(ring'[Signer]) \subseteq Holds(ring'[n])
      BY <2>4, <3>1, <3>2, <3>3, SignerIsMachine DEF Rotated
    <3>5. Holds(ring[Signer]) \subseteq Holds(ring'[Signer])
      BY <3>2, SignerIsMachine
    <3> QED
      BY <2>3, <2>4, <3>4, <3>5 DEF Rotated, command
  <2>5. ~strayed' => ~strayed
    BY <1>1 DEF AppendKey
  <2> QED
    BY <2>3, <2>4, <2>5, RingChanges
<1>2. ASSUME NEW i \in DOMAIN ring[m], RetireKey(m, i) PROVE RotationInv'
  <2>1. PICK entries \in Seq(Key) : entries = RemoveAt(ring[m], i)
    BY <1>0, LineDeleted
  <2>2. PICK k : k = ring[m][i]
    OBVIOUS
  <2>3. Holds(entries) \subseteq Holds(ring[m]) /\ Holds(ring[m]) \subseteq Holds(entries) \union {k}
    BY <1>0, <2>1, <2>2, LineDeleted
  <2>4. ring' = [ring EXCEPT ![m] = entries] /\ UNCHANGED <<text, command>>
    BY <1>2, <2>1 DEF RetireKey
  <2>5. ring'[m] = entries /\ \A n \in Machine : n # m => ring'[n] = ring[n]
    BY <1>0, <2>4
  <2>6. ASSUME ~strayed', Rotated PROVE Rotated'
    <3>1. k \notin Holds(entries) =>
            /\ \A d \in Document : text[d].stamp # k
            /\ m # Signer => k \notin Holds(ring[Signer])
            /\ k \notin Rotating[Signer]
      BY <1>2, <2>2, <2>5, <2>6 DEF RetireKey
    <3>2. job[Signer] = "sign" => Rotating[Signer] = Holds(loaded[Signer])
      BY SignerIsMachine DEF Rotating
    <3>3. \A n \in Machine : Holds(ring'[Signer]) \subseteq Holds(ring'[n])
      BY <2>3, <2>5, <2>6, <3>1, SignerIsMachine DEF Rotated
    <3>4. job[Signer] = "sign" => Holds(loaded[Signer]) \subseteq Holds(ring'[Signer])
      BY <2>3, <2>5, <2>6, <3>1, <3>2, SignerIsMachine DEF Rotated
    <3>5. \A d \in Document : text[d].good => text[d].stamp \in Holds(ring'[Signer])
      BY <2>3, <2>5, <2>6, <3>1, SignerIsMachine DEF Rotated
    <3> QED
      BY <2>4, <3>3, <3>4, <3>5 DEF Rotated, command
  <2>7. ~strayed' => ~strayed
    BY <1>2 DEF RetireKey
  <2> QED
    BY <2>4, <2>6, <2>7, RingChanges
<1> QED
  BY <1>1, <1>2

\* A file changes, and carries a key of the signer if it is good.
LEMMA FileChanges ==
  ASSUME RotationInv, NEW d, NEW t \in Texts, text' = [text EXCEPT ![d] = t],
         UNCHANGED <<ring, strayed>>, ~strayed /\ t.good => t.stamp \in Holds(ring[Signer]),
         job' \in [Machine -> {"idle", "sign", "judged"}], loaded' \in [Machine -> Seq(Key)],
         \A m \in Machine : job'[m] = "sign" => job[m] = "sign" /\ loaded'[m] = loaded[m]
  PROVE  RotationInv'
BY SignerIsMachine DEF RotationInv, Rotated

LEMMA FilesGoOn ==
  ASSUME RotationInv,
         \/ \E m \in Machine : Act(m)
         \/ \E m \in Machine, d \in Document : Sign(m, d)
         \/ \E d \in Document : IssueText(d) \/ \E paste \in BOOLEAN : EditText(d, paste)
  PROVE  RotationInv'
<1>0. ring \in [Machine -> Seq(Key)] /\ loaded \in [Machine -> Seq(Key)] /\ text \in [Document -> Texts]
      /\ job \in [Machine -> {"idle", "sign", "judged"}]
  BY DEF RotationInv
<1>1. ASSUME NEW m \in Machine, Act(m) PROVE RotationInv'
  <2>1. /\ text' = [text EXCEPT ![subject[m]] = NoText] /\ UNCHANGED <<ring, strayed>>
        /\ job' = [job EXCEPT ![m] = "idle"] /\ loaded' = [loaded EXCEPT ![m] = <<>>]
    BY <1>1 DEF Act, Finish
  <2>2. job' \in [Machine -> {"idle", "sign", "judged"}] /\ loaded' \in [Machine -> Seq(Key)]
    BY <1>0, <2>1
  <2>3. \A n \in Machine : job'[n] = "sign" => job[n] = "sign" /\ loaded'[n] = loaded[n]
    BY <1>0, <2>1
  <2> QED
    BY <2>1, <2>2, <2>3, NoTextType, FileChanges
<1>2. ASSUME NEW m \in Machine, NEW d \in Document, Sign(m, d) PROVE RotationInv'
  <2>1. PICK k : k = SigningKey(loaded[m])
    OBVIOUS
  <2>2. m = Signer /\ job[m] = "sign" /\ loaded[m] \in Seq(Key) /\ loaded[m] # <<>>
    BY <1>0, <1>2 DEF Sign, RotationInv
  <2>3. k \in Holds(loaded[Signer]) /\ k \in Key
    BY <2>1, <2>2, SigningKeyHeld DEF Holds, ToSet
  <2>4. PICK t : t = SignedText(text[d], k)
    OBVIOUS
  <2>5. t \in Texts /\ (t.good => t.stamp = k)
    BY <1>0, <2>3, <2>4 DEF SignedText, Texts
  <2>6. text' = [text EXCEPT ![d] = t] /\ UNCHANGED <<ring, strayed, job, loaded>>
    BY <1>2, <2>1, <2>4 DEF Sign, command
  <2> QED
    BY <1>0, <2>2, <2>3, <2>5, <2>6, FileChanges DEF RotationInv, Rotated
<1>3. ASSUME NEW d \in Document, IssueText(d) PROVE RotationInv'
  <2>1. PICK t : t = [NoText EXCEPT !.live = TRUE]
    OBVIOUS
  <2>2. t \in Texts /\ ~t.good
    BY <2>1 DEF NoText, Texts
  <2>3. text' = [text EXCEPT ![d] = t] /\ UNCHANGED <<ring, strayed, job, loaded>>
    BY <1>3, <2>1 DEF IssueText, command
  <2> QED
    BY <1>0, <2>2, <2>3, FileChanges
<1>4. ASSUME NEW d \in Document, NEW paste \in BOOLEAN, EditText(d, paste) PROVE RotationInv'
  <2>1. UNCHANGED <<ring, strayed, job, loaded>>
    BY <1>4 DEF EditText, command
  <2>2. PICK t : t = Changed(text[d], paste)
    OBVIOUS
  <2>3. t \in Texts /\ ~t.good
    BY <1>0, <2>2 DEF Changed, Texts
  <2>4. text' = [text EXCEPT ![d] = t]
    BY <1>4, <2>2 DEF EditText
  <2> QED
    BY <1>0, <2>1, <2>3, <2>4, FileChanges
<1> QED
  BY <1>1, <1>2, <1>3, <1>4

LEMMA RingsGoOn == RotationInv /\ [KeyNext]_keyVars => RotationInv'
<1> SUFFICES ASSUME RotationInv, [KeyNext]_keyVars PROVE RotationInv'
  OBVIOUS
<1>0. ring \in [Machine -> Seq(Key)] /\ loaded \in [Machine -> Seq(Key)] /\ job \in [Machine -> {"idle", "sign", "judged"}]
  BY DEF RotationInv
<1>1. ASSUME NEW m \in Machine, Load(m) PROVE RotationInv'
  <2>1. /\ m = Signer /\ ring[m] # <<>> /\ UNCHANGED <<ring, text, strayed>>
        /\ loaded' = [loaded EXCEPT ![m] = ring[m]] /\ job' = [job EXCEPT ![m] = "sign"]
    BY <1>1 DEF Load
  <2>2. loaded' \in [Machine -> Seq(Key)] /\ job' \in [Machine -> {"idle", "sign", "judged"}]
    BY <1>0, <2>1
  <2>3. loaded'[Signer] = ring[Signer]
    BY <1>0, <2>1
  <2>4. \A n \in Machine \ {m} : job'[n] = job[n] /\ loaded'[n] = loaded[n]
    BY <1>0, <2>1
  <2> QED
    BY <2>1, <2>2, <2>3, <2>4 DEF RotationInv, Rotated
<1>2. ASSUME NEW m \in Machine, Leave(m) PROVE RotationInv'
  <2>1. /\ UNCHANGED <<ring, text, strayed>>
        /\ loaded' = [loaded EXCEPT ![m] = <<>>] /\ job' = [job EXCEPT ![m] = "idle"]
    BY <1>2 DEF Leave, Finish
  <2>2. loaded' \in [Machine -> Seq(Key)] /\ job' \in [Machine -> {"idle", "sign", "judged"}]
    BY <1>0, <2>1
  <2>3. \A n \in Machine : job'[n] = "sign" => job[n] = "sign" /\ loaded'[n] = loaded[n]
    BY <1>0, <2>1
  <2> QED
    BY <2>1, <2>2, <2>3, SignerIsMachine DEF RotationInv, Rotated
<1>3. ASSUME NEW m \in Machine, NEW d \in Document, Verify(m, d) PROVE RotationInv'
  <2>1. UNCHANGED <<ring, text, strayed, loaded>> /\ job' = [job EXCEPT ![m] = "judged"]
    BY <1>3 DEF Verify
  <2>2. job' \in [Machine -> {"idle", "sign", "judged"}] /\ \A n \in Machine : job'[n] = "sign" => job[n] = "sign"
    BY <1>0, <2>1
  <2> QED
    BY <2>1, <2>2, SignerIsMachine DEF RotationInv, Rotated
<1>4. ASSUME \/ \E m \in Machine, mode \in Modes : Declare(m, mode)
             \/ \E m \in Machine : Restored(m)
             \/ UNCHANGED keyVars
      PROVE  RotationInv'
  <2>1. UNCHANGED <<ring, text, strayed, loaded, job>>
    BY <1>4 DEF Declare, Restored, keyVars, command
  <2> QED
    BY <2>1 DEF RotationInv, Rotated
<1> QED
  BY <1>1, <1>2, <1>3, <1>4, RotationGoesOn, FilesGoOn DEF KeyNext

\* Whatever is signed, edited and pasted meanwhile and however often the key is rotated:
\* in the order of the runbook no machine refuses a text that was signed and left alone.
THEOREM RotationIsSafe == KeySpec => []RotationRefusesNothing
<1>1. RotationInv => RotationRefusesNothing
  <2> SUFFICES ASSUME RotationInv, ~strayed, NEW d \in Document, NEW m \in Machine, text[d].good
               PROVE  VerdictOn(text[d], ring[m]) = "authentic"
    BY DEF RotationRefusesNothing
  <2>1. text[d].stamp \in Holds(ring[m]) /\ ring[m] \in Seq(Key)
    BY DEF RotationInv, Rotated
  <2>2. text[d].stamp # Unstamped
    BY <2>1, FirstKeyIsKey DEF Holds, ToSet
  <2> QED
    BY <2>1, <2>2 DEF VerdictOn
<1> QED
  BY RotationBegins, RingsGoOn, <1>1, PTL DEF KeySpec


-----------------------------------------------------------------------------
(* DefectSweep.                                                             *)

Rows(table) == \A c \in DOMAIN table : table[c] = [test |-> table[c].test, last |-> table[c].last]

\* What a sweep that nobody overtook will write back is what is on file.
CopyInv ==
  /\ Rows(register) /\ Rows(copy)
  /\ phase \in {"idle", "running", "written"}
  /\ phase = "running" /\ ~overtaken => copy = register

LEMMA CopyBegins == SweepInit => CopyInv
BY DEF SweepInit, CopyInv, Rows, Empty

\* Writing observations into rows changes neither what is listed nor what is declared.
LEMMA ObservationsDeclareNothing ==
  ASSUME NEW table, Rows(table), NEW found
  PROVE  /\ Rows(WithObservations(table, found))
         /\ \A c : Declares(WithObservations(table, found), c) = Declares(table, c)
<1> DEFINE written == WithObservations(table, found)
<1>1. DOMAIN written = DOMAIN table
  BY DEF WithObservations
<1>2. \A c \in DOMAIN table : written[c] = [test |-> table[c].test, last |-> found[c]]
  BY DEF WithObservations, Rows
<1> HIDE DEF written
<1>3. Rows(written)
  BY <1>1, <1>2 DEF Rows
<1>4. \A c : Declares(written, c) = Declares(table, c)
  BY <1>1, <1>2 DEF Declares
<1> QED
  BY <1>3, <1>4 DEF written

LEMMA CopyGoesOn == CopyInv /\ [SweepNext]_sweepVars => CopyInv'
<1> SUFFICES ASSUME CopyInv, [SweepNext]_sweepVars PROVE CopyInv'
  OBVIOUS
<1>1. CASE ReadRegister
  BY <1>1 DEF ReadRegister, CopyInv
<1>2. ASSUME NEW c \in Class, Observe(c) \/ TimesOut(c) PROVE CopyInv'
  BY <1>2 DEF Observe, TimesOut, CopyInv
<1>3. CASE WriteRegister
  <2>1. Rows(register')
    <3>1. register' = register \/ register' = WithObservations(copy, observed)
      BY <1>3 DEF WriteRegister
    <3>2. Rows(WithObservations(copy, observed))
      BY ObservationsDeclareNothing DEF CopyInv
    <3> HIDE DEF Rows
    <3> QED
      BY <3>1, <3>2 DEF CopyInv
  <2> QED
    BY <1>3, <2>1 DEF WriteRegister, CopyInv
<1>4. CASE AppendRecord \/ SweepKilled
  BY <1>4 DEF AppendRecord, SweepKilled, CopyInv
<1>5. ASSUME NEW c \in Class, NEW test \in Test \union {NoTest}, EditRegister(c, test) PROVE CopyInv'
  <2>1. Rows(register')
    BY <1>5 DEF EditRegister, CopyInv, Rows
  <2> QED
    BY <1>5, <2>1 DEF EditRegister, CopyInv
<1>6. ASSUME NEW t \in Test, NEW result \in TestResults \union {"gone", "raises"}, EditTree(t, result) PROVE CopyInv'
  BY <1>6 DEF EditTree, CopyInv
<1>7. CASE UNCHANGED sweepVars
  BY <1>7 DEF sweepVars, CopyInv
<1> QED
  BY <1>1, <1>2, <1>3, <1>4, <1>5, <1>6, <1>7 DEF SweepNext

\* A sweep takes no class and no declared test away, unless it was overtaken.
THEOREM DeclarationsStay == SweepSpec => SweepKeepsDeclarations
<1>1. CopyInv /\ [SweepNext]_sweepVars =>
        [phase = "running" /\ phase' = "written" /\ ~overtaken
           => \A c \in Class : Declares(register', c) = Declares(register, c)]_sweepVars
  <2> SUFFICES ASSUME CopyInv, SweepNext, phase = "running", phase' = "written", ~overtaken, NEW c \in Class
               PROVE  Declares(register', c) = Declares(register, c)
    BY DEF sweepVars
  <2>1. WriteRegister
    BY DEF SweepNext, ReadRegister, Observe, TimesOut, AppendRecord, SweepKilled, EditRegister, EditTree
  <2>2. copy = register
    BY DEF CopyInv
  <2>3. register' = register \/ register' = WithObservations(register, observed)
    BY <2>1, <2>2 DEF WriteRegister
  <2> QED
    BY <2>3, ObservationsDeclareNothing DEF CopyInv
<1> QED
  BY CopyBegins, CopyGoesOn, <1>1, PTL DEF SweepSpec, SweepKeepsDeclarations

-----------------------------------------------------------------------------
(* FleetApplier.                                                            *)

\* A nonempty set of naturals has a least member.
LEMMA Smallest ==
  ASSUME NEW S \in SUBSET Nat, S # {}
  PROVE  Min(S) \in S /\ \A x \in S : Min(S) <= x
<1>1. PICK m \in S : \A y \in S : ~ (<<y, m>> \in OpToRel(<, Nat))
  <2>1. IsWellFoundedOn(OpToRel(<, Nat), Nat)
    BY NatLessThanWellFounded
  <2> QED
    BY <2>1, WFMin
<1>2. \A y \in S : ~ (y < m)
  BY <1>1 DEF OpToRel
<1>3. \A y \in S : m <= y
  BY <1>2
<1> QED
  BY <1>3 DEF Min

\* The first reason that applies is "ALLOW" only when none of the others does.
LEMMA AllowedPasses ==
  ASSUME NEW entry \in Entry, NEW defs, Judge(entry, defs) = "ALLOW"
  PROVE  Fence(entry, defs)
<1> DEFINE hits == {i \in 1 .. Len(Checks) : Applies(Checks[i], entry, defs)}
<1>1. /\ Len(Checks) = 8
      /\ Checks[1] = "REFUSE_SMUGGLED_FIELD" /\ Checks[2] = "REFUSE_DESTRUCTIVE"
      /\ Checks[3] = "REFUSE_UNKNOWN_OP" /\ Checks[4] = "REFUSE_MALFORMED"
      /\ Checks[5] = "REFUSE_NON_FLEET" /\ Checks[6] = "REFUSE_UNKNOWN_TASK"
      /\ Checks[7] = "REFUSE_DIGEST_MISMATCH" /\ Checks[8] = "ALLOW"
  BY DEF Checks
<1>2. Applies("ALLOW", entry, defs)
  BY DEF Applies
<1>3. 8 \in hits /\ hits \subseteq Nat
  BY <1>1, <1>2
<1>4. Judge(entry, defs) = Checks[Min(hits)]
  BY <1>3 DEF Judge, SelectInSeq
<1>5. Min(hits) \in hits /\ \A i \in hits : Min(hits) <= i
  <2> HIDE DEF hits
  <2> QED
    BY <1>3, Smallest
<1>6. Min(hits) \in 1 .. 8
  BY <1>1, <1>5
<1>7. Min(hits) = 8
  <2> DEFINE m == Min(hits)
  <2>1. m \in 1 .. 8 /\ Checks[m] = "ALLOW"
    BY <1>4, <1>6
  <2> HIDE DEF m
  <2>2. m = 8
    BY <1>1, <2>1
  <2> QED
    BY <2>2 DEF m
<1>8. \A i \in 1 .. 7 : ~ Applies(Checks[i], entry, defs)
  BY <1>1, <1>5, <1>7
<1>9. /\ ~ Applies("REFUSE_SMUGGLED_FIELD", entry, defs) /\ ~ Applies("REFUSE_UNKNOWN_OP", entry, defs)
      /\ ~ Applies("REFUSE_MALFORMED", entry, defs) /\ ~ Applies("REFUSE_NON_FLEET", entry, defs)
      /\ ~ Applies("REFUSE_UNKNOWN_TASK", entry, defs) /\ ~ Applies("REFUSE_DIGEST_MISMATCH", entry, defs)
  BY <1>1, <1>8
<1>10. entry.task \in Task \union {NoTask, Outside}
  BY DEF Entry
<1> QED
  BY <1>9, <1>10 DEF Applies, Fence

\* What a sweep holds of its plan, what it has logged of it, and what is on the phone.
PlanInv ==
  /\ pending.id \in Manifest \union {NoManifest}
  /\ sweep # "idle" => pending.id # NoManifest
  /\ sweep \in {"read", "planned", "audited"} => read.id \in Manifest
  /\ sweep \in {"planned", "audited"} =>
       /\ DOMAIN outcomes \subseteq DOMAIN Requests[read.id]
       /\ \A i \in DOMAIN outcomes : outcomes[i] = "ALLOW" => Fence(Requests[read.id][i], read.catalogue)
  /\ sweep = "audited" => PlanRows \subseteq audited
  /\ AllowedIsReviewed
  /\ ShownIsAudited

LEMMA PlanBegins == ApplierInit => PlanInv
BY DEF ApplierInit, PlanInv, AllowedIsReviewed, ShownIsAudited, NoStatus

LEMMA PlanGoesOn == PlanInv /\ [ApplierNext]_applierVars => PlanInv'
<1> SUFFICES ASSUME PlanInv, [ApplierNext]_applierVars PROVE PlanInv'
  OBVIOUS
<1> USE DEF requested
<1>1. CASE BeginSweep
  BY <1>1 DEF BeginSweep, PlanInv, AllowedIsReviewed, ShownIsAudited
<1>2. CASE ReadManifest
  BY <1>2 DEF ReadManifest, PlanInv, AllowedIsReviewed, ShownIsAudited
<1>3. CASE PlanManifest
  <2>1. read.id \in Manifest /\ Requests[read.id] \in Seq(Entry)
    BY <1>3, RequestsAreEntries DEF PlanManifest, PlanInv
  <2>2. \A i \in DOMAIN Requests[read.id] : Requests[read.id][i] \in Entry
    BY <2>1
  <2>3. DOMAIN outcomes' = DOMAIN Requests[read.id]
    BY <1>3 DEF PlanManifest, Plan
  <2>4. ASSUME NEW i \in DOMAIN outcomes', outcomes'[i] = "ALLOW"
        PROVE  Fence(Requests[read.id][i], read.catalogue)
    <3>1. Judge(Requests[read.id][i], read.catalogue) = "ALLOW"
      BY <1>3, <2>3, <2>4 DEF PlanManifest, Plan
    <3> QED
      BY <2>2, <2>3, <3>1, AllowedPasses
  <2> QED
    BY <1>3, <2>1, <2>3, <2>4 DEF PlanManifest, PlanInv, AllowedIsReviewed, ShownIsAudited
<1>4. CASE AuditPlan
  <2>1. \A row \in PlanRows : row.verdict = "ALLOW" => Fence(row.entry, row.defs)
    BY <1>4 DEF AuditPlan, PlanInv, PlanRows
  <2>2. AllowedIsReviewed'
    BY <1>4, <2>1 DEF AuditPlan, PlanInv, AllowedIsReviewed
  <2>3. ShownIsAudited'
    BY <1>4 DEF AuditPlan, PlanInv, ShownIsAudited
  <2>4. PlanRows' = PlanRows
    BY <1>4 DEF AuditPlan, PlanRows
  <2> QED
    BY <1>4, <2>2, <2>3, <2>4 DEF AuditPlan, PlanInv
<1>5. CASE WriteStatus
  <2>1. ASSUME NEW i \in DOMAIN status'.outcomes
        PROVE  \E row \in audited : /\ row.id = status'.id
                                     /\ row.entry = Requests[status'.id][i]
                                     /\ row.verdict = status'.outcomes[i]
    <3>1. status'.id = read.id /\ status'.outcomes = outcomes
      BY <1>5 DEF WriteStatus
    <3> DEFINE row == [id |-> read.id, entry |-> Requests[read.id][i], verdict |-> outcomes[i],
                       defs |-> read.catalogue]
    <3>2. row \in audited
      BY <1>5, <2>1, <3>1 DEF WriteStatus, PlanInv, PlanRows
    <3> QED
      BY <3>1, <3>2
  <2> QED
    BY <1>5, <2>1 DEF WriteStatus, PlanInv, AllowedIsReviewed, ShownIsAudited
<1>6. CASE ApplierStopped
  BY <1>6 DEF ApplierStopped, PlanInv, AllowedIsReviewed, ShownIsAudited
<1>7. CASE ApplierSurroundings
  <2>1. pending'.id \in Manifest \/ pending' = pending
    BY <1>7 DEF ApplierSurroundings
  <2>2. UNCHANGED <<sweep, read, outcomes, audited, status>>
    BY <1>7 DEF ApplierSurroundings
  <2>3. PlanRows' = PlanRows
    BY <2>2 DEF PlanRows
  <2> QED
    BY <2>1, <2>2, <2>3, NamesAreDistinct DEF PlanInv, AllowedIsReviewed, ShownIsAudited
<1>8. CASE UNCHANGED applierVars
  <2>1. PlanRows' = PlanRows
    BY <1>8 DEF applierVars, PlanRows
  <2> QED
    BY <1>8, <2>1 DEF applierVars, PlanInv, AllowedIsReviewed, ShownIsAudited
<1> QED
  BY <1>1, <1>2, <1>3, <1>4, <1>5, <1>6, <1>7, <1>8 DEF ApplierNext

\* Only a permitted operation on a reviewed definition is ever allowed.
THEOREM AllowedOnlyReviewed == ApplierSpec => []AllowedIsReviewed
<1>1. PlanInv => AllowedIsReviewed
  BY DEF PlanInv
<1> QED
  BY PlanBegins, PlanGoesOn, <1>1, PTL DEF ApplierSpec

\* No decision is on the phone that is not in the audit log.
THEOREM ShownOnlyAudited == ApplierSpec => []ShownIsAudited
<1>1. PlanInv => ShownIsAudited
  BY DEF PlanInv
<1> QED
  BY PlanBegins, PlanGoesOn, <1>1, PTL DEF ApplierSpec

-----------------------------------------------------------------------------
(* Registry.                                                                *)

Registering == {"read", "scratch", "replace", "yaml"}

\* The types that the invariants below rest on.
RegistryTyped ==
  /\ refs \in Lists /\ scratch \in Seq(Ref) \union {NoFile}
  /\ raw \in [Process -> Lists]
  /\ kernel \in [Dir -> SUBSET Parts] /\ left \in [Process -> SUBSET PackFile]
  /\ pc \in [Process -> Place]
  /\ work \in [Process -> [dir : Dir \union {NoDir}, body : Body \union {NoYaml}, force : BOOLEAN]]
  /\ \A p \in Process : pc[p] \in Registering \union Installing => work[p].dir \in Dir

LEMMA JobTypes ==
  /\ NoJob \in [dir : Dir \union {NoDir}, body : Body \union {NoYaml}, force : BOOLEAN]
  /\ \A force \in BOOLEAN : [NoJob EXCEPT !.force = force] = [dir |-> NoDir, body |-> NoYaml, force |-> force]
BY DEF NoJob

LEMMA StarterIsList == Starter \in Seq(Ref) /\ \A d \in Dir : [name |-> NameOf[d], dir |-> d] \in Ref
BY PlacesAreNamed, ExampleIsName DEF Starter, Ref

LEMMA NextDirIsAhead ==
  ASSUME NEW p \in Process, Ahead(p) # {}
  PROVE  NextDir(p) \in Dir /\ yaml[NextDir(p)] # NoYaml
<1>1. Ahead(p) \in SUBSET Nat
  BY DirsAreNumbers DEF Ahead
<1>2. Min(Ahead(p)) \in Ahead(p) /\ \A x \in Ahead(p) : Min(Ahead(p)) <= x
  BY <1>1, Smallest
<1>3. NextDir(p) \in Ahead(p)
  BY <1>2 DEF NextDir
<1> QED
  BY <1>3 DEF Ahead

\* A command that ends, or goes on without a change of job, keeps the types of its own.
LEMMA TypedEnds ==
  ASSUME RegistryTyped, NEW p \in Process, Ends(p)
  PROVE  /\ raw' \in [Process -> Lists] /\ pc' \in [Process -> Place]
         /\ work' \in [Process -> [dir : Dir \union {NoDir}, body : Body \union {NoYaml}, force : BOOLEAN]]
         /\ \A q \in Process : pc'[q] \in Registering \union Installing => work'[q].dir \in Dir
BY JobTypes DEF RegistryTyped, Ends, Lists, Place, Registering, Installing

LEMMA TypedGoes ==
  ASSUME RegistryTyped, NEW p \in Process, NEW place \in Place, Goes(p, place), UNCHANGED work,
         place \in Registering \union Installing => work[p].dir \in Dir
  PROVE  /\ pc' \in [Process -> Place]
         /\ \A q \in Process : pc'[q] \in Registering \union Installing => work'[q].dir \in Dir
BY DEF RegistryTyped, Goes

LEMMA TypedStarts ==
  ASSUME RegistryTyped, NEW p \in Process, NEW place \in Place,
         NEW what \in [dir : Dir \union {NoDir}, body : Body \union {NoYaml}, force : BOOLEAN],
         Starts(p, place, what), UNCHANGED <<refs, scratch, kernel, left, raw>>,
         place \in Registering \union Installing => what.dir \in Dir
  PROVE  RegistryTyped'
BY DEF RegistryTyped, Starts

\* A step of init-project touches one kernel and what is left to do of it.
KernelStep(p) ==
  \/ WriteManifest(p) \/ FindPack(p) \/ RemoveFile(p) \/ RemoveDirectory(p)
  \/ MakeDirectory(p) \/ CopyFile(p) \/ EndCopy(p) \/ WritePointer(p)

LEMMA KernelSteps ==
  ASSUME RegistryTyped, NEW p \in Process, KernelStep(p)
  PROVE  /\ pc[p] \in Installing /\ Running(p)
         /\ kernel' \in [Dir -> SUBSET Parts] /\ left' \in [Process -> SUBSET PackFile]
         /\ Ends(p) \/ \E place \in Installing : Goes(p, place) /\ UNCHANGED <<work, raw, known>>
         /\ UNCHANGED <<refs, scratch, yaml, packs, disturbed, history>>
<1>1. pc[p] \in Installing /\ Running(p)
  BY DEF KernelStep, WriteManifest, FindPack, RemoveFile, RemoveDirectory, MakeDirectory, CopyFile, EndCopy,
         WritePointer, Installing, Running
<1>2. work[p].dir \in Dir /\ Kernel(p) \in SUBSET Parts /\ left[p] \in SUBSET PackFile
  BY <1>1 DEF RegistryTyped, Kernel
<1>3. \E parts \in SUBSET Parts, rest \in SUBSET PackFile, next \in Installing \union {"idle"} : Touches(p, parts, rest, next)
  <2>1. CASE WriteManifest(p)
    <3>1. Kernel(p) \union {"manifest"} \in SUBSET Parts
      BY <1>2 DEF Parts
    <3> QED
      BY <2>1, <3>1 DEF WriteManifest, Installing
  <2>2. CASE FindPack(p)
    BY <1>2, <2>2 DEF FindPack, Installing
  <2>3. CASE RemoveFile(p)
    <3> PICK f \in left[p] : IF f \in Kernel(p) THEN Touches(p, Kernel(p) \ {f}, left[p] \ {f}, "removing")
                                                ELSE Touches(p, Kernel(p), {}, "idle")
      BY <2>3 DEF RemoveFile
    <3>1. Kernel(p) \ {f} \in SUBSET Parts /\ left[p] \ {f} \in SUBSET PackFile
      BY <1>2
    <3> QED
      BY <1>2, <3>1 DEF Installing
  <2>4. CASE RemoveDirectory(p)
    <3>1. Kernel(p) \ {"directory"} \in SUBSET Parts
      BY <1>2
    <3> QED
      BY <1>2, <2>4, <3>1 DEF RemoveDirectory, Installing
  <2>5. CASE MakeDirectory(p)
    <3>1. Kernel(p) \union {"directory"} \in SUBSET Parts
      BY <1>2 DEF Parts
    <3> QED
      BY <1>2, <2>5, <3>1 DEF MakeDirectory, Installing
  <2>6. CASE CopyFile(p)
    <3> PICK f \in left[p] : IF "directory" \in Kernel(p) THEN Touches(p, Kernel(p) \union {f}, left[p] \ {f}, pc[p])
                                                          ELSE Touches(p, Kernel(p), left[p] \ {f}, "spoiled")
      BY <2>6 DEF CopyFile
    <3>1. Kernel(p) \union {f} \in SUBSET Parts /\ left[p] \ {f} \in SUBSET PackFile
      BY <1>2 DEF Parts
    <3> QED
      BY <1>1, <1>2, <3>1 DEF Installing
  <2>7. CASE EndCopy(p)
    BY <1>2, <2>7 DEF EndCopy, Installing
  <2>8. CASE WritePointer(p)
    <3>1. Kernel(p) \union {"pointer"} \in SUBSET Parts
      BY <1>2 DEF Parts
    <3> QED
      BY <2>8, <3>1 DEF WritePointer, Installing
  <2> QED
    BY <2>1, <2>2, <2>3, <2>4, <2>5, <2>6, <2>7, <2>8 DEF KernelStep
<1> QED
  BY <1>1, <1>2, <1>3 DEF Touches, RegistryTyped

LEMMA RegistryTypesBegin == RegistryInit => RegistryTyped
<1> SUFFICES ASSUME RegistryInit PROVE RegistryTyped
  OBVIOUS
<1>1. "idle" \in Place /\ "idle" \notin Registering \union Installing
  BY DEF Place, Registering, Installing
<1>2. kernel \in [Dir -> SUBSET Parts] /\ left \in [Process -> SUBSET PackFile]
  BY DEF RegistryInit
<1> QED
  BY <1>1, <1>2, JobTypes DEF RegistryInit, RegistryTyped, Lists

LEMMA RegistryTypesGoOn == RegistryTyped /\ [RegistryNext]_registryVars => RegistryTyped'
<1> SUFFICES ASSUME RegistryTyped, [RegistryNext]_registryVars PROVE RegistryTyped'
  OBVIOUS
<1> USE DEF files, install, history
<1>1. ASSUME NEW p \in Process, NEW force \in BOOLEAN, Bootstrap(p, force) PROVE RegistryTyped'
  <2>1. [NoJob EXCEPT !.force = force] \in [dir : Dir \union {NoDir}, body : Body \union {NoYaml}, force : BOOLEAN]
    BY JobTypes
  <2>2. "skeleton" \in Place /\ "skeleton" \notin Registering \union Installing
    BY DEF Place, Registering, Installing
  <2> QED
    BY <1>1, <2>1, <2>2, TypedStarts DEF Bootstrap
<1>2. ASSUME NEW p \in Process, WriteSkeleton(p) PROVE RegistryTyped'
  <2>1. "example" \in Place /\ "example" \notin Registering \union Installing
    BY DEF Place, Registering, Installing
  <2> QED
    BY <1>2, <2>1, TypedGoes DEF WriteSkeleton, RegistryTyped
<1>3. ASSUME NEW p \in Process, NEW body \in Body, WriteExample(p, body) PROVE RegistryTyped'
  <2>1. "starter" \in Place /\ "starter" \notin Registering \union Installing
    BY DEF Place, Registering, Installing
  <2> QED
    BY <1>3, <2>1, TypedGoes DEF WriteExample, RegistryTyped
<1>4. ASSUME NEW p \in Process, WriteStarter(p) PROVE RegistryTyped'
  BY <1>4, TypedEnds, StarterIsList DEF WriteStarter, RegistryTyped, Lists
<1>5. ASSUME NEW p \in Process, NEW n \in Name, NEW body \in Body, NEW force \in BOOLEAN, Add(p, n, body, force)
      PROVE  RegistryTyped'
  <2>1. [dir |-> Home[n], body |-> body, force |-> force]
          \in [dir : Dir \union {NoDir}, body : Body \union {NoYaml}, force : BOOLEAN] /\ Home[n] \in Dir
    BY PlacesAreNamed
  <2>2. "yaml" \in Place /\ "read" \in Place
    BY DEF Place
  <2> QED
    BY <1>5, <2>1, <2>2, TypedStarts DEF Add
<1>6. ASSUME NEW p \in Process, ReadList(p) PROVE RegistryTyped'
  <2>1. "scratch" \in Place /\ work[p].dir \in Dir
    BY <1>6 DEF Place, Registering, RegistryTyped, ReadList
  <2>2. raw' \in [Process -> Lists]
    BY <1>6 DEF ReadList, RegistryTyped
  <2> QED
    BY <1>6, <2>1, <2>2, TypedGoes DEF ReadList, RegistryTyped
<1>7. ASSUME NEW p \in Process, WriteScratch(p) PROVE RegistryTyped'
  <2>1. CASE raw[p] \in {NoFile, Torn}
    BY <1>7, <2>1, TypedEnds DEF WriteScratch, RegistryTyped
  <2>2. CASE raw[p] \notin {NoFile, Torn}
    <3>1. "replace" \in Place /\ work[p].dir \in Dir
      BY <1>7 DEF Place, Registering, RegistryTyped, WriteScratch
    <3>2. raw[p] \in Seq(Ref)
      BY <2>2 DEF RegistryTyped, Lists
    <3>3. scratch' \in Seq(Ref)
      <4>1. [name |-> NameOf[work[p].dir], dir |-> work[p].dir] \in Ref
        BY <3>1, StarterIsList
      <4>2. scratch' = Append(raw[p], [name |-> NameOf[work[p].dir], dir |-> work[p].dir])
        BY <1>7, <2>2 DEF WriteScratch
      <4> QED
        BY <3>2, <4>1, <4>2
    <3> QED
      BY <1>7, <2>2, <3>1, <3>3, TypedGoes DEF WriteScratch, RegistryTyped
  <2> QED
    BY <2>1, <2>2
<1>8. ASSUME NEW p \in Process, Replace(p) PROVE RegistryTyped'
  <2>1. CASE scratch = NoFile
    BY <1>8, <2>1, TypedEnds DEF Replace, RegistryTyped
  <2>2. CASE scratch # NoFile
    <3>1. "walk" \in Place /\ "yaml" \in Place /\ work[p].dir \in Dir
      BY <1>8 DEF Place, Registering, RegistryTyped, Replace
    <3>2. refs' \in Lists /\ scratch' = NoFile
      BY <1>8, <2>2 DEF Replace, RegistryTyped, Lists
    <3> QED
      BY <1>8, <2>2, <3>1, <3>2, TypedGoes DEF Replace, RegistryTyped
  <2> QED
    BY <2>1, <2>2
<1>9. ASSUME NEW p \in Process, WriteProject(p) PROVE RegistryTyped'
  BY <1>9, TypedEnds DEF WriteProject, RegistryTyped
<1>10. ASSUME NEW p \in Process, Discover(p) PROVE RegistryTyped'
  <2>1. "walk" \in Place /\ "walk" \notin Registering \union Installing
    BY DEF Place, Registering, Installing
  <2> QED
    BY <1>10, <2>1, TypedStarts, JobTypes DEF Discover
<1>11. ASSUME NEW p \in Process, Walk(p) PROVE RegistryTyped'
  <2>1. CASE Ends(p)
    BY <1>11, <2>1, TypedEnds DEF Walk, RegistryTyped
  <2>2. ASSUME ~Ends(p) PROVE RegistryTyped'
    <3>1. /\ Ahead(p) # {}
          /\ work' = [work EXCEPT ![p].dir = NextDir(p)]
          /\ pc' = pc \/ pc' = [pc EXCEPT ![p] = "walk"] \/ pc' = [pc EXCEPT ![p] = "read"]
          /\ pc[p] = "walk"
          /\ UNCHANGED <<refs, scratch, kernel, left, raw>>
      BY <1>11, <2>2 DEF Walk, Goes
    <3>2. NextDir(p) \in Dir
      BY <3>1, NextDirIsAhead
    <3>3. work' \in [Process -> [dir : Dir \union {NoDir}, body : Body \union {NoYaml}, force : BOOLEAN]]
          /\ work'[p].dir = NextDir(p) /\ \A q \in Process \ {p} : work'[q] = work[q]
      BY <3>1, <3>2 DEF RegistryTyped
    <3>4. pc' \in [Process -> Place] /\ \A q \in Process \ {p} : pc'[q] = pc[q]
      BY <3>1 DEF RegistryTyped, Place
    <3> QED
      BY <3>1, <3>2, <3>3, <3>4 DEF RegistryTyped
  <2> QED
    BY <2>1, <2>2
<1>12. ASSUME NEW p \in Process, NEW d \in Dir, NEW force \in BOOLEAN, InitKernel(p, d, force)
       PROVE  RegistryTyped'
  <2>1. [dir |-> d, body |-> NoYaml, force |-> force]
          \in [dir : Dir \union {NoDir}, body : Body \union {NoYaml}, force : BOOLEAN]
    OBVIOUS
  <2>2. "manifest" \in Place
    BY DEF Place
  <2> QED
    BY <1>12, <2>1, <2>2, TypedStarts DEF InitKernel
<1>13. ASSUME NEW p \in Process, KernelStep(p) PROVE RegistryTyped'
  <2>1. /\ pc[p] \in Installing /\ kernel' \in [Dir -> SUBSET Parts] /\ left' \in [Process -> SUBSET PackFile]
        /\ Ends(p) \/ \E place \in Installing : Goes(p, place) /\ UNCHANGED <<work, raw, known>>
        /\ UNCHANGED <<refs, scratch>>
    BY <1>13, KernelSteps
  <2>2. CASE Ends(p)
    BY <2>1, <2>2, TypedEnds DEF RegistryTyped
  <2>3. ASSUME NEW place \in Installing, Goes(p, place), UNCHANGED <<work, raw, known>> PROVE RegistryTyped'
    <3>1. place \in Place /\ work[p].dir \in Dir
      BY <2>1 DEF Installing, Place, RegistryTyped
    <3> QED
      BY <2>1, <2>3, <3>1, TypedGoes DEF RegistryTyped
  <2> QED
    BY <2>1, <2>2, <2>3
<1>16. ASSUME NEW p \in Process, Kill(p) PROVE RegistryTyped'
  <2>1. refs' \in Lists
    BY <1>16 DEF Kill, RegistryTyped, Lists
  <2> QED
    BY <1>16, <2>1, TypedEnds DEF Kill, RegistryTyped
<1>17. ASSUME NEW d \in Dir, NEW body \in Body, Appears(d, body) PROVE RegistryTyped'
  BY <1>17 DEF Appears, RegistryTyped
<1>18. CASE UNCHANGED registryVars
  BY <1>18 DEF registryVars, RegistryTyped
<1> QED
  BY <1>1, <1>2, <1>3, <1>4, <1>5, <1>6, <1>7, <1>8, <1>9, <1>10, <1>11, <1>12, <1>13, <1>16, <1>17, <1>18
     DEF RegistryNext, KernelStep

\* What holds of a kernel that no command was killed at and no two worked on at once:
\* it has one command at most, and what that one has listed of the pack is what is there.
KernelSound(d) ==
  /\ \A p, q \in Process : Making(p, d) /\ Making(q, d) => p = q
  /\ HasKernel(d) /\ ~Made(d) => kernel[d] = Parts
  /\ \A p \in Process : Making(p, d) =>
       /\ pc[p] # "manifest" => HasKernel(d)
       /\ pc[p] = "removing" => "directory" \in kernel[d] /\ left[p] = kernel[d] \intersect PackFile
       /\ pc[p] = "pack" => "directory" \notin kernel[d]
       /\ pc[p] = "copying" => "directory" \in kernel[d] /\ PackFile \ left[p] \subseteq kernel[d]
       /\ pc[p] # "spoiled"
       /\ pc[p] = "pointer" => {"directory"} \union PackFile \subseteq kernel[d]

KernelsInv == \A d \in Dir \ disturbed : KernelSound(d)

LEMMA KernelsBegin == RegistryInit => KernelsInv
BY DEF RegistryInit, KernelsInv, KernelSound, Making, HasKernel, Installing

\* A step that leaves a kernel alone, and every command that works on it where it is.
LEMMA KernelUntouched ==
  ASSUME NEW d \in Dir, KernelSound(d), kernel'[d] = kernel[d],
         \A p \in Process : Making(p, d) \/ Making(p, d)' => pc'[p] = pc[p] /\ work'[p] = work[p] /\ left'[p] = left[p]
  PROVE  KernelSound(d)'
<1>1. \A p \in Process : Making(p, d)' <=> Making(p, d)
  BY DEF Making
<1> QED
  BY <1>1 DEF KernelSound, HasKernel, Made

LEMMA KernelsGoOn == RegistryTyped /\ KernelsInv /\ [RegistryNext]_registryVars => KernelsInv'
<1> SUFFICES ASSUME RegistryTyped, KernelsInv, [RegistryNext]_registryVars PROVE KernelsInv'
  OBVIOUS
<1> USE DEF files, install, history
\* A step of a command that is no installation before or after it.
<1>1. ASSUME UNCHANGED <<kernel, left, disturbed>>, NEW p \in Process, pc[p] \notin Installing, pc'[p] \notin Installing,
             \A q \in Process \ {p} : pc'[q] = pc[q] /\ work'[q] = work[q]
      PROVE  KernelsInv'
  <2> SUFFICES ASSUME NEW d \in Dir \ disturbed PROVE KernelSound(d)'
    BY <1>1 DEF KernelsInv
  <2>1. \A q \in Process : Making(q, d) \/ Making(q, d)' => q # p
    BY <1>1 DEF Making
  <2> QED
    BY <1>1, <2>1, KernelUntouched DEF KernelsInv
<1>2. ASSUME NEW p \in Process, NEW place \in Place \ Installing, NEW what, Starts(p, place, what),
             UNCHANGED <<kernel, left, disturbed>>
      PROVE  KernelsInv'
  BY <1>1, <1>2 DEF Starts, Running, RegistryTyped, Installing
<1>3. ASSUME NEW p \in Process, NEW place \in Place \ Installing, Goes(p, place), pc[p] \notin Installing,
             UNCHANGED <<kernel, left, disturbed, work>>
      PROVE  KernelsInv'
  BY <1>1, <1>3 DEF Goes, RegistryTyped
<1>4. ASSUME NEW p \in Process, Ends(p), pc[p] \notin Installing, UNCHANGED <<kernel, left, disturbed>>
      PROVE  KernelsInv'
  BY <1>1, <1>4 DEF Ends, RegistryTyped, Installing
<1>5. ASSUME NEW p \in Process, NEW force \in BOOLEAN, Bootstrap(p, force) PROVE KernelsInv'
  BY <1>2, <1>5 DEF Bootstrap, Place, Installing
<1>6. ASSUME NEW p \in Process, NEW n \in Name, NEW body \in Body, NEW force \in BOOLEAN, Add(p, n, body, force)
      PROVE  KernelsInv'
  BY <1>2, <1>6 DEF Add, Place, Installing
<1>7. ASSUME NEW p \in Process, Discover(p) PROVE KernelsInv'
  BY <1>2, <1>7 DEF Discover, Place, Installing
<1>8. ASSUME NEW p \in Process, WriteSkeleton(p) \/ \E body \in Body : WriteExample(p, body) PROVE KernelsInv'
  BY <1>3, <1>8 DEF WriteSkeleton, WriteExample, Place, Installing
<1>9. ASSUME NEW p \in Process, WriteStarter(p) \/ WriteProject(p) PROVE KernelsInv'
  BY <1>4, <1>9 DEF WriteStarter, WriteProject, Installing
<1>10. ASSUME NEW p \in Process, ReadList(p) \/ WriteScratch(p) \/ Replace(p) PROVE KernelsInv'
  BY <1>3, <1>4, <1>10 DEF ReadList, WriteScratch, Replace, Place, Installing
<1>11. ASSUME NEW p \in Process, Walk(p) PROVE KernelsInv'
  <2>1. CASE Ends(p)
    BY <1>4, <1>11, <2>1 DEF Walk, Installing
  <2>2. ASSUME ~Ends(p) PROVE KernelsInv'
    <3>1. /\ work' = [work EXCEPT ![p].dir = NextDir(p)]
          /\ pc' = pc \/ pc' = [pc EXCEPT ![p] = "walk"] \/ pc' = [pc EXCEPT ![p] = "read"]
          /\ pc[p] = "walk"
          /\ UNCHANGED <<kernel, left, disturbed>>
      BY <1>11, <2>2 DEF Walk, Goes
    <3>2. pc'[p] \notin Installing /\ pc[p] \notin Installing /\ \A q \in Process \ {p} : pc'[q] = pc[q] /\ work'[q] = work[q]
      BY <3>1 DEF RegistryTyped, Installing
    <3> QED
      BY <1>1, <3>1, <3>2
  <2> QED
    BY <2>1, <2>2
\* A new installation: of a kernel nobody works on nothing is promised but that it is alone.
<1>12. ASSUME NEW p \in Process, NEW c \in Dir, NEW force \in BOOLEAN, InitKernel(p, c, force) PROVE KernelsInv'
  <2>1. /\ pc' = [pc EXCEPT ![p] = "manifest"] /\ work' = [work EXCEPT ![p] = [dir |-> c, body |-> NoYaml, force |-> force]]
        /\ pc[p] = "idle" /\ UNCHANGED <<kernel, left>>
        /\ disturbed' = IF Made(c) THEN disturbed \union {c} ELSE disturbed \ {c}
    BY <1>12 DEF InitKernel, Starts, Running
  <2>2. /\ pc'[p] = "manifest" /\ work'[p].dir = c
        /\ \A q \in Process \ {p} : pc'[q] = pc[q] /\ work'[q] = work[q]
    BY <2>1 DEF RegistryTyped
  <2> SUFFICES ASSUME NEW d \in Dir \ disturbed' PROVE KernelSound(d)'
    BY DEF KernelsInv
  <2>3. CASE d = c
    <3>1. \A q \in Process : Making(q, c)' <=> q = p
      <4>1. ~Made(c)
        BY <2>1, <2>3
      <4> QED
        BY <2>2, <4>1 DEF Making, Made, Installing
    <3> QED
      BY <2>2, <2>3, <3>1 DEF KernelSound, Made
  <2>4. CASE d # c
    <3>1. KernelSound(d)
      BY <2>1, <2>4 DEF KernelsInv
    <3>2. \A q \in Process : Making(q, d) \/ Making(q, d)' => q # p
      BY <2>1, <2>2, <2>4 DEF Making, Installing
    <3> QED
      BY <2>1, <2>2, <3>1, <3>2, KernelUntouched
  <2> QED
    BY <2>3, <2>4
\* A step of one leaves the other kernels alone.
<1>13. ASSUME NEW p \in Process, NEW c \in Dir, c = work[p].dir, NEW parts, NEW rest, NEW next,
              pc[p] \in Installing, Touches(p, parts, rest, next), KernelSound(c) => KernelSound(c)'
       PROVE  KernelsInv'
  <2>1. /\ \A d \in Dir \ {c} : kernel'[d] = kernel[d]
        /\ \A q \in Process \ {p} : pc'[q] = pc[q] /\ work'[q] = work[q] /\ left'[q] = left[q]
        /\ disturbed' = disturbed
        /\ pc'[p] = "idle" \/ work'[p] = work[p]
    BY <1>13 DEF Touches, Ends, Goes, RegistryTyped
  <2> SUFFICES ASSUME NEW d \in Dir \ disturbed, d # c PROVE KernelSound(d)'
    BY <1>13, <2>1 DEF KernelsInv
  <2>2. \A q \in Process : Making(q, d) \/ Making(q, d)' => q # p
    BY <1>13, <2>1 DEF Making, Installing
  <2> QED
    BY <2>1, <2>2, KernelUntouched DEF KernelsInv
<1>14. ASSUME NEW p \in Process, NEW d \in Dir, d = work[p].dir, NEW parts, NEW rest, NEW next,
              pc[p] \in Installing, KernelSound(d), Touches(p, parts, rest, next)
       PROVE  /\ Making(p, d) /\ kernel'[d] = parts /\ left'[p] = rest /\ pc'[p] = next
              /\ \A q \in Process : Making(q, d)' <=> q = p /\ next \in Installing
  <2>1. Making(p, d) /\ \A q \in Process : Making(q, d) => q = p
    BY <1>14 DEF Making, RegistryTyped, KernelSound
  <2>2. kernel'[d] = parts /\ left'[p] = rest /\ pc'[p] = next
    BY <1>14, <2>1 DEF Touches, Ends, Goes, RegistryTyped
  <2>3. \A q \in Process \ {p} : pc'[q] = pc[q] /\ work'[q] = work[q]
    BY <1>14 DEF Touches, Ends, Goes, RegistryTyped
  <2>4. next \in Installing => work'[p] = work[p]
    BY <1>14 DEF Touches, Installing
  <2> QED
    BY <1>14, <2>1, <2>2, <2>3, <2>4 DEF Making
<1>15. ASSUME NEW p \in Process, KernelStep(p) PROVE KernelsInv'
  <2>0. pc[p] \in Installing /\ work[p].dir \in Dir
    BY <1>15, KernelSteps DEF RegistryTyped
  <2> PICK d \in Dir : d = work[p].dir
    BY <2>0
  <2>1. pc[p] \in Installing /\ d = work[p].dir
    BY <2>0
  <2>2. kernel[d] \in SUBSET Parts /\ Kernel(p) = kernel[d] /\ left[p] \in SUBSET PackFile
    BY <2>1 DEF RegistryTyped, Kernel
  <2>3. CASE WriteManifest(p)
    <3>1. Touches(p, kernel[d] \union {"manifest"}, {}, "remove")
      BY <2>2, <2>3 DEF WriteManifest
    <3> QED
      BY <1>13, <1>14, <2>1, <3>1 DEF KernelSound, HasKernel, Made, Installing
  <2>4. CASE FindPack(p)
    <3>1. CASE "directory" \in kernel[d]
      <4>1. Touches(p, kernel[d], kernel[d] \intersect PackFile, "removing") /\ pc[p] = "remove"
        BY <2>2, <2>4, <3>1 DEF FindPack
      <4> QED
        BY <1>13, <1>14, <2>1, <3>1, <4>1 DEF KernelSound, HasKernel, Made, Installing
    <3>2. CASE "directory" \notin kernel[d]
      <4>1. Touches(p, kernel[d], {}, "pack") /\ pc[p] = "remove"
        BY <2>2, <2>4, <3>2 DEF FindPack
      <4> QED
        BY <1>13, <1>14, <2>1, <3>2, <4>1 DEF KernelSound, HasKernel, Made, Installing
    <3> QED
      BY <3>1, <3>2
  <2>5. CASE RemoveFile(p)
    <3> PICK f \in left[p] : IF f \in Kernel(p) THEN Touches(p, Kernel(p) \ {f}, left[p] \ {f}, "removing")
                                                ELSE Touches(p, Kernel(p), {}, "idle")
      BY <2>5 DEF RemoveFile
    <3>0. pc[p] = "removing" /\ f \notin {"manifest", "directory", "pointer"}
      BY <2>2, <2>5, FilesAreParts DEF RemoveFile
    <3>1. CASE f \in kernel[d]
      <4>1. Touches(p, kernel[d] \ {f}, left[p] \ {f}, "removing")
        BY <2>2, <3>1
      <4> QED
        BY <1>13, <1>14, <2>1, <3>0, <4>1 DEF KernelSound, HasKernel, Made, Installing
    <3>2. CASE f \notin kernel[d]
      <4>1. Touches(p, kernel[d], {}, "idle") /\ ~KernelSound(d)
        BY <2>1, <2>2, <3>0, <3>2 DEF KernelSound, Making
      <4> QED
        BY <1>13, <2>1, <4>1
    <3> QED
      BY <3>1, <3>2
  <2>6. CASE RemoveDirectory(p)
    <3>1. CASE "directory" \in kernel[d] /\ kernel[d] \intersect PackFile = {}
      <4>1. Touches(p, kernel[d] \ {"directory"}, {}, "pack") /\ pc[p] = "removing"
        BY <2>2, <2>6, <3>1 DEF RemoveDirectory
      <4> QED
        BY <1>13, <1>14, <2>1, <4>1 DEF KernelSound, HasKernel, Made, Installing
    <3>2. CASE ~("directory" \in kernel[d] /\ kernel[d] \intersect PackFile = {})
      <4>1. Touches(p, kernel[d], {}, "idle") /\ ~KernelSound(d)
        BY <2>1, <2>2, <2>6, <3>2 DEF RemoveDirectory, KernelSound, Making
      <4> QED
        BY <1>13, <2>1, <4>1
    <3> QED
      BY <3>1, <3>2
  <2>7. CASE MakeDirectory(p)
    <3>1. CASE "directory" \in kernel[d]
      <4>1. Touches(p, kernel[d], {}, "idle") /\ ~KernelSound(d)
        BY <2>1, <2>2, <2>7, <3>1 DEF MakeDirectory, KernelSound, Making
      <4> QED
        BY <1>13, <2>1, <4>1
    <3>2. CASE "directory" \notin kernel[d]
      <4>1. Touches(p, kernel[d] \union {"directory"}, PackFile, "copying") /\ pc[p] = "pack"
        BY <2>2, <2>7, <3>2 DEF MakeDirectory
      <4> QED
        BY <1>13, <1>14, <2>1, <4>1 DEF KernelSound, HasKernel, Made, Installing
    <3> QED
      BY <3>1, <3>2
  <2>8. CASE CopyFile(p)
    <3> PICK f \in left[p] : IF "directory" \in Kernel(p) THEN Touches(p, Kernel(p) \union {f}, left[p] \ {f}, pc[p])
                                                          ELSE Touches(p, Kernel(p), left[p] \ {f}, "spoiled")
      BY <2>8 DEF CopyFile
    <3>0. pc[p] \in {"copying", "spoiled"}
      BY <2>8 DEF CopyFile
    <3>1. CASE "directory" \in kernel[d] /\ pc[p] = "copying"
      <4>1. Touches(p, kernel[d] \union {f}, left[p] \ {f}, "copying")
        BY <2>2, <3>1
      <4>2. PackFile \ left[p] \subseteq kernel[d] => PackFile \ (left[p] \ {f}) \subseteq kernel[d] \union {f}
        OBVIOUS
      <4> QED
        BY <1>13, <1>14, <2>1, <3>1, <4>1, <4>2 DEF KernelSound, HasKernel, Made, Installing
    <3>2. CASE ~("directory" \in kernel[d] /\ pc[p] = "copying")
      <4>1. ~KernelSound(d)
        BY <2>1, <2>2, <3>0, <3>2 DEF KernelSound, Making
      <4>2. \E parts, rest, next : Touches(p, parts, rest, next)
        OBVIOUS
      <4> QED
        BY <1>13, <2>1, <4>1, <4>2
    <3> QED
      BY <3>1, <3>2
  <2>9. CASE EndCopy(p)
    <3>1. CASE pc[p] = "copying"
      <4>1. Touches(p, kernel[d], {}, "pointer") /\ left[p] = {}
        BY <2>2, <2>9, <3>1 DEF EndCopy
      <4> QED
        BY <1>13, <1>14, <2>1, <3>1, <4>1 DEF KernelSound, HasKernel, Made, Installing
    <3>2. CASE pc[p] # "copying"
      <4>1. Touches(p, kernel[d], {}, "idle") /\ ~KernelSound(d)
        BY <2>1, <2>2, <2>9, <3>2 DEF EndCopy, KernelSound, Making
      <4> QED
        BY <1>13, <2>1, <4>1
    <3> QED
      BY <3>1, <3>2
  <2>10. CASE WritePointer(p)
    <3>1. Touches(p, kernel[d] \union {"pointer"}, {}, "idle") /\ pc[p] = "pointer"
      BY <2>2, <2>10 DEF WritePointer
    <3>2. KernelSound(d) => kernel[d] \union {"pointer"} = Parts
      BY <2>1, <2>2, <3>1 DEF KernelSound, HasKernel, Making, Parts
    <3>3. ASSUME KernelSound(d) PROVE KernelSound(d)'
      <4>1. Touches(p, Parts, {}, "idle")
        BY <3>1, <3>2, <3>3
      <4>2. kernel'[d] = Parts
        BY <1>14, <2>1, <3>3, <4>1
      <4>3. \A q \in Process : ~Making(q, d)'
        BY <1>14, <2>1, <3>3, <4>1 DEF Installing
      <4> QED
        BY <4>2, <4>3 DEF KernelSound
    <3> QED
      BY <1>13, <2>1, <3>1, <3>3
  <2> QED
    BY <1>15, <2>3, <2>4, <2>5, <2>6, <2>7, <2>8, <2>9, <2>10 DEF KernelStep
<1>16. ASSUME NEW p \in Process, Kill(p) PROVE KernelsInv'
  <2>1. /\ UNCHANGED kernel /\ disturbed' = disturbed \union {d \in Dir : Making(p, d)}
        /\ pc'[p] = "idle"
        /\ \A q \in Process \ {p} : pc'[q] = pc[q] /\ work'[q] = work[q] /\ left'[q] = left[q]
    BY <1>16 DEF Kill, Ends, RegistryTyped
  <2> SUFFICES ASSUME NEW d \in Dir \ disturbed' PROVE KernelSound(d)'
    BY DEF KernelsInv
  <2>2. KernelSound(d) /\ \A q \in Process : Making(q, d) \/ Making(q, d)' => q # p
    BY <2>1 DEF KernelsInv, Making, Installing
  <2> QED
    BY <2>1, <2>2, KernelUntouched
<1>17. ASSUME \/ \E d \in Dir, body \in Body : Appears(d, body)
              \/ UNCHANGED registryVars
       PROVE  KernelsInv'
  <2>1. UNCHANGED <<kernel, left, disturbed, pc, work>>
    BY <1>17 DEF Appears, registryVars
  <2> QED
    BY <2>1, KernelUntouched DEF KernelsInv
<1> QED
  BY <1>5, <1>6, <1>7, <1>8, <1>9, <1>10, <1>11, <1>12, <1>15, <1>16, <1>17 DEF RegistryNext, KernelStep

\* A kernel that counts as there is whole when nobody works on it, whatever commands run
\* and whichever of them are killed, unless one was killed at this kernel or two worked on
\* it at once; and an installation that is then alone and ends makes it whole again.
THEOREM KernelsAreWhole == RegistrySpec => []KernelIsWhole
<1>1. KernelsInv => KernelIsWhole
  BY DEF KernelsInv, KernelSound, KernelIsWhole
<1> QED
  BY RegistryTypesBegin, RegistryTypesGoOn, KernelsBegin, KernelsGoOn, <1>1, PTL DEF RegistrySpec

\* What a command that runs alone has read and written of the list is still so.
AloneListInv ==
  ~overlapped =>
    /\ \A p, q \in Process : Running(p) /\ Running(q) => p = q
    /\ \A p \in Process : pc[p] = "scratch" => raw[p] = refs
    /\ \A p \in Process : pc[p] = "replace" => scratch \in Seq(Ref) /\ Listed \subseteq ToSet(scratch)

LEMMA AloneListBegins == RegistryInit => AloneListInv
BY DEF RegistryInit, AloneListInv, Running

LEMMA AppendKeeps ==
  ASSUME NEW list \in Seq(Ref), NEW r \in Ref
  PROVE  Append(list, r) \in Seq(Ref) /\ ToSet(list) \subseteq ToSet(Append(list, r))
<1>1. Append(list, r) \in Seq(Ref)
  OBVIOUS
<1>2. \A i \in DOMAIN list : i \in DOMAIN Append(list, r) /\ Append(list, r)[i] = list[i]
  OBVIOUS
<1> QED
  BY <1>1, <1>2 DEF ToSet

LEMMA AloneListGoesOn == RegistryTyped /\ AloneListInv /\ [RegistryNext]_registryVars => AloneListInv'
<1> SUFFICES ASSUME RegistryTyped, AloneListInv, [RegistryNext]_registryVars, ~overlapped' PROVE AloneListInv'
  BY DEF AloneListInv
<1> USE DEF files, install, history
\* Nobody is in the middle of a registration.
<1> DEFINE Clear == \A p \in Process : pc'[p] \notin {"scratch", "replace"}
           Single == \A p, q \in Process : Running(p)' /\ Running(q)' => p = q
<1>1. Clear /\ Single => AloneListInv'
  BY DEF AloneListInv
<1>2. ASSUME NEW p \in Process, NEW place \in Place \ {"scratch", "replace"}, NEW what, Starts(p, place, what)
      PROVE  Clear /\ Single
  <2>1. \A q \in Process : pc[q] = "idle"
    BY <1>2 DEF Starts, Running
  <2> QED
    BY <1>2, <2>1 DEF Starts, Running, RegistryTyped
<1>3. ASSUME NEW p \in Process, Running(p), UNCHANGED overlapped
      PROVE  /\ \A q \in Process \ {p} : pc[q] = "idle"
             /\ \A q, r \in Process : Running(q) /\ Running(r) => q = r
  BY <1>3 DEF AloneListInv, Running
<1>4. ASSUME NEW p \in Process, Running(p), UNCHANGED overlapped, Ends(p) PROVE Clear /\ Single
  BY <1>3, <1>4 DEF Ends, Running, RegistryTyped
<1>5. ASSUME NEW p \in Process, Running(p), UNCHANGED overlapped,
             NEW place \in Place \ {"scratch", "replace"}, Goes(p, place)
      PROVE  Clear /\ Single
  BY <1>3, <1>5 DEF Goes, Running, RegistryTyped
<1> HIDE DEF Clear, Single
<1>6. ASSUME NEW p \in Process, NEW force \in BOOLEAN, Bootstrap(p, force) PROVE AloneListInv'
  BY <1>1, <1>2, <1>6 DEF Bootstrap, Place
<1>7. ASSUME NEW p \in Process, NEW n \in Name, NEW body \in Body, NEW force \in BOOLEAN, Add(p, n, body, force)
      PROVE  AloneListInv'
  BY <1>1, <1>2, <1>7 DEF Add, Place
<1>8. ASSUME NEW p \in Process, Discover(p) PROVE AloneListInv'
  BY <1>1, <1>2, <1>8 DEF Discover, Place
<1>9. ASSUME NEW p \in Process, NEW d \in Dir, NEW force \in BOOLEAN, InitKernel(p, d, force) PROVE AloneListInv'
  BY <1>1, <1>2, <1>9 DEF InitKernel, Place
<1>10. ASSUME NEW p \in Process, WriteSkeleton(p) \/ \E body \in Body : WriteExample(p, body) PROVE AloneListInv'
  BY <1>1, <1>5, <1>10 DEF WriteSkeleton, WriteExample, Place, Running
<1>11. ASSUME NEW p \in Process, WriteStarter(p) \/ WriteProject(p) PROVE AloneListInv'
  BY <1>1, <1>4, <1>11 DEF WriteStarter, WriteProject, Running
<1>12. ASSUME NEW p \in Process, ReadList(p) PROVE AloneListInv'
  <2>1. /\ pc' = [pc EXCEPT ![p] = "scratch"] /\ raw' = [raw EXCEPT ![p] = refs] /\ UNCHANGED <<refs, overlapped>>
        /\ Running(p)
    BY <1>12 DEF ReadList, Goes, Running
  <2>2. \A q \in Process \ {p} : pc'[q] = "idle"
    BY <1>3, <2>1 DEF RegistryTyped
  <2>3. pc'[p] = "scratch" /\ raw'[p] = refs'
    BY <2>1 DEF RegistryTyped
  <2> QED
    BY <2>2, <2>3 DEF AloneListInv, Running
<1>13. ASSUME NEW p \in Process, WriteScratch(p) PROVE AloneListInv'
  <2>1. CASE raw[p] \in {NoFile, Torn}
    BY <1>1, <1>4, <1>13, <2>1 DEF WriteScratch, Running
  <2>2. CASE raw[p] \notin {NoFile, Torn}
    <3>1. /\ scratch' = Append(raw[p], [name |-> NameOf[work[p].dir], dir |-> work[p].dir])
          /\ pc' = [pc EXCEPT ![p] = "replace"] /\ UNCHANGED <<refs, overlapped>>
          /\ Running(p) /\ pc[p] = "scratch"
      BY <1>13, <2>2 DEF WriteScratch, Goes, Running
    <3>2. work[p].dir \in Dir /\ raw[p] = refs /\ raw[p] \in Seq(Ref)
      BY <2>2, <3>1 DEF RegistryTyped, AloneListInv, Registering, Lists
    <3>3. scratch' \in Seq(Ref) /\ ToSet(refs) \subseteq ToSet(scratch')
      BY <3>1, <3>2, AppendKeeps, StarterIsList
    <3>4. Listed' \subseteq ToSet(scratch')
      BY <3>1, <3>3 DEF Listed
    <3>5. \A q \in Process \ {p} : pc'[q] = "idle"
      BY <1>3, <3>1 DEF RegistryTyped
    <3>6. pc'[p] = "replace"
      BY <3>1 DEF RegistryTyped
    <3> QED
      BY <3>3, <3>4, <3>5, <3>6 DEF AloneListInv, Running
  <2> QED
    BY <2>1, <2>2
<1>14. ASSUME NEW p \in Process, Replace(p) PROVE AloneListInv'
  BY <1>1, <1>4, <1>5, <1>14 DEF Replace, Place, Running
<1>15. ASSUME NEW p \in Process, Walk(p) PROVE AloneListInv'
  <2>1. CASE Ends(p)
    BY <1>1, <1>4, <1>15, <2>1 DEF Walk, Running
  <2>2. ASSUME ~Ends(p) PROVE AloneListInv'
    <3>1. /\ pc' = pc \/ pc' = [pc EXCEPT ![p] = "walk"] \/ pc' = [pc EXCEPT ![p] = "read"]
          /\ pc[p] = "walk"
          /\ UNCHANGED overlapped
      BY <1>15, <2>2 DEF Walk, Goes
    <3>2. Running(p) /\ \A q \in Process \ {p} : pc[q] = "idle"
      BY <1>3, <3>1 DEF Running
    <3>3. Clear /\ Single
      BY <3>1, <3>2 DEF Clear, Single, Running, RegistryTyped
    <3> QED
      BY <1>1, <3>3
  <2> QED
    BY <2>1, <2>2
<1>16. ASSUME NEW p \in Process, KernelStep(p) PROVE AloneListInv'
  <2>1. Running(p) /\ UNCHANGED overlapped
    BY <1>16, KernelSteps
  <2>2. Ends(p) \/ \E place \in Place \ {"scratch", "replace"} : Goes(p, place)
    BY <1>16, KernelSteps DEF Installing, Place
  <2> QED
    BY <1>1, <1>4, <1>5, <2>1, <2>2
<1>17. ASSUME NEW p \in Process, Kill(p) PROVE AloneListInv'
  BY <1>1, <1>4, <1>17 DEF Kill
<1>18. ASSUME NEW d \in Dir, NEW body \in Body, Appears(d, body) PROVE AloneListInv'
  BY <1>18 DEF Appears, AloneListInv, Running, Listed
<1>19. CASE UNCHANGED registryVars
  BY <1>19 DEF registryVars, AloneListInv, Running, Listed
<1> QED
  BY <1>6, <1>7, <1>8, <1>9, <1>10, <1>11, <1>12, <1>13, <1>14, <1>15, <1>16, <1>17, <1>18, <1>19
     DEF RegistryNext, KernelStep

\* No registration is lost unless two commands overlap or the starter list is forced.
THEOREM RegistrationsStay == RegistrySpec => RegistrationsKept
<1>1. RegistryTyped /\ AloneListInv /\ [RegistryNext]_registryVars
        => [overlapped \/ Forcing \/ Listed \subseteq Listed']_registryVars
  <2> SUFFICES ASSUME RegistryTyped, AloneListInv, RegistryNext, ~overlapped, ~Forcing, refs' # refs
               PROVE  Listed \subseteq Listed'
    BY DEF registryVars, Listed
  <2> USE DEF files, install, history
  <2>1. \/ \E p \in Process : WriteStarter(p) \/ Replace(p) \/ Kill(p)
    <3>1. \A p \in Process, force \in BOOLEAN : ~Bootstrap(p, force)
      BY DEF Bootstrap
    <3>2. \A p \in Process : ~WriteSkeleton(p) /\ \A body \in Body : ~WriteExample(p, body)
      BY DEF WriteSkeleton, WriteExample
    <3>3. \A p \in Process, n \in Name, body \in Body, force \in BOOLEAN : ~Add(p, n, body, force)
      BY DEF Add
    <3>4. \A p \in Process : ~ReadList(p) /\ ~WriteScratch(p) /\ ~WriteProject(p)
      BY DEF ReadList, WriteScratch, WriteProject
    <3>5. \A p \in Process : ~Discover(p) /\ ~Walk(p)
      BY DEF Discover, Walk
    <3>6. \A p \in Process, d \in Dir, force \in BOOLEAN : ~InitKernel(p, d, force)
      BY DEF InitKernel
    <3>7. \A p \in Process : ~KernelStep(p)
      BY KernelSteps
    <3>8. \A d \in Dir, body \in Body : ~Appears(d, body)
      BY DEF Appears
    <3> QED
      BY <3>1, <3>2, <3>3, <3>4, <3>5, <3>6, <3>7, <3>8 DEF RegistryNext, KernelStep
  <2>2. ASSUME NEW p \in Process, WriteStarter(p) PROVE Listed \subseteq Listed'
    BY <2>2 DEF WriteStarter, Keeps, Forcing, Listed
  <2>3. ASSUME NEW p \in Process, Kill(p) PROVE Listed \subseteq Listed'
    BY <2>3 DEF Kill, Keeps, Forcing, Listed
  <2>4. ASSUME NEW p \in Process, Replace(p) PROVE Listed \subseteq Listed'
    <3>1. refs' = scratch /\ scratch \in Seq(Ref) /\ Listed \subseteq ToSet(scratch)
      BY <2>4 DEF Replace, AloneListInv
    <3>2. refs' \notin {NoFile, Torn}
      BY <3>1, MarksAreNoLists DEF Ref
    <3> QED
      BY <3>1, <3>2 DEF Listed
  <2> QED
    BY <2>1, <2>2, <2>3, <2>4
<1> QED
  BY RegistryTypesBegin, RegistryTypesGoOn, AloneListBegins, AloneListGoesOn, <1>1, PTL
     DEF RegistrySpec, RegistrationsKept

\* The rest of the types.
RestTyped ==
  /\ yaml \in [Dir -> Body \union {NoYaml}]
  /\ known \in [Process -> [dirs : SUBSET Dir, ids : SUBSET Id, repos : SUBSET Repo]]

LEMMA RestBegins == RegistryInit => RestTyped
BY DEF RegistryInit, RestTyped, Nobody

LEMMA DeclaredTypes ==
  ASSUME RestTyped, NEW d \in Dir, yaml[d] # NoYaml
  PROVE  yaml[d] \in Body /\ yaml[d].id \in Id /\ Repos({yaml[d]}) \in SUBSET Repo
BY BodiesDeclare DEF RestTyped, Repos

LEMMA ListedRefs ==
  ASSUME RegistryTyped
  PROVE  /\ Listed \in SUBSET Ref
         /\ \A r \in Listed : r.dir \in Dir /\ r.name \in Name /\ r = [name |-> r.name, dir |-> r.dir]
<1>1. Listed \in SUBSET Ref
  BY DEF RegistryTyped, Lists, Listed, ToSet
<1> QED
  BY <1>1 DEF Ref

LEMMA RestGoesOn == RegistryTyped /\ RestTyped /\ [RegistryNext]_registryVars => RestTyped'
<1> SUFFICES ASSUME RegistryTyped, RestTyped, [RegistryNext]_registryVars PROVE RestTyped'
  OBVIOUS
<1> USE DEF files, install, history
<1>0. Nobody \in [dirs : SUBSET Dir, ids : SUBSET Id, repos : SUBSET Repo]
  BY DEF Nobody
<1>1. ASSUME NEW p \in Process, Ends(p) PROVE known' \in [Process -> [dirs : SUBSET Dir, ids : SUBSET Id, repos : SUBSET Repo]]
  BY <1>0, <1>1 DEF Ends, RestTyped
<1>2. ASSUME NEW p \in Process, NEW force \in BOOLEAN, Bootstrap(p, force) PROVE RestTyped'
  BY <1>2 DEF Bootstrap, RestTyped
<1>3. ASSUME NEW p \in Process, WriteSkeleton(p) \/ ReadList(p) PROVE RestTyped'
  BY <1>3 DEF WriteSkeleton, ReadList, RestTyped
<1>4. ASSUME NEW p \in Process, NEW body \in Body, WriteExample(p, body) PROVE RestTyped'
  <2>1. Home[Example] \in Dir
    BY PlacesAreNamed, ExampleIsName
  <2> QED
    BY <1>4, <2>1 DEF WriteExample, RestTyped
<1>5. ASSUME NEW p \in Process, NEW n \in Name, NEW body \in Body, NEW force \in BOOLEAN, Add(p, n, body, force)
      PROVE  RestTyped'
  BY <1>5 DEF Add, RestTyped
<1>6. ASSUME NEW p \in Process, WriteStarter(p) \/ WriteScratch(p) \/ Replace(p) PROVE RestTyped'
  BY <1>1, <1>6 DEF WriteStarter, WriteScratch, Replace, RestTyped
<1>7. ASSUME NEW p \in Process, WriteProject(p) PROVE RestTyped'
  <2>1. work[p].dir \in Dir /\ work[p].body \in Body \union {NoYaml}
    BY <1>7 DEF RegistryTyped, Registering, WriteProject
  <2>2. yaml' \in [Dir -> Body \union {NoYaml}]
    BY <1>7, <2>1 DEF WriteProject, RestTyped
  <2> QED
    BY <1>1, <1>7, <2>2 DEF WriteProject, RestTyped
<1>8. ASSUME NEW p \in Process, Discover(p) PROVE RestTyped'
  <2>1. Claimed \in SUBSET Body
    BY ListedRefs DEF Claimed, RestTyped
  <2>2. {b.id : b \in Claimed} \in SUBSET Id /\ Repos(Claimed) \in SUBSET Repo /\ {r.dir : r \in Listed} \in SUBSET Dir
    BY <2>1, ListedRefs, BodiesDeclare DEF Repos
  <2> QED
    BY <1>8, <2>2 DEF Discover, RestTyped
<1>9. ASSUME NEW p \in Process, Walk(p) PROVE RestTyped'
  <2>1. CASE Ends(p)
    BY <1>1, <1>9, <2>1 DEF Walk, RestTyped
  <2>2. ASSUME ~Ends(p) PROVE RestTyped'
    <3> DEFINE d == NextDir(p)
    <3>1. /\ Ahead(p) # {}
          /\ UNCHANGED yaml
          /\ known' = known \/
             known' = [known EXCEPT ![p] = [dirs |-> @.dirs \union {d}, ids |-> @.ids \union {yaml[d].id},
                                            repos |-> @.repos \union Repos({yaml[d]})]]
      BY <1>9, <2>2 DEF Walk
    <3>2. d \in Dir /\ yaml[d] # NoYaml
      BY <3>1, NextDirIsAhead
    <3>3. yaml[d].id \in Id /\ Repos({yaml[d]}) \in SUBSET Repo
      BY <3>2, DeclaredTypes
    <3> DEFINE knows == [dirs |-> known[p].dirs \union {d}, ids |-> known[p].ids \union {yaml[d].id},
                         repos |-> known[p].repos \union Repos({yaml[d]})]
    <3>4. known' = known \/ known' = [known EXCEPT ![p] = knows]
      BY <3>1
    <3>5. known[p].dirs \in SUBSET Dir /\ known[p].ids \in SUBSET Id /\ known[p].repos \in SUBSET Repo
      BY DEF RestTyped
    <3>6. knows \in [dirs : SUBSET Dir, ids : SUBSET Id, repos : SUBSET Repo]
      BY <3>2, <3>3, <3>5
    <3> HIDE DEF d, knows
    <3> QED
      BY <3>1, <3>4, <3>6 DEF RestTyped
  <2> QED
    BY <2>1, <2>2
<1>10. ASSUME NEW p \in Process, NEW d \in Dir, NEW force \in BOOLEAN, InitKernel(p, d, force)
       PROVE  RestTyped'
  BY <1>10 DEF InitKernel, RestTyped
<1>11. ASSUME NEW p \in Process, KernelStep(p) PROVE RestTyped'
  BY <1>1, <1>11, KernelSteps DEF RestTyped
<1>12. ASSUME NEW p \in Process, Kill(p) PROVE RestTyped'
  BY <1>1, <1>12 DEF Kill, RestTyped
<1>13. ASSUME NEW d \in Dir, NEW body \in Body, Appears(d, body) PROVE RestTyped'
  BY <1>13 DEF Appears, RestTyped
<1>14. CASE UNCHANGED registryVars
  BY <1>14 DEF registryVars, RestTyped
<1> QED
  BY <1>2, <1>3, <1>4, <1>5, <1>6, <1>7, <1>8, <1>9, <1>10, <1>11, <1>12, <1>13, <1>14
     DEF RegistryNext, KernelStep

\* What holds as long as commands run one at a time to their end and no id is declared
\* twice by hand.  The list is a list, each name in it once and for its own place; a
\* listed place has its project.yaml, with an id of its own, unless the command that adds
\* it is about to write it.
Pending(d) == \E p \in Process : pc[p] = "yaml" /\ work[p].dir = d
SameIds(q, r) == yaml[q.dir] # NoYaml /\ yaml[r.dir] # NoYaml /\ yaml[q.dir].id = yaml[r.dir].id

ListSound ==
  /\ refs # Torn
  /\ refs # NoFile => NamesUnique(refs)
  /\ \A r \in Listed : r.name = NameOf[r.dir]
  /\ \A r \in Listed : yaml[r.dir] # NoYaml \/ Pending(r.dir)
  /\ \A q, r \in Listed : SameIds(q, r) => q = r \/ Pending(q.dir) \/ Pending(r.dir)

\* What a command has read and will write is what the list needs: a place it registers is
\* not listed under its name, and a discovery knows the id of every listed place and
\* registers a place whose id is none of them.
ListStages == {"read", "scratch", "replace"}
Finds(p) == pc[p] \in ListStages /\ work[p].body = NoYaml
RefOf(p) == [name |-> NameOf[work[p].dir], dir |-> work[p].dir]

JobSound(p) ==
  /\ pc[p] = "starter" => yaml[Home[Example]] # NoYaml
  /\ pc[p] = "yaml" => work[p].body # NoYaml
  /\ pc[p] \in ListStages => ~Known(work[p].dir)
  /\ pc[p] = "replace" => refs \in Seq(Ref) /\ scratch = Append(refs, RefOf(p))
  /\ pc[p] = "walk" \/ Finds(p) =>
       \A r \in Listed : r.dir \in known[p].dirs /\ (yaml[r.dir] # NoYaml => yaml[r.dir].id \in known[p].ids)
  /\ Finds(p) =>
       /\ yaml[work[p].dir] # NoYaml
       /\ work[p].dir \in known[p].dirs /\ yaml[work[p].dir].id \in known[p].ids
       /\ \A r \in Listed : yaml[r.dir] # NoYaml => yaml[r.dir].id # yaml[work[p].dir].id
  /\ pc[p] = "walk" => work[p].body = NoYaml

Clean == ~overlapped /\ ~killed /\ ~clashed
SoundInv == Clean => ListSound /\ \A p \in Process : JobSound(p)

LEMMA SoundBegins == RegistryInit => SoundInv
<1> SUFFICES ASSUME RegistryInit PROVE ListSound /\ \A p \in Process : JobSound(p)
  BY DEF SoundInv
<1>1. refs = NoFile /\ Listed = {} /\ \A p \in Process : pc[p] = "idle"
  BY DEF RegistryInit, Listed
<1>2. NoFile # Torn
  BY MarksAreNoLists
<1> QED
  BY <1>1, <1>2 DEF ListSound, JobSound, ListStages, Finds

LEMMA Marks == NoFile # Torn /\ NoFile \notin Seq(Ref) /\ Torn \notin Seq(Ref)
BY MarksAreNoLists DEF Ref

\* A step that leaves the list and the projects alone, and who is about to write one.
LEMMA ListKept ==
  ASSUME ListSound, UNCHANGED <<refs, yaml>>, \A d : Pending(d) => Pending(d)'
  PROVE  ListSound'
<1>1. Listed' = Listed /\ \A q, r : SameIds(q, r)' = SameIds(q, r)
  BY DEF Listed, SameIds
<1>2. \A list : NamesUnique(list)' = NamesUnique(list)
  BY DEF NamesUnique
<1> QED
  BY <1>1, <1>2 DEF ListSound, NamesUnique

LEMMA AppendNames ==
  ASSUME NEW list \in Seq(Ref), NamesUnique(list), NEW e \in Ref,
         \A r \in ToSet(list) : r.name # e.name
  PROVE  NamesUnique(Append(list, e)) /\ ToSet(Append(list, e)) = ToSet(list) \union {e}
<1> DEFINE n == Len(list)
           more == Append(list, e)
<1>1. n \in Nat /\ DOMAIN list = 1 .. n /\ DOMAIN more = 1 .. (n + 1)
  OBVIOUS
<1>2. /\ \A i \in 1 .. n : more[i] = list[i] /\ list[i] \in ToSet(list)
      /\ more[n + 1] = e
  BY DEF ToSet
<1>3. ToSet(more) = {more[i] : i \in 1 .. (n + 1)} /\ ToSet(list) = {list[i] : i \in 1 .. n}
  BY <1>1 DEF ToSet
<1> HIDE DEF n, more
<1>4. 1 .. (n + 1) = (1 .. n) \union {n + 1}
  BY <1>1
<1>5. ToSet(more) = ToSet(list) \union {e}
  BY <1>2, <1>3, <1>4
<1>6. \A i, j \in 1 .. (n + 1) : more[i].name = more[j].name => i = j
  <2> SUFFICES ASSUME NEW i \in 1 .. (n + 1), NEW j \in 1 .. (n + 1), more[i].name = more[j].name PROVE i = j
    OBVIOUS
  <2>1. CASE i \in 1 .. n /\ j \in 1 .. n
    BY <1>1, <1>2, <2>1 DEF NamesUnique
  <2>2. CASE i = n + 1 /\ j \in 1 .. n
    BY <1>2, <2>2
  <2>3. CASE j = n + 1 /\ i \in 1 .. n
    BY <1>2, <2>3
  <2> QED
    BY <1>4, <2>1, <2>2, <2>3
<1>7. NamesUnique(more)
  BY <1>1, <1>6 DEF NamesUnique
<1> QED
  BY <1>5, <1>7 DEF more

\* A place is listed once.
LEMMA ListedOnce ==
  ASSUME RegistryTyped, ListSound
  PROVE  \A q, r \in Listed : q.dir = r.dir => q = r
BY ListedRefs DEF ListSound

LEMMA HistoryStays ==
  ASSUME RegistryTyped, [RegistryNext]_registryVars, Clean'
  PROVE  Clean
<1> USE DEF files, install, history
<1> SUFFICES /\ overlapped' \/ ~overlapped
             /\ killed' \/ ~killed
             /\ clashed' \/ ~clashed
  BY DEF Clean
<1>1. ASSUME NEW p \in Process PROVE /\ \A force \in BOOLEAN : Bootstrap(p, force) => UNCHANGED <<killed, clashed>> /\ (overlapped' \/ ~overlapped)
                                     /\ Discover(p) => UNCHANGED <<killed, clashed>> /\ (overlapped' \/ ~overlapped)
  BY DEF Bootstrap, Discover, Starts
<1>2. ASSUME NEW p \in Process, NEW n \in Name, NEW body \in Body, NEW force \in BOOLEAN, Add(p, n, body, force)
      PROVE  UNCHANGED <<killed, clashed>> /\ (overlapped' \/ ~overlapped)
  BY <1>2 DEF Add, Starts
<1>3. ASSUME NEW p \in Process, NEW d \in Dir, NEW force \in BOOLEAN, InitKernel(p, d, force)
      PROVE  UNCHANGED <<killed, clashed>> /\ (overlapped' \/ ~overlapped)
  BY <1>3 DEF InitKernel, Starts
<1>4. ASSUME NEW p \in Process, WriteSkeleton(p) \/ WriteStarter(p) \/ ReadList(p) \/ WriteScratch(p) \/ Replace(p) \/ Walk(p)
      PROVE  UNCHANGED <<overlapped, killed, clashed>>
  BY <1>4 DEF WriteSkeleton, WriteStarter, ReadList, WriteScratch, Replace, Walk
<1>5. ASSUME NEW p \in Process, WriteProject(p) \/ \E body \in Body : WriteExample(p, body)
      PROVE  UNCHANGED <<overlapped, killed>> /\ (clashed' \/ ~clashed)
  BY <1>5 DEF WriteProject, WriteExample
<1>6. ASSUME NEW p \in Process, KernelStep(p) PROVE UNCHANGED <<overlapped, killed, clashed>>
  BY <1>6, KernelSteps
<1>7. ASSUME NEW p \in Process, Kill(p) PROVE UNCHANGED <<overlapped, clashed>> /\ (killed' \/ ~killed)
  BY <1>7 DEF Kill
<1>8. ASSUME NEW d \in Dir, NEW body \in Body, Appears(d, body)
      PROVE  UNCHANGED <<overlapped, killed>> /\ (clashed' \/ ~clashed)
  BY <1>8 DEF Appears
<1>9. CASE UNCHANGED registryVars
  BY <1>9 DEF registryVars
<1> QED
  BY <1>1, <1>2, <1>3, <1>4, <1>5, <1>6, <1>7, <1>8, <1>9 DEF RegistryNext, KernelStep

\* The last step of a command: nobody runs.
LEMMA SoundEnds ==
  ASSUME RegistryTyped, ListSound, NEW p \in Process, \A q \in Process \ {p} : pc[q] = "idle",
         pc[p] # "yaml", Ends(p), UNCHANGED <<refs, yaml>>
  PROVE  ListSound' /\ \A q \in Process : JobSound(q)'
<1>1. \A q \in Process : pc'[q] = "idle"
  BY DEF Ends, RegistryTyped
<1>2. \A d : ~Pending(d)
  BY DEF Pending
<1>3. ListSound'
  BY <1>2, ListKept
<1>4. \A q \in Process : JobSound(q)'
  BY <1>1 DEF JobSound, ListStages, Finds
<1> QED
  BY <1>3, <1>4

\* Any other step of a command that leaves the list and the projects alone.
LEMMA SoundGoes ==
  ASSUME RegistryTyped, ListSound, NEW p \in Process, NEW place,
         \A q \in Process \ {p} : pc[q] = "idle" /\ pc'[q] = "idle",
         pc[p] # "yaml", UNCHANGED <<refs, yaml>>, JobSound(p)'
  PROVE  ListSound' /\ \A q \in Process : JobSound(q)'
<1>2. \A d : ~Pending(d)
  BY DEF Pending
<1>3. ListSound'
  BY <1>2, ListKept
<1>4. \A q \in Process \ {p} : JobSound(q)'
  BY DEF JobSound, ListStages, Finds
<1> QED
  BY <1>3, <1>4

\* What is alone is at most about to write one project.
LEMMA SoundFiles ==
  ASSUME NEW p \in Process, \A q \in Process \ {p} : pc[q] = "idle"
  PROVE  \A d : Pending(d) <=> pc[p] = "yaml" /\ work[p].dir = d
BY DEF Pending

LEMMA ReplaceSound ==
  ASSUME RegistryTyped, RestTyped, ListSound, NEW p \in Process, JobSound(p), Replace(p),
         \A q \in Process \ {p} : pc[q] = "idle" /\ pc'[q] = "idle"
  PROVE  ListSound' /\ \A q \in Process : JobSound(q)'
<1> USE DEF ListStages
<1> DEFINE d == work[p].dir
<1>1. pc[p] = "replace" /\ d \in Dir /\ RefOf(p) \in Ref /\ refs \in Seq(Ref) /\ scratch = Append(refs, RefOf(p))
  BY StarterIsList DEF Replace, JobSound, RegistryTyped, Registering, RefOf
<1>2. scratch \in Seq(Ref) /\ scratch # NoFile /\ refs \notin {NoFile, Torn}
  BY <1>1, Marks
<1>3. /\ refs' = scratch /\ UNCHANGED <<yaml, known, work>>
      /\ pc' = [pc EXCEPT ![p] = IF work[p].body = NoYaml THEN "walk" ELSE "yaml"]
  BY <1>2 DEF Replace, Goes
<1>4. Listed = ToSet(refs) /\ NamesUnique(refs)
  BY <1>2 DEF Listed, ListSound
<1>5. \A r \in Listed : r.name # NameOf[d]
  BY <1>1 DEF JobSound, Known
<1>6. NamesUnique(scratch) /\ ToSet(scratch) = Listed \union {RefOf(p)}
  BY <1>1, <1>4, <1>5, AppendNames DEF RefOf
<1>7. refs' \notin {NoFile, Torn} /\ Listed' = Listed \union {RefOf(p)} /\ NamesUnique(refs)'
  BY <1>2, <1>3, <1>6, Marks DEF Listed, NamesUnique
<1>8. RefOf(p).dir = d /\ RefOf(p).name = NameOf[d]
  BY DEF RefOf
<1>9. \A e : ~Pending(e)
  BY <1>1 DEF Pending
<1>10. \A q \in Process \ {p} : JobSound(q)'
  BY DEF JobSound, Finds
<1>11. CASE work[p].body = NoYaml
  <2>1. Finds(p) /\ pc'[p] = "walk" /\ work'[p].body = NoYaml
    BY <1>1, <1>3, <1>11 DEF Finds, RegistryTyped
  <2>2. /\ yaml[d] # NoYaml /\ d \in known[p].dirs /\ yaml[d].id \in known[p].ids
        /\ \A r \in Listed : yaml[r.dir] # NoYaml => yaml[r.dir].id # yaml[d].id
        /\ \A r \in Listed : r.dir \in known[p].dirs /\ (yaml[r.dir] # NoYaml => yaml[r.dir].id \in known[p].ids)
    BY <2>1 DEF JobSound
  <2>3. \A q, r : SameIds(q, r)' = SameIds(q, r)
    BY <1>3 DEF SameIds
  <2>4. ListSound'
    <3>1. \A q, r \in Listed' : SameIds(q, r) => q = r
      BY <1>7, <1>8, <1>9, <2>2 DEF ListSound, SameIds
    <3>2. \A r \in Listed' : r.name = NameOf[r.dir] /\ yaml'[r.dir] # NoYaml
      BY <1>3, <1>7, <1>8, <1>9, <2>2 DEF ListSound
    <3> QED
      BY <1>7, <2>3, <3>1, <3>2 DEF ListSound
  <2>5. \A r \in Listed' : r.dir \in known'[p].dirs /\ (yaml'[r.dir] # NoYaml => yaml'[r.dir].id \in known'[p].ids)
    BY <1>3, <1>7, <1>8, <2>2
  <2>6. JobSound(p)'
    BY <2>1, <2>5 DEF JobSound, Finds
  <2> QED
    BY <1>10, <2>4, <2>6
<1>12. CASE work[p].body # NoYaml
  <2>1. pc'[p] = "yaml" /\ work'[p] = work[p]
    BY <1>3, <1>12 DEF RegistryTyped
  <2>2. \A e : e = d => Pending(e)'
    BY <2>1 DEF Pending
  <2>3. \A q, r : SameIds(q, r)' = SameIds(q, r)
    BY <1>3 DEF SameIds
  <2>4. ListSound'
    <3>1. \A q, r \in Listed' : SameIds(q, r) => q = r \/ q.dir = d \/ r.dir = d
      BY <1>7, <1>8, <1>9 DEF ListSound
    <3>2. \A r \in Listed' : r.name = NameOf[r.dir] /\ (yaml'[r.dir] # NoYaml \/ r.dir = d)
      BY <1>3, <1>7, <1>8, <1>9 DEF ListSound
    <3> HIDE DEF d
    <3> QED
      BY <1>7, <2>2, <2>3, <3>1, <3>2 DEF ListSound
  <2>5. JobSound(p)'
    BY <1>12, <2>1 DEF JobSound, Finds
  <2> QED
    BY <1>10, <2>4, <2>5
<1> QED
  BY <1>11, <1>12

\* A project.yaml is written, or kept, at a place: the ids of the listed places stay apart
\* unless it declares the id of another.
LEMMA WriteSound ==
  ASSUME RegistryTyped, RestTyped, ListSound, NEW d \in Dir, NEW body \in Body,
         (yaml' = yaml /\ yaml[d] # NoYaml) \/ yaml' = [yaml EXCEPT ![d] = body],
         ~SameId(d, yaml'[d]), UNCHANGED refs,
         \A e : Pending(e) => e = d
  PROVE  ListSound' /\ yaml'[d] # NoYaml
<1>1. Listed' = Listed /\ NamesUnique(refs)' = NamesUnique(refs)
  BY DEF Listed, NamesUnique
<1>2. yaml'[d] # NoYaml /\ \A e \in Dir \ {d} : yaml'[e] = yaml[e]
  BY BodiesDeclare DEF RestTyped
<1>3. \A r \in Listed : r.dir # d => yaml'[r.dir] = yaml[r.dir] /\ yaml[r.dir] # NoYaml /\ yaml[r.dir].id # yaml'[d].id
  BY <1>2, ListedRefs DEF ListSound, SameId
<1>4. \A r \in Listed : yaml'[r.dir] # NoYaml
  BY <1>2, <1>3
<1>5. \A q, r \in Listed : yaml'[q.dir].id = yaml'[r.dir].id => q = r
  <2> SUFFICES ASSUME NEW q \in Listed, NEW r \in Listed, yaml'[q.dir].id = yaml'[r.dir].id PROVE q = r
    OBVIOUS
  <2>1. CASE q.dir = d /\ r.dir = d
    BY <2>1, ListedOnce
  <2>2. CASE q.dir = d /\ r.dir # d
    BY <1>3, <2>2
  <2>3. CASE q.dir # d /\ r.dir = d
    BY <1>3, <2>3
  <2>4. CASE q.dir # d /\ r.dir # d
    BY <1>3, <2>4 DEF ListSound, SameIds
  <2> QED
    BY <2>1, <2>2, <2>3, <2>4
<1>6. \A q, r : SameIds(q, r)' => yaml'[q.dir].id = yaml'[r.dir].id
  BY DEF SameIds
<1>7. ListSound'
  BY <1>1, <1>4, <1>5, <1>6 DEF ListSound
<1> QED
  BY <1>2, <1>7

LEMMA StarterSound ==
  ASSUME RegistryTyped, RestTyped, ListSound, NEW p \in Process, JobSound(p), WriteStarter(p),
         \A q \in Process \ {p} : pc[q] = "idle" /\ pc'[q] = "idle"
  PROVE  ListSound' /\ \A q \in Process : JobSound(q)'
<1>1. pc[p] = "starter" /\ Ends(p) /\ yaml' = yaml
  BY DEF WriteStarter
<1>2. CASE refs' = refs
  BY <1>1, <1>2, SoundEnds
<1>3. CASE refs' = Starter
  <2>1. Listed' = {[name |-> Example, dir |-> Home[Example]]} /\ refs' \notin {NoFile, Torn}
    <3>1. ToSet(Starter) = {[name |-> Example, dir |-> Home[Example]]}
      BY DEF Starter, ToSet
    <3> QED
      BY <1>3, <3>1, Marks, StarterIsList DEF Listed
  <2>2. NamesUnique(refs)'
    BY <1>3 DEF NamesUnique, Starter
  <2>3. yaml'[Home[Example]] # NoYaml /\ NameOf[Home[Example]] = Example
    BY <1>1, PlacesAreNamed, ExampleIsName DEF JobSound
  <2>4. ListSound'
    BY <2>1, <2>2, <2>3 DEF ListSound
  <2>5. \A q \in Process : pc'[q] = "idle"
    BY <1>1 DEF Ends, RegistryTyped
  <2> QED
    BY <2>4, <2>5 DEF JobSound, ListStages, Finds
<1> QED
  BY <1>2, <1>3 DEF WriteStarter

LEMMA AppearsSound ==
  ASSUME RegistryTyped, RestTyped, ListSound, \A p \in Process : JobSound(p),
         \A p, q \in Process : Running(p) /\ Running(q) => p = q,
         NEW d \in Dir, NEW body \in Body, Appears(d, body), ~clashed'
  PROVE  ListSound' /\ \A p \in Process : JobSound(p)'
<1>1. /\ yaml[d] = NoYaml /\ yaml' = [yaml EXCEPT ![d] = body] /\ body # NoYaml
      /\ [name |-> NameOf[d], dir |-> d] \in Listed => ~SameId(d, body)
      /\ UNCHANGED <<refs, scratch, pc, work, known>>
  BY BodiesDeclare DEF Appears
<1>2. Listed' = Listed /\ NamesUnique(refs)' = NamesUnique(refs) /\ \A e : Pending(e)' = Pending(e)
  BY <1>1 DEF Listed, NamesUnique, Pending
<1>3. yaml'[d] = body /\ \A e \in Dir \ {d} : yaml'[e] = yaml[e]
  BY <1>1 DEF RestTyped
<1>4. \A r \in Listed : r.dir \in Dir /\ (r.dir = d => [name |-> NameOf[d], dir |-> d] \in Listed)
  BY ListedRefs DEF ListSound
<1>5. \A q, r \in Listed : SameIds(q, r)' => q = r \/ Pending(q.dir) \/ Pending(r.dir)
  <2> SUFFICES ASSUME NEW q \in Listed, NEW r \in Listed, SameIds(q, r)'
               PROVE  q = r \/ Pending(q.dir) \/ Pending(r.dir)
    OBVIOUS
  <2>0. yaml'[q.dir] # NoYaml /\ yaml'[r.dir] # NoYaml /\ yaml'[q.dir].id = yaml'[r.dir].id
    BY DEF SameIds
  <2>1. CASE q.dir = d /\ r.dir = d
    BY <2>1, ListedOnce
  <2>2. CASE q.dir = d /\ r.dir # d
    BY <1>1, <1>3, <1>4, <2>0, <2>2 DEF SameId
  <2>3. CASE q.dir # d /\ r.dir = d
    BY <1>1, <1>3, <1>4, <2>0, <2>3 DEF SameId
  <2>4. CASE q.dir # d /\ r.dir # d
    BY <1>3, <1>4, <2>0, <2>4 DEF ListSound, SameIds
  <2> QED
    BY <2>1, <2>2, <2>3, <2>4
<1>6. ListSound'
  <2>1. \A r \in Listed : yaml'[r.dir] # NoYaml \/ Pending(r.dir)
    BY <1>1, <1>3, <1>4 DEF ListSound
  <2> QED
    BY <1>1, <1>2, <1>5, <2>1 DEF ListSound
<1>7. ASSUME NEW p \in Process PROVE JobSound(p)'
  <2>1. pc[p] = "walk" \/ Finds(p) => \A r \in Listed : r.dir # d
    <3> SUFFICES ASSUME pc[p] = "walk" \/ Finds(p), NEW r \in Listed, r.dir = d PROVE FALSE
      OBVIOUS
    <3>1. PICK q \in Process : pc[q] = "yaml"
      BY <1>1 DEF ListSound, Pending
    <3> QED
      BY <3>1 DEF Running, Finds, ListStages
  <2>2. pc[p] = "walk" \/ Finds(p) => \A r \in Listed : yaml'[r.dir] = yaml[r.dir]
    BY <1>3, <1>4, <2>1
  <2>3. Finds(p) => yaml[work[p].dir] # NoYaml /\ yaml'[work[p].dir] = yaml[work[p].dir]
    BY <1>1, <1>3 DEF JobSound, Finds, ListStages, RegistryTyped, Registering
  <2>4. pc[p] = "starter" => yaml'[Home[Example]] # NoYaml
    BY <1>1, <1>3, PlacesAreNamed, ExampleIsName DEF JobSound
  <2>5. Finds(p)' = Finds(p) /\ RefOf(p)' = RefOf(p) /\ Known(work[p].dir)' = Known(work[p].dir)
    BY <1>1, <1>2 DEF Finds, RefOf, Known
  <2> QED
    BY <1>1, <1>2, <2>2, <2>3, <2>4, <2>5 DEF JobSound
<1> QED
  BY <1>6, <1>7

\* The place a discovery registers is not listed, under its name or at all.
LEMMA WalkSound ==
  ASSUME RegistryTyped, RestTyped, ListSound, NEW p \in Process, JobSound(p), Walk(p), ~Ends(p),
         \A q \in Process \ {p} : pc[q] = "idle" /\ pc'[q] = "idle"
  PROVE  ListSound' /\ \A q \in Process : JobSound(q)'
<1> USE DEF files, install, history
<1> DEFINE d == NextDir(p)
<1>1. /\ pc[p] = "walk" /\ Ahead(p) # {}
      /\ work' = [work EXCEPT ![p].dir = d]
      /\ UNCHANGED <<refs, scratch, yaml>>
      /\ \/ ~Unregistered(p, d) /\ UNCHANGED <<pc, known>>
         \/ /\ Unregistered(p, d) /\ ~KnownElsewhere(d)
            /\ known' = [known EXCEPT ![p] = [dirs |-> @.dirs \union {d}, ids |-> @.ids \union {yaml[d].id},
                                              repos |-> @.repos \union Repos({yaml[d]})]]
            /\ pc' = [pc EXCEPT ![p] = IF Known(d) THEN "walk" ELSE "read"]
  BY DEF Walk, Goes
<1>2. d \in Dir /\ yaml[d] # NoYaml
  BY <1>1, NextDirIsAhead
<1>3. work'[p].dir = d /\ work'[p].body = NoYaml
  BY <1>1, <1>2 DEF RegistryTyped, JobSound
<1>4. \A r \in Listed : r.dir \in known[p].dirs /\ (yaml[r.dir] # NoYaml => yaml[r.dir].id \in known[p].ids)
  BY <1>1 DEF JobSound
<1>5. Listed' = Listed
  BY <1>1 DEF Listed
<1> HIDE DEF d
<1>6. CASE ~Unregistered(p, d) /\ UNCHANGED <<pc, known>>
  <2>1. JobSound(p)'
    BY <1>1, <1>3, <1>4, <1>5, <1>6 DEF JobSound, Finds, ListStages
  <2> QED
    BY <1>1, <2>1, SoundGoes
<1>7. CASE /\ Unregistered(p, d) /\ ~KnownElsewhere(d)
           /\ known' = [known EXCEPT ![p] = [dirs |-> @.dirs \union {d}, ids |-> @.ids \union {yaml[d].id},
                                             repos |-> @.repos \union Repos({yaml[d]})]]
           /\ pc' = [pc EXCEPT ![p] = IF Known(d) THEN "walk" ELSE "read"]
  <2>1. d \notin known[p].dirs /\ yaml[d].id \notin known[p].ids
    BY <1>7 DEF Unregistered
  <2>2. \A r \in Listed : r.dir # d
    BY <1>4, <2>1
  <2>3. ~Known(d)
    BY <1>7, <2>2 DEF Known, KnownElsewhere
  <2>4. pc'[p] = "read"
    BY <1>7, <2>3 DEF RegistryTyped
  <2>5. known'[p].dirs = known[p].dirs \union {d} /\ known'[p].ids = known[p].ids \union {yaml[d].id}
    <3> DEFINE knows == [dirs |-> known[p].dirs \union {d}, ids |-> known[p].ids \union {yaml[d].id},
                         repos |-> known[p].repos \union Repos({yaml[d]})]
    <3>1. known' = [known EXCEPT ![p] = knows]
      BY <1>7
    <3>2. knows.dirs = known[p].dirs \union {d} /\ knows.ids = known[p].ids \union {yaml[d].id}
      OBVIOUS
    <3> HIDE DEF knows
    <3> QED
      BY <3>1, <3>2 DEF RestTyped
  <2>6. \A r \in Listed : yaml[r.dir] # NoYaml => yaml[r.dir].id # yaml[d].id
    BY <1>4, <2>1
  <2>7. ~Known(work[p].dir)'
    BY <1>3, <1>5, <2>3 DEF Known
  <2>8. JobSound(p)'
    BY <1>1, <1>2, <1>3, <1>4, <1>5, <2>4, <2>5, <2>6, <2>7 DEF JobSound, Finds, ListStages
  <2> QED
    BY <1>1, <2>8, SoundGoes
<1> QED
  BY <1>1, <1>6, <1>7

LEMMA WriteScratchSound ==
  ASSUME RegistryTyped, ListSound, NEW p \in Process, JobSound(p), raw[p] = refs, WriteScratch(p),
         \A q \in Process \ {p} : pc[q] = "idle" /\ pc'[q] = "idle"
  PROVE  ListSound' /\ \A q \in Process : JobSound(q)'
<1>1. CASE raw[p] \in {NoFile, Torn}
  BY <1>1, SoundEnds DEF WriteScratch
<1>2. CASE raw[p] \notin {NoFile, Torn}
  <2>1. /\ pc[p] = "scratch" /\ pc'[p] = "replace"
        /\ UNCHANGED <<refs, yaml, work, known>>
        /\ scratch' = Append(refs, RefOf(p)) /\ refs \in Seq(Ref)
    BY <1>2 DEF WriteScratch, Goes, RegistryTyped, Lists, RefOf
  <2>2. Finds(p)' = Finds(p) /\ RefOf(p)' = RefOf(p) /\ Known(work[p].dir)' = Known(work[p].dir) /\ Listed' = Listed
    BY <2>1 DEF Finds, RefOf, Known, Listed, ListStages
  <2>3. JobSound(p)'
    BY <2>1, <2>2 DEF JobSound, ListStages
  <2> QED
    BY <2>1, <2>3, SoundGoes
<1> QED
  BY <1>1, <1>2

LEMMA SoundGoesOn ==
  RegistryTyped /\ RestTyped /\ AloneListInv /\ SoundInv /\ [RegistryNext]_registryVars => SoundInv'
<1> SUFFICES ASSUME RegistryTyped, RestTyped, AloneListInv, SoundInv, [RegistryNext]_registryVars, Clean'
             PROVE  ListSound' /\ \A p \in Process : JobSound(p)'
  BY DEF SoundInv
<1> USE DEF files, install, history
<1>1. /\ ~overlapped /\ ~overlapped' /\ ListSound
      /\ \A p \in Process : JobSound(p)
      /\ \A p, q \in Process : Running(p) /\ Running(q) => p = q
      /\ AloneListInv'
  BY HistoryStays, AloneListGoesOn DEF Clean, SoundInv, AloneListInv
<1>2. ASSUME NEW p \in Process, Running(p) PROVE \A q \in Process \ {p} : pc[q] = "idle"
  BY <1>1, <1>2 DEF Running
<1>3. ASSUME NEW p \in Process, Running(p), pc[p] # "yaml", Ends(p), UNCHANGED <<refs, yaml>>
      PROVE  ListSound' /\ \A q \in Process : JobSound(q)'
  BY <1>1, <1>2, <1>3, SoundEnds
<1>4. ASSUME NEW p \in Process, Running(p), pc[p] # "yaml", NEW place, Goes(p, place), UNCHANGED <<refs, yaml>>,
             JobSound(p)'
      PROVE  ListSound' /\ \A q \in Process : JobSound(q)'
  <2>1. \A q \in Process \ {p} : pc[q] = "idle" /\ pc'[q] = "idle"
    BY <1>2, <1>4 DEF Goes, RegistryTyped
  <2> QED
    BY <1>1, <1>4, <2>1, SoundGoes
<1>5. ASSUME NEW p \in Process, NEW place, NEW what, Starts(p, place, what), UNCHANGED <<refs, yaml>>, JobSound(p)'
      PROVE  ListSound' /\ \A q \in Process : JobSound(q)'
  <2>1. \A q \in Process : pc[q] = "idle"
    BY <1>1, <1>5 DEF Starts, Running
  <2>2. \A q \in Process \ {p} : pc'[q] = "idle"
    BY <1>5, <2>1 DEF Starts, RegistryTyped
  <2> QED
    BY <1>1, <1>5, <2>1, <2>2, SoundGoes
<1>6. ASSUME NEW p \in Process, NEW place, NEW what, Starts(p, place, what) PROVE pc'[p] = place /\ work'[p] = what
  BY <1>6 DEF Starts, RegistryTyped
<1>7. ASSUME NEW p \in Process, NEW force \in BOOLEAN, Bootstrap(p, force)
      PROVE  ListSound' /\ \A q \in Process : JobSound(q)'
  <2>1. JobSound(p)'
    BY <1>6, <1>7 DEF Bootstrap, JobSound, Finds, ListStages
  <2> QED
    BY <1>5, <1>7, <2>1 DEF Bootstrap
<1>8. ASSUME NEW p \in Process, NEW n \in Name, NEW body \in Body, NEW force \in BOOLEAN, Add(p, n, body, force)
      PROVE  ListSound' /\ \A q \in Process : JobSound(q)'
  <2>1. /\ work'[p].dir = Home[n] /\ work'[p].body # NoYaml
        /\ pc'[p] = IF Known(Home[n]) THEN "yaml" ELSE "read"
    BY <1>6, <1>8, BodiesDeclare DEF Add
  <2>2. Known(work[p].dir)' = Known(Home[n])
    BY <1>8, <2>1 DEF Add, Known, Listed
  <2>3. JobSound(p)'
    BY <2>1, <2>2 DEF JobSound, Finds, ListStages
  <2> QED
    BY <1>5, <1>8, <2>3 DEF Add
<1>9. ASSUME NEW p \in Process, Discover(p) PROVE ListSound' /\ \A q \in Process : JobSound(q)'
  <2>1. pc'[p] = "walk" /\ work'[p].body = NoYaml /\ UNCHANGED <<refs, yaml>>
    BY <1>6, <1>9 DEF Discover, NoJob
  <2>2. known'[p].dirs = {r.dir : r \in Listed} /\ known'[p].ids = {b.id : b \in Claimed}
    BY <1>9 DEF Discover, RestTyped
  <2>3. \A r \in Listed : r.dir \in known'[p].dirs /\ (yaml[r.dir] # NoYaml => yaml[r.dir].id \in known'[p].ids)
    BY <2>2 DEF Claimed
  <2>4. Listed' = Listed
    BY <2>1 DEF Listed
  <2>5. JobSound(p)'
    BY <2>1, <2>3, <2>4 DEF JobSound, Finds, ListStages
  <2> QED
    BY <1>5, <1>9, <2>5 DEF Discover
<1>10. ASSUME NEW p \in Process, NEW d \in Dir, NEW force \in BOOLEAN, InitKernel(p, d, force)
       PROVE  ListSound' /\ \A q \in Process : JobSound(q)'
  <2>1. JobSound(p)'
    BY <1>6, <1>10 DEF InitKernel, JobSound, Finds, ListStages
  <2> QED
    BY <1>5, <1>10, <2>1 DEF InitKernel
<1>11. ASSUME NEW p \in Process, WriteSkeleton(p) PROVE ListSound' /\ \A q \in Process : JobSound(q)'
  <2>1. JobSound(p)'
    BY <1>11 DEF WriteSkeleton, Goes, RegistryTyped, JobSound, Finds, ListStages
  <2> QED
    BY <1>4, <1>11, <2>1 DEF WriteSkeleton, Running
<1>12. ASSUME NEW p \in Process, NEW body \in Body, WriteExample(p, body)
       PROVE  ListSound' /\ \A q \in Process : JobSound(q)'
  <2> DEFINE h == Home[Example]
  <2>1. /\ pc[p] = "example" /\ pc'[p] = "starter" /\ h \in Dir
        /\ (yaml' = yaml /\ yaml[h] # NoYaml) \/ yaml' = [yaml EXCEPT ![h] = body]
        /\ ~SameId(h, yaml'[h]) /\ UNCHANGED refs
    BY <1>12, PlacesAreNamed, ExampleIsName DEF WriteExample, Goes, RegistryTyped, Keeps, Clean
  <2>2. \A e : ~Pending(e)
    BY <1>2, <2>1 DEF Pending, Running
  <2> HIDE DEF h
  <2>3. ListSound' /\ yaml'[h] # NoYaml
    BY <1>1, <2>1, <2>2, WriteSound
  <2>4. \A q \in Process \ {p} : pc'[q] = "idle"
    BY <1>2, <1>12 DEF WriteExample, Goes, Running, RegistryTyped
  <2>5. \A q \in Process : JobSound(q)'
    BY <2>1, <2>3, <2>4 DEF JobSound, Finds, ListStages, h
  <2> QED
    BY <2>3, <2>5
<1>13. ASSUME NEW p \in Process, WriteStarter(p) PROVE ListSound' /\ \A q \in Process : JobSound(q)'
  <2>1. \A q \in Process \ {p} : pc[q] = "idle" /\ pc'[q] = "idle"
    BY <1>2, <1>13 DEF WriteStarter, Ends, Running, RegistryTyped
  <2> QED
    BY <1>1, <1>13, <2>1, StarterSound
<1>14. ASSUME NEW p \in Process, ReadList(p) PROVE ListSound' /\ \A q \in Process : JobSound(q)'
  <2>1. pc[p] = "read" /\ pc'[p] = "scratch" /\ UNCHANGED <<refs, yaml, work, known>>
    BY <1>14 DEF ReadList, Goes, RegistryTyped
  <2>2. Finds(p)' = Finds(p) /\ Known(work[p].dir)' = Known(work[p].dir) /\ Listed' = Listed
    BY <2>1 DEF Finds, Known, Listed, ListStages
  <2>3. JobSound(p)'
    BY <1>1, <2>1, <2>2 DEF JobSound, ListStages
  <2> QED
    BY <1>4, <1>14, <2>3 DEF ReadList, Running
<1>15. ASSUME NEW p \in Process, WriteScratch(p) PROVE ListSound' /\ \A q \in Process : JobSound(q)'
  <2>1. pc[p] = "scratch" /\ Running(p) /\ raw[p] = refs
    BY <1>1, <1>15 DEF WriteScratch, Running, AloneListInv
  <2>2. \A q \in Process \ {p} : pc[q] = "idle" /\ pc'[q] = "idle"
    BY <1>2, <1>15, <2>1 DEF WriteScratch, Goes, Ends, RegistryTyped
  <2> QED
    BY <1>1, <1>15, <2>1, <2>2, WriteScratchSound
<1>16. ASSUME NEW p \in Process, Replace(p) PROVE ListSound' /\ \A q \in Process : JobSound(q)'
  <2>1. \A q \in Process \ {p} : pc[q] = "idle" /\ pc'[q] = "idle"
    BY <1>2, <1>16 DEF Replace, Goes, Ends, Running, RegistryTyped
  <2> QED
    BY <1>1, <1>16, <2>1, ReplaceSound
<1>17. ASSUME NEW p \in Process, WriteProject(p) PROVE ListSound' /\ \A q \in Process : JobSound(q)'
  <2> DEFINE d == work[p].dir
             body == work[p].body
  <2>1. pc[p] = "yaml" /\ Running(p) /\ d \in Dir /\ body \in Body
    BY <1>1, <1>17 DEF WriteProject, Running, JobSound, RegistryTyped, Registering
  <2>2. /\ (yaml' = yaml /\ yaml[d] # NoYaml) \/ yaml' = [yaml EXCEPT ![d] = body]
        /\ ~SameId(d, yaml'[d]) /\ UNCHANGED refs
    BY <1>17 DEF WriteProject, Keeps, Clean
  <2>3. \A q \in Process : pc'[q] = "idle"
    BY <1>2, <1>17, <2>1 DEF WriteProject, Ends, RegistryTyped
  <2>4. \A e : Pending(e) => e = d
    BY <1>2, <2>1, SoundFiles
  <2> HIDE DEF d, body
  <2>5. ListSound'
    BY <1>1, <2>1, <2>2, <2>4, WriteSound
  <2> QED
    BY <2>3, <2>5 DEF JobSound, Finds, ListStages
<1>18. ASSUME NEW p \in Process, Walk(p) PROVE ListSound' /\ \A q \in Process : JobSound(q)'
  <2>1. Running(p) /\ pc[p] = "walk" /\ UNCHANGED <<refs, yaml>>
    BY <1>18 DEF Walk, Running
  <2>2. CASE Ends(p)
    BY <1>3, <2>1, <2>2
  <2>3. CASE ~Ends(p)
    <3>1. \A q \in Process \ {p} : pc[q] = "idle" /\ pc'[q] = "idle"
      BY <1>2, <1>18, <2>1, <2>3 DEF Walk, Goes, RegistryTyped
    <3> QED
      BY <1>1, <1>18, <2>3, <3>1, WalkSound
  <2> QED
    BY <2>2, <2>3
<1>19. ASSUME NEW p \in Process, KernelStep(p)
       PROVE  ListSound' /\ \A q \in Process : JobSound(q)'
  <2>1. Running(p) /\ pc[p] # "yaml" /\ UNCHANGED <<refs, yaml>>
    BY <1>19, KernelSteps DEF Installing
  <2>2. Ends(p) \/ \E place \in Installing : Goes(p, place)
    BY <1>19, KernelSteps
  <2>3. ASSUME NEW place \in Installing, Goes(p, place) PROVE ListSound' /\ \A q \in Process : JobSound(q)'
    <3>1. JobSound(p)'
      BY <2>3 DEF Goes, RegistryTyped, JobSound, Finds, ListStages, Installing
    <3> QED
      BY <1>4, <2>1, <2>3, <3>1
  <2> QED
    BY <1>3, <2>1, <2>2, <2>3
<1>20. ASSUME NEW p \in Process, Kill(p) PROVE FALSE
  BY <1>20 DEF Kill, Clean
<1>21. ASSUME NEW d \in Dir, NEW body \in Body, Appears(d, body) PROVE ListSound' /\ \A p \in Process : JobSound(p)'
  BY <1>1, <1>21, AppearsSound DEF Clean
<1>22. CASE UNCHANGED registryVars
  <2>1. UNCHANGED <<refs, scratch, yaml, pc, work, known>>
    BY <1>22 DEF registryVars
  <2>2. Listed' = Listed /\ \A e : Pending(e)' = Pending(e) /\ Known(e)' = Known(e)
    BY <2>1 DEF Listed, Pending, Known
  <2>3. ListSound'
    BY <1>1, <2>1, <2>2, ListKept
  <2>4. ASSUME NEW p \in Process PROVE JobSound(p)'
    <3>1. Finds(p)' = Finds(p) /\ RefOf(p)' = RefOf(p) /\ Known(work[p].dir)' = Known(work[p].dir)
      BY <2>1, <2>2 DEF Finds, RefOf, Known
    <3>2. JobSound(p)
      BY <1>1
    <3> QED
      BY <2>1, <2>2, <3>1, <3>2 DEF JobSound
  <2> QED
    BY <2>3, <2>4
<1> QED
  BY <1>7, <1>8, <1>9, <1>10, <1>11, <1>12, <1>13, <1>14, <1>15, <1>16, <1>17, <1>18, <1>19, <1>20, <1>21, <1>22
     DEF RegistryNext, KernelStep

\* Commands that run one at a time to their end leave a workspace that resolves: every
\* listed name once, with a project.yaml, and no id twice unless a person declared it so.
THEOREM RegistryResolves == RegistrySpec => []AloneResolves
<1>1. RegistryTyped /\ SoundInv => AloneResolves
  <2> SUFFICES ASSUME RegistryTyped, SoundInv, Clean, Quiet, refs # NoFile PROVE Resolves
    BY DEF AloneResolves, Clean
  <2>1. ListSound /\ \A d : ~Pending(d)
    BY DEF SoundInv, Pending, Quiet, Running
  <2>2. Loads /\ AllPresent /\ IdsUnique
    BY <2>1 DEF ListSound, Loads, AllPresent, IdsUnique, SameIds
  <2> QED
    BY <2>2 DEF Resolves
<1> QED
  BY RegistryTypesBegin, RegistryTypesGoOn, RestBegins, RestGoesOn, AloneListBegins, AloneListGoesOn,
     SoundBegins, SoundGoesOn, <1>1, PTL DEF RegistrySpec
=============================================================================
