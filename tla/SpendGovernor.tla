---------------------------- MODULE SpendGovernor ----------------------------
(***************************************************************************)
(* api_runner.py: may a run spend, and from which pool.  A runner asks     *)
(* decide, calls the vendor and records the cost afterwards; several seats *)
(* share one ledger and nothing locks it.                                  *)
(*                                                                         *)
(* Money is a number of units.  The ledger is the sum a reader gets for    *)
(* each day, and whether its last line is incomplete: a line appended to   *)
(* an incomplete one makes both unreadable, and unreadable lines are       *)
(* skipped.  The call itself, whose code the repository leaves out, costs  *)
(* up to MaxCost and is charged to the vendor's balance.                   *)
(***************************************************************************)
EXTENDS Naturals, FiniteSets, SequencesExt

CONSTANTS
  Runner,       \* runs that may be under way together
  Item,         \* assignments they run
  Pool,         \* the pools in SPEND_ORDER
  Funded,       \* FUNDED_USD
  Reserve,      \* POOL_RESERVE_USD
  DayCap,       \* PER_DAY_CAP_USD
  MaxCost,      \* the most that one call costs
  MaxDay,       \* bound on the days
  MaxLosses,    \* bound on kills
  NoPool

ASSUME AmountsAreNaturals ==
  /\ Reserve \in Nat /\ DayCap \in Nat \ {0} /\ MaxCost \in Nat /\ MaxDay \in Nat \ {0}
  /\ Funded \in [ToSet(Pool) -> Nat]
ASSUME RunnersAreFinite == IsFiniteSet(Runner)
ASSUME PoolsAreNamed == NoPool \notin ToSet(Pool)

VARIABLES
  day,          \* the current IST day
  balance,      \* what the vendor still holds of each pool
  charged,      \* what the vendor charged on each day
  recorded,     \* the spend of each day that the ledger can be read to hold
  torn,         \* the ledger's last line is incomplete
  brake,        \* the kill switch exists
  held,         \* items a chat seat holds
  reported,     \* items that have a report
  at, pool, cost,  \* where each runner is, the pool ruled, the cost of its call
  losses        \* kills so far

spendVars == <<day, balance, charged, recorded, torn, brake, held, reported, at, pool, cost, losses>>

Day == 1 .. MaxDay
Ruled == {"asked", "called"}

SpendTypeOK ==
  /\ day \in Day
  /\ balance \in [ToSet(Pool) -> Nat]
  /\ charged \in [Day -> Nat] /\ recorded \in [Day -> Nat]
  /\ torn \in BOOLEAN /\ brake \in BOOLEAN
  /\ held \subseteq Item /\ reported \subseteq Item
  /\ at \in [Runner -> Ruled \union {"idle"}]
  /\ pool \in [Runner -> ToSet(Pool) \union {NoPool}]
  /\ \A r \in Runner : at[r] = "asked" => pool[r] \in ToSet(Pool)
  /\ cost \in [Runner -> 0 .. MaxCost]
  /\ losses \in 0 .. MaxLosses

SpendInit ==
  /\ day = 1
  /\ balance = Funded
  /\ charged = [d \in Day |-> 0] /\ recorded = [d \in Day |-> 0]
  /\ torn = FALSE /\ brake = FALSE
  /\ held = {} /\ reported = {}
  /\ at = [r \in Runner |-> "idle"]
  /\ pool = [r \in Runner |-> NoPool]
  /\ cost = [r \in Runner |-> 0]
  /\ losses = 0

-----------------------------------------------------------------------------
\* The first pool in the fixed order with more than the reserve left.
ChoosePool(remaining) ==
  LET rich == {k \in DOMAIN Pool : remaining[Pool[k]] > Reserve}
  IN  IF rich = {} THEN NoPool ELSE Pool[CHOOSE k \in rich : \A j \in rich : k <= j]

\* Mutant of Spends: the ledger is not asked.
SpendsUncapped(i, remaining) ==
  ~brake /\ i \notin held \union reported /\ ChoosePool(remaining) # NoPool

Spends(i, remaining) ==
  /\ ~brake
  /\ i \notin held \union reported
  /\ recorded[day] < DayCap
  /\ ChoosePool(remaining) # NoPool

\* decide: `remaining` is what the caller passes, or FUNDED_USD when it passes none.
\* A ruling that spends nothing is recorded at no cost.
DecideSpend(r, i, passed) ==
  LET remaining == IF passed THEN balance ELSE Funded IN
  /\ at[r] = "idle"
  /\ \/ /\ Spends(i, remaining)
        /\ at' = [at EXCEPT ![r] = "asked"]
        /\ pool' = [pool EXCEPT ![r] = ChoosePool(remaining)]
     \/ /\ ~Spends(i, remaining)
        /\ at' = [at EXCEPT ![r] = "called"]
        /\ UNCHANGED pool
  /\ UNCHANGED <<day, balance, charged, recorded, torn, brake, held, reported, cost, losses>>

\* The vendor's hard stop: no call is charged beyond the balance.
CallVendor(r, c) ==
  /\ at[r] = "asked"
  /\ c <= balance[pool[r]]
  /\ balance' = [balance EXCEPT ![pool[r]] = @ - c]
  /\ charged' = [charged EXCEPT ![day] = @ + c]
  /\ cost' = [cost EXCEPT ![r] = c]
  /\ at' = [at EXCEPT ![r] = "called"]
  /\ UNCHANGED <<day, recorded, torn, brake, held, reported, pool, losses>>

\* record: the line is stamped with the day of the append.
Readable(c) == IF torn THEN 0 ELSE c

RecordCost(r) ==
  /\ at[r] = "called"
  /\ recorded' = [recorded EXCEPT ![day] = @ + Readable(cost[r])]
  /\ torn' = FALSE
  /\ at' = [at EXCEPT ![r] = "idle"]
  /\ cost' = [cost EXCEPT ![r] = 0]
  /\ pool' = [pool EXCEPT ![r] = NoPool]
  /\ UNCHANGED <<day, balance, charged, brake, held, reported, losses>>

\* A runner killed at its call or inside its append leaves a cost unrecorded.
RunnerKilled(r, inside) ==
  /\ at[r] # "idle"
  /\ losses < MaxLosses
  /\ inside => at[r] = "called"
  /\ losses' = losses + 1
  /\ torn' = (torn \/ inside)
  /\ at' = [at EXCEPT ![r] = "idle"]
  /\ cost' = [cost EXCEPT ![r] = 0]
  /\ pool' = [pool EXCEPT ![r] = NoPool]
  /\ UNCHANGED <<day, balance, charged, recorded, brake, held, reported>>

NextDay ==
  /\ day < MaxDay
  /\ day' = day + 1
  /\ UNCHANGED <<balance, charged, recorded, torn, brake, held, reported, at, pool, cost, losses>>

\* The founder's switch, and the seats that take and report items.
SpendSurroundings ==
  /\ \/ brake' = ~brake /\ UNCHANGED <<held, reported>>
     \/ \E i \in Item \ held : held' = held \union {i} /\ UNCHANGED <<brake, reported>>
     \/ \E i \in held \ reported : reported' = reported \union {i} /\ held' = held \ {i} /\ UNCHANGED brake
  /\ UNCHANGED <<day, balance, charged, recorded, torn, at, pool, cost, losses>>

SpendNext ==
  \/ \E r \in Runner, i \in Item, passed \in BOOLEAN : DecideSpend(r, i, passed)
  \/ \E r \in Runner, c \in 0 .. MaxCost : CallVendor(r, c)
  \/ \E r \in Runner : RecordCost(r)
  \/ \E r \in Runner, inside \in BOOLEAN : RunnerKilled(r, inside)
  \/ NextDay
  \/ SpendSurroundings

SpendSpec == SpendInit /\ [][SpendNext]_spendVars

-----------------------------------------------------------------------------
(* Properties.                                                              *)

\* The day cap is looked at before a call whose cost is known after it, by runners
\* that do not see each other's calls: a day costs less than the cap and one call of
\* every runner, as long as no record is lost, and over midnight too.
DayCapHolds ==
  losses = 0 => \A d \in Day : charged[d] < DayCap + MaxCost * Cardinality(Runner)

\* "Never spend a pool to zero.  Below this the pool is treated as empty": a run is
\* sent to no pool that is down to its reserve.  A caller that passes no balances is
\* given the funded ones, and nothing that was spent is taken off them.
RuledPoolIsRich ==
  [][\A r \in Runner : at[r] = "idle" /\ at'[r] = "asked" => balance[pool'[r]] > Reserve]_spendVars

\* "A corrupt line must not silently zero the day's spend and re-open the cap."
CapSurvivesLoss == \A d \in Day : charged[d] < DayCap + MaxCost * Cardinality(Runner)
=============================================================================
