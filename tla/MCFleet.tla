------------------------------ MODULE MCFleet ------------------------------
(***************************************************************************)
(* The tools that share no state with each other, the fleet's and the      *)
(* workspace registry: each behaviour exercises one of them, and the       *)
(* others stay as they began.  The keys have two kinds of behaviour: the   *)
(* steps of a rotation in any order, with the registries left alone, and   *)
(* the registries switched while a rotation goes on in its order.          *)
(***************************************************************************)
EXTENDS SpendGovernor, KeyRing, FleetApplier, FleetLaw, DefectSweep, Registry

CONSTANTS openai, xai, m1, m2, t1, g1, g2, n1, n2, i1, i2, q1

VARIABLE tool

MCPool == <<openai, xai>>
MCFunded == [p \in {openai, xai} |-> IF p = openai THEN 4 ELSE 3]

Ask(op, task, smuggles, pin) == [op |-> op, task |-> task, smuggles |-> smuggles, pin |-> pin]
MCRequests ==
  [m \in {m1, m2} |->
     IF m = m1 THEN <<Ask("register", t1, FALSE, g1), Ask("delete", t1, FALSE, NoDigest)>>
     ELSE <<Ask("report", t1, TRUE, NoDigest), Ask("enable", Outside, FALSE, NoDigest),
            Ask("unknown", t1, FALSE, g2), Ask("enable", NoTask, FALSE, NoDigest)>>]

MCPlaceName == [d \in Dir |-> IF d = 2 THEN n2 ELSE n1]
MCHome == [n \in {n1, n2} |-> IF n = n1 THEN 1 ELSE 2]
MCBody == {[id |-> i1, repo |-> NoRepo], [id |-> i1, repo |-> q1], [id |-> i2, repo |-> q1]}

Tools == {"spend", "rotation", "switch", "applier", "law", "sweep", "registry"}

FleetInit ==
  /\ tool \in Tools
  /\ SpendInit /\ KeyInit /\ ApplierInit /\ LawInit /\ SweepInit /\ RegistryInit
  /\ tool = "applier" \/ catalogue = [t \in Task |-> NoDigest]
  /\ tool = "sweep" \/ onDisk = [t \in Test |-> "gone"]

Only(t) == tool = t /\ UNCHANGED tool

FleetNext ==
  \/ Only("spend") /\ SpendNext /\ UNCHANGED <<keyVars, applierVars, lawVars, sweepVars, registryVars>>
  \/ /\ Only("rotation") /\ KeyNext /\ UNCHANGED <<declared, registry>>
     /\ UNCHANGED <<spendVars, applierVars, lawVars, sweepVars, registryVars>>
  \/ /\ Only("switch") /\ KeyNext /\ ~strayed'
     /\ UNCHANGED <<spendVars, applierVars, lawVars, sweepVars, registryVars>>
  \/ Only("applier") /\ ApplierNext /\ UNCHANGED <<spendVars, keyVars, lawVars, sweepVars, registryVars>>
  \/ Only("law") /\ LawNext /\ UNCHANGED <<spendVars, keyVars, applierVars, sweepVars, registryVars>>
  \/ Only("sweep") /\ SweepNext /\ UNCHANGED <<spendVars, keyVars, applierVars, lawVars, registryVars>>
  \/ Only("registry") /\ RegistryNext /\ UNCHANGED <<spendVars, keyVars, applierVars, lawVars, sweepVars>>

allVars == <<tool, spendVars, keyVars, applierVars, lawVars, sweepVars, registryVars>>

FleetSpec == FleetInit /\ [][FleetNext]_allVars

\* The types of all of them.
FleetTypeOK == SpendTypeOK /\ KeyTypeOK /\ ApplierTypeOK /\ LawTypeOK /\ SweepTypeOK /\ RegistryTypeOK
=============================================================================
