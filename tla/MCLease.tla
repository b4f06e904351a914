---- MODULE MCLease ----
(***************************************************************************)
(* Two orchestrators, each with a name of its own, contend for the lease.  *)
(***************************************************************************)
EXTENDS InboxLease, TLC
CONSTANTS s1, s2

MCNameOf == [s \in Surface |-> s]
Symmetry == Permutations(Surface)
====
