---- MODULE MCInbox ----
(***************************************************************************)
(* Orchestrators with names of their own issue assignments; a sweep signs. *)
(***************************************************************************)
EXTENDS InboxSigner, TLC
CONSTANTS s1, s2

MCNameOf == [s \in Surface |-> s]
Symmetry == Permutations(Surface)
====
