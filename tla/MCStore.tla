---- MODULE MCStore ----
(***************************************************************************)
(* Two runs of the CLI over two assignments.  The processes and the        *)
(* assignments are interchangeable, and no property names one of them.     *)
(***************************************************************************)
EXTENDS KernelStore, TLC

Symmetry == Permutations(Process) \union Permutations(Task)
====
