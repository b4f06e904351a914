---- MODULE MCRestock ----
(***************************************************************************)
(* Two reports about the one item that the backlog has for a seat.         *)
(***************************************************************************)
EXTENDS Restocker
CONSTANTS i1, codex

MCSeatOf == [i \in Item |-> codex]
MCSeats == <<codex>>
MCPool == <<i1>>
MCClaimOf == <<i1, i1>>
====
