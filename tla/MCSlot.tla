---- MODULE MCSlot ----
(***************************************************************************)
(* The question of the slot: two hand-written assignments, either of them  *)
(* closed by its owner alone, and two escalations, so that an assignment   *)
(* can be frozen, sent back and frozen again while the other one takes the *)
(* slot.                                                                   *)
(***************************************************************************)
EXTENDS Lifecycle, TLC

CONSTANTS founder, plain

MCPipeline == <<>>
MCNextOf == plain :> NoTemplate
MCOwnDeps == <<>>
MCModeOf == plain :> "fast"
MCOwnerOf == plain :> founder
MCAttests == plain :> {}
====
