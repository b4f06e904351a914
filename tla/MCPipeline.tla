---- MODULE MCPipeline ----
(***************************************************************************)
(* Generation: a pack with a pipeline of three phases.  The first sends    *)
(* the project to a template outside the pipeline through its `next`       *)
(* block; the third declares a dependency of its own, on the second        *)
(* assignment issued, so that it may be generated as a deferred draft.     *)
(* Every assignment is fast and the founder's own: one approval closes it. *)
(***************************************************************************)
EXTENDS Lifecycle, TLC

CONSTANTS founder, phase1, phase2, phase3, followup

MCPipeline == <<phase1, phase2, phase3>>
MCNextOf == [t \in Template |-> IF t = phase1 THEN followup ELSE NoTemplate]
MCNoNext == [t \in Template |-> NoTemplate]
MCOwnDeps == phase3 :> {2}
MCNoDeps == <<>>
MCModeOf == [t \in Template |-> "fast"]
MCOwnerOf == [t \in Template |-> founder]
MCAttests == [t \in Template |-> {}]
====
