---- MODULE MCConsole ----
(***************************************************************************)
(* A project of two phases, the founder's own.  The first is reviewed, by  *)
(* another owner, and has a criterion that its owner attests; the second   *)
(* is fast.  The first names the second as its successor, so that a second *)
(* attempt is issued while the first one is frozen.                        *)
(***************************************************************************)
EXTENDS Console, TLC

CONSTANTS founder, reviewer, phase1, phase2

MCPipeline == <<phase1, phase2>>
MCNextOf == phase1 :> phase2 @@ phase2 :> NoTemplate
MCOwnDeps == <<>>
MCModeOf == phase1 :> "reviewed" @@ phase2 :> "fast"
MCOwnerOf == [t \in Template |-> founder]
MCAttests == phase1 :> {"owner"} @@ phase2 :> {}
MCWorkOf == phase1 :> "code" @@ phase2 :> "chat"
MCExecutorOf == phase1 :> "code" @@ phase2 :> "human"
====
