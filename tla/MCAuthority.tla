---- MODULE MCAuthority ----
(***************************************************************************)
(* A project of two hand-written assignments: one governed and owned by    *)
(* the lead, whose criteria demand the founder's attestation, and one fast *)
(* external action owned by the founder.                                   *)
(***************************************************************************)
EXTENDS Lifecycle, TLC

CONSTANTS founder, lead, guest, governed, external

MCPipeline == <<>>
MCNextOf == [t \in Template |-> NoTemplate]
MCOwnDeps == <<>>
MCModeOf == governed :> "governed" @@ external :> "fast"
MCOwnerOf == governed :> lead @@ external :> founder
MCAttests == governed :> {"founder"} @@ external :> {}
====
