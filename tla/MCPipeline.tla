----------------------------- MODULE MCPipeline -----------------------------
(***************************************************************************)
(* One rule, and thresholds that put its hit in both logs.                 *)
(***************************************************************************)
EXTENDS Pipeline, TLC

CONSTANT r1

MCRuleName == [r \in {r1} |-> r]
MCConfigs == { [log |-> 1, alert |-> 1, weight |-> (r1 :> 1)] }
=============================================================================
