--------------------------- MODULE MCToolGenBatch ---------------------------
(***************************************************************************)
(* ToolGenBatch with two environments that share a profile, two starts,    *)
(* and at most two attempts for one of the environments.                   *)
(***************************************************************************)
EXTENDS ToolGenBatch, TLC

CONSTANTS e1, e2, v1, v2

MCEnvironment == {e1, e2}
MCAttempts == (e1 :> 2) @@ (e2 :> 1)
MCVersion == {v1, v2}
MCSoftware == (e1 :> {v1}) @@ (e2 :> {v2, None})
MCMaxRuns == 2
=============================================================================
