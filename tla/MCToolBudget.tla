---------------------------- MODULE MCToolBudget ----------------------------
(***************************************************************************)
(* ToolBudget with one MCP server and two hook processes.                  *)
(***************************************************************************)
EXTENDS ToolBudget

CONSTANTS server, h1, h2

MCProc == {server, h1, h2}
=============================================================================
