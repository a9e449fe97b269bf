------------------------- MODULE MCToolTransaction -------------------------
(***************************************************************************)
(* ToolTransaction with two calls that write and one that only reads.      *)
(***************************************************************************)
EXTENDS ToolTransaction, TLC

CONSTANTS w1, w2, r1

MCCall     == {w1, w2, r1}
MCReadOnly == {r1}
MCWriters  == {w1, w2}
=============================================================================
