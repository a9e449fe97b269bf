----------------------- MODULE MCAdaptiveConcurrency -----------------------
(***************************************************************************)
(* AdaptiveConcurrency with two kinds of errors and small steps.           *)
(***************************************************************************)
EXTENDS AdaptiveConcurrency

MCKind == {"transport", "verifier"}
=============================================================================
