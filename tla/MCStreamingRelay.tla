-------------------------- MODULE MCStreamingRelay --------------------------
(***************************************************************************)
(* StreamingRelay with two requests and one retry for each.                *)
(***************************************************************************)
EXTENDS StreamingRelay

MCNumRequests == 2
MCMaxRetries == 1
=============================================================================
