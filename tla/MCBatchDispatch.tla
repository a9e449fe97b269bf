-------------------------- MODULE MCBatchDispatch --------------------------
(***************************************************************************)
(* BatchDispatch with three cases, of which two run in Docker.             *)
(***************************************************************************)
EXTENDS BatchDispatch

MCDocker == {1, 2}
=============================================================================
