----------------------------- MODULE MCShutdown -----------------------------
(***************************************************************************)
(* A few handlers around one shutdown.                                     *)
(***************************************************************************)
EXTENDS Shutdown
=============================================================================
