---------------------------- MODULE MCConnection ----------------------------
(***************************************************************************)
(* A small instance of a connection: the inbox and two more listeners.     *)
(***************************************************************************)
EXTENDS RtConnection
=============================================================================
