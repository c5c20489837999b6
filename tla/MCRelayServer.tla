---------------------------- MODULE MCRelayServer ----------------------------
(* RelayServer for TLC. *)
EXTENDS RelayServer
=============================================================================
