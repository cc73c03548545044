----------------------------- MODULE MCTcpServer -----------------------------
(***************************************************************************)
(* TcpServer for TLC: one peer more than the table holds, so that a        *)
(* connection is rejected, a descriptor is reused and two clients contend. *)
(***************************************************************************)
EXTENDS TcpServer

Peers == {"c1", "c2", "c3"}
NoOne == "none"
=============================================================================
