----------------------------- MODULE MCTcpLink -----------------------------
(* Two sites, and one descriptor more than they need.                       *)
EXTENDS TcpLink
=============================================================================
