------------------------------ MODULE MCGb212 ------------------------------
(* Two platforms, and queues that hold one message; the first site has one  *)
(* left in its queue, and is opened and closed.                             *)
EXTENDS Gb212

MCFormer == <<1, 0>>
=============================================================================
