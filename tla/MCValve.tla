------------------------------ MODULE MCValve ------------------------------
(* Small instances of Valve.  Openings are 0 and 100, the operator's        *)
(* buttons jump by 100 instead of 10, a queue holds one message instead of  *)
(* eight and MsgSend tries twice instead of thirty times.  The platform     *)
(* asks for 100, the operator for either; every measurement is 0, so that a *)
(* drive to 100 opens and a drive to 0 closes.                              *)
EXTENDS Valve

MCOne   == {100}
MCZero  == {0}
MCFresh == {255}
=============================================================================
