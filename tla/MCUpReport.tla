---------------------------- MODULE MCUpReport ----------------------------
(* Small instances of UpReport: openings far enough apart to be reported,   *)
(* and a few slots instead of 128.                                          *)
EXTENDS UpReport

MCOpenings == {0, 100}
MCFaulty   == {0, 255}
=============================================================================
