---------------------------- MODULE MCValveDrive ----------------------------
(* Small instances of ValveDrive.  The valve creeps by 2 to 4 percent or    *)
(* jumps by 9: it can come to rest inside the tolerance of the target 7,    *)
(* jump over it either way, and stand still or creep short of the target 20 *)
(* for as long as a stall takes.                                            *)
EXTENDS ValveDrive

MCPositions == {0, 3, 5, 12}
MCTargets   == {7, 20}
MCMoves     == {2, 3, 4, 9}
=============================================================================
