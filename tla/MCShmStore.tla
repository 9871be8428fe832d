----------------------------- MODULE MCShmStore -----------------------------
(* Three processes, two changes, two faults.                                *)
EXTENDS ShmStore
=============================================================================
