------------------------------ MODULE ShmStore ------------------------------
(***************************************************************************)
(* A shared segment with its file: the first process to ask for it makes it *)
(* and fills it from the file, the others attach; whoever changes it writes *)
(* it back.  No lock guards the filling, the changes or the file.  The      *)
(* segment is a number that grows with each change; a write is one step,    *)
(* as it is for the valve's 18 bytes.                                       *)
(***************************************************************************)
EXTENDS Integers

CONSTANTS
  Procs,      \* the processes that use the segment
  MaxVer,     \* the last version a change may reach
  MaxFaults   \* deaths and power losses of a run

ASSUME ShmAssumption == MaxVer \in Nat /\ MaxVer >= 1 /\ MaxFaults \in Nat

NoFile   == -2
Empty    == -1   \* a file of no length
Zeros    == 0    \* what a new segment holds
Defaults == 1    \* every later version is the number of a change

VARIABLES
  stage,        \* of the segment: "none", "made", "raw" (somebody attached
                \* before it was filled) or "filled"
  seg,          \* what it holds
  file, disk,   \* the file, and what a power loss leaves of it
  pc, snap,     \* each process: where it is, and the copy it writes
  alone,        \* processes whose save no other has overlapped
  kept,         \* history: the last version such a save wrote
  last, faults  \* changes and faults so far

vars == <<stage, seg, file, disk, pc, snap, alone, kept, last, faults>>

Init ==
  /\ stage = "none" /\ seg = Zeros /\ file \in {NoFile, Defaults} /\ disk = file
  /\ pc = [p \in Procs |-> "off"] /\ snap = [p \in Procs |-> Zeros]
  /\ alone = {} /\ kept = NoFile /\ last = Defaults /\ faults = 0

At(p, from, to) == pc[p] = from /\ pc' = [pc EXCEPT ![p] = to]

-----------------------------------------------------------------------------
(* The watchdog starts the process.                                         *)
Start(p) ==
  /\ At(p, "off", "probe")
  /\ UNCHANGED <<stage, seg, file, disk, snap, alone, kept, last, faults>>

(* Mutant of Attach: wait until the segment is filled.                      *)
AttachFilled(p) ==
  /\ stage = "filled" /\ At(p, "probe", "ready")
  /\ UNCHANGED <<stage, seg, file, disk, snap, alone, kept, last, faults>>

Attach(p) ==
  /\ stage # "none" /\ At(p, "probe", "ready")
  /\ stage' = IF stage = "made" THEN "raw" ELSE stage
  /\ UNCHANGED <<seg, file, disk, snap, alone, kept, last, faults>>

NotFound(p) ==
  /\ stage = "none" /\ At(p, "probe", "create")
  /\ UNCHANGED <<stage, seg, file, disk, snap, alone, kept, last, faults>>

Make(p) ==
  /\ stage = "none" /\ At(p, "create", "fill")
  /\ stage' = "made" /\ seg' = Zeros
  /\ UNCHANGED <<file, disk, snap, alone, kept, last, faults>>

(* Mutant of Late: shmget without IPC_EXCL takes what another has made.     *)
LateFills(p) ==
  /\ stage # "none" /\ At(p, "create", "fill")
  /\ UNCHANGED <<stage, seg, file, disk, snap, alone, kept, last, faults>>

(* Another was faster: the getter returns NULL, and its caller crashes.     *)
Late(p) ==
  /\ stage # "none" /\ At(p, "create", "off")
  /\ UNCHANGED <<stage, seg, file, disk, snap, alone, kept, last, faults>>

Filled == IF stage = "raw" THEN "raw" ELSE "filled"

Load(p) ==
  /\ file >= Zeros /\ At(p, "fill", "ready")
  /\ stage' = Filled /\ seg' = file
  /\ UNCHANGED <<file, disk, snap, alone, kept, last, faults>>

Default(p) ==
  /\ file < Zeros /\ At(p, "fill", "save")
  /\ stage' = Filled /\ seg' = Defaults
  /\ UNCHANGED <<file, disk, snap, alone, kept, last, faults>>

-----------------------------------------------------------------------------
(* A change; every handler that makes one saves it next.                    *)
Change(p) ==
  /\ last < MaxVer /\ At(p, "ready", "save")
  /\ last' = last + 1 /\ seg' = last'
  /\ UNCHANGED <<stage, file, disk, snap, alone, kept, faults>>

Saving == {p \in Procs : pc[p] \in {"open", "truncate", "write"}}

Copy(p) ==
  /\ At(p, "save", "open")
  /\ snap' = [snap EXCEPT ![p] = seg]
  /\ alone' = IF Saving = {} THEN {p} ELSE {}
  /\ UNCHANGED <<stage, seg, file, disk, kept, last, faults>>

(* Mutant of Open: "wb+" at once.                                           *)
OpenTruncates(p) ==
  /\ At(p, "open", "truncate")
  /\ UNCHANGED <<stage, seg, file, disk, snap, alone, kept, last, faults>>

(* "rb+" finds the file, or "wb+" makes it.                                 *)
Open(p) ==
  /\ At(p, "open", IF file = NoFile THEN "truncate" ELSE "write")
  /\ UNCHANGED <<stage, seg, file, disk, snap, alone, kept, last, faults>>

Truncate(p) ==
  /\ At(p, "truncate", "write") /\ file' = Empty
  /\ UNCHANGED <<stage, seg, disk, snap, alone, kept, last, faults>>

Write(p) ==
  /\ At(p, "write", "ready") /\ file' = snap[p]
  /\ kept' = IF p \in alone THEN snap[p] ELSE kept
  /\ alone' = alone \ {p} /\ snap' = [snap EXCEPT ![p] = Zeros]
  /\ UNCHANGED <<stage, seg, disk, last, faults>>

Step(p) == \/ Start(p) \/ Attach(p) \/ NotFound(p) \/ Make(p) \/ Late(p)
           \/ Load(p) \/ Default(p) \/ Copy(p) \/ Open(p) \/ Truncate(p) \/ Write(p)

-----------------------------------------------------------------------------
(* Nothing calls fsync: the kernel writes back when it likes.               *)
Flush ==
  /\ disk # file /\ disk' = file
  /\ UNCHANGED <<stage, seg, file, pc, snap, alone, kept, last, faults>>

Die(p) ==
  /\ faults < MaxFaults /\ faults' = faults + 1
  /\ pc[p] # "off" /\ pc' = [pc EXCEPT ![p] = "off"]
  /\ snap' = [snap EXCEPT ![p] = Zeros] /\ alone' = alone \ {p}
  /\ UNCHANGED <<stage, seg, file, disk, kept, last>>

PowerLoss ==
  /\ faults < MaxFaults /\ faults' = faults + 1
  /\ stage' = "none" /\ seg' = Zeros /\ file' = disk
  /\ pc' = [p \in Procs |-> "off"] /\ snap' = [p \in Procs |-> Zeros]
  /\ alone' = {} /\ kept' = NoFile
  /\ UNCHANGED <<disk, last>>

Next == \/ \E p \in Procs : Step(p) \/ Change(p) \/ Die(p)
        \/ Flush \/ PowerLoss

Spec == Init /\ [][Next]_vars

(* The processes run, and the watchdog starts them again.                   *)
FairSpec == Spec /\ \A p \in Procs : WF_vars(Step(p))

-----------------------------------------------------------------------------
TypeOK ==
  /\ stage \in {"none", "made", "raw", "filled"}
  /\ seg \in Zeros..MaxVer /\ {file, disk} \subseteq NoFile..MaxVer
  /\ pc \in [Procs -> {"off", "probe", "create", "fill", "ready", "save",
                       "open", "truncate", "write"}]
  /\ snap \in [Procs -> Zeros..MaxVer] /\ alone \subseteq Saving
  /\ kept \in NoFile..MaxVer /\ last \in Defaults..MaxVer
  /\ faults \in 0..MaxFaults

(* A save is undone only by one that overlaps it, or by a process that used *)
(* the segment before it was filled (tinz_pub_shm.c 288-313): what was      *)
(* written alone stays, or something later replaces it.                     *)
SaveHolds == stage = "raw" \/ file >= kept

(* A filled segment never goes back to an older content: no second process  *)
(* loads the file over a change (tinz_pub_shm.c 59-63).                     *)
NeverBack == [][stage = "filled" /\ stage' = "filled" => seg' >= seg]_vars

(* Whoever loses the race for the segment, or dies, gets it in the end, and *)
(* every save ends (tinz_pub_shm.c 59-68; watchdog.c 207-226).              *)
EverybodyAttached ==
  \A p \in Procs : pc[p] # "ready" ~> pc[p] = "ready"

=============================================================================
