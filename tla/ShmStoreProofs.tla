--------------------------- MODULE ShmStoreProofs ---------------------------
(* Theorems about ShmStore, for any set of processes and any number of      *)
(* changes, deaths and power losses.                                        *)
EXTENDS ShmStore, TLAPS

(* Nothing is newer than the last change.                                   *)
Ages == seg <= last /\ file <= last /\ disk <= last
        /\ \A p \in Procs : snap[p] <= last

(* One process fills the segment, and the others are not yet at work unless *)
(* the segment is raw.                                                      *)
Filling ==
  /\ \A p, q \in Procs : pc[p] = "fill" /\ pc[q] = "fill" => p = q
  /\ \A p \in Procs : pc[p] = "fill" => stage \in {"made", "raw"}
  /\ stage \in {"none", "made"} =>
       \A p \in Procs : pc[p] \in {"off", "probe", "create", "fill"}

(* A save that no other has overlapped is the only one; what is being       *)
(* written is as new as the last such save, and no newer than the segment.  *)
Order ==
  /\ \A p \in alone : Saving = {p}
  /\ stage = "filled" =>
       /\ kept <= seg
       /\ \A p \in Saving : kept <= snap[p] /\ snap[p] <= seg
       /\ \A p \in Procs : pc[p] = "truncate" => kept = NoFile

IInv == TypeOK /\ Ages /\ Filling /\ Order /\ SaveHolds

USE DEF NoFile, Empty, Zeros, Defaults

LEMMA InitIInv == Init => IInv
BY ShmAssumption DEF Init, IInv, TypeOK, Ages, Filling, Order, SaveHolds,
   Saving, ShmAssumption

(* Coming and going: nothing is saved, and no save ends.                    *)
LEMMA ArrivalKeeps ==
  ASSUME IInv, NEW p \in Procs,
         Start(p) \/ Attach(p) \/ NotFound(p) \/ Make(p) \/ Late(p)
  PROVE  IInv'
<1>1. Saving' = Saving /\ alone' = alone /\ p \notin Saving
  BY DEF IInv, TypeOK, Saving, Start, Attach, NotFound, Make, Late, At
<1>2. TypeOK'
  BY <1>1, ShmAssumption
  DEF IInv, TypeOK, Start, Attach, NotFound, Make, Late, At, ShmAssumption
<1>3. Ages' /\ SaveHolds'
  BY DEF IInv, TypeOK, Ages, SaveHolds, Start, Attach, NotFound, Make, Late
<1>4. Filling'
  BY DEF IInv, TypeOK, Filling, Start, Attach, NotFound, Make, Late, At
<1>5. Order'
  BY <1>1 DEF IInv, TypeOK, Order, Start, Attach, NotFound, Make, Late, At
<1>. QED  BY <1>2, <1>3, <1>4, <1>5 DEF IInv

(* The filling finds no process at work, or the segment raw.                *)
LEMMA FillingKeeps ==
  ASSUME IInv, NEW p \in Procs, Load(p) \/ Default(p)
  PROVE  IInv'
<1>1. Saving' = Saving /\ alone' = alone
  BY DEF IInv, TypeOK, Saving, Load, Default, At
<1>2. stage' = "filled" => Saving = {}
  BY DEF IInv, TypeOK, Filling, Filled, Saving, Load, Default, At
<1>3. TypeOK' /\ Ages'
  BY <1>1, ShmAssumption
  DEF IInv, TypeOK, Ages, Filled, Load, Default, At, ShmAssumption
<1>4. Filling'
  BY DEF IInv, TypeOK, Filling, Filled, Load, Default, At
<1>5. Order' /\ SaveHolds'
  BY <1>1, <1>2
  DEF IInv, TypeOK, Order, SaveHolds, Filled, Filling, Load, Default, At
<1>. QED  BY <1>3, <1>4, <1>5 DEF IInv

(* A change and the steps of a save.                                        *)
LEMMA SavingKeeps ==
  ASSUME IInv, NEW p \in Procs,
         Change(p) \/ Copy(p) \/ Open(p) \/ Truncate(p) \/ Write(p)
  PROVE  IInv'
<1>. stage \in {"raw", "filled"}
  BY DEF IInv, TypeOK, Filling, Change, Copy, Open, Truncate, Write, At
<1>1. Filling'
  BY DEF IInv, TypeOK, Filling, Change, Copy, Open, Truncate, Write, At
<1>2. CASE Change(p)
  <2>1. Saving' = Saving
    BY <1>2 DEF IInv, TypeOK, Saving, Change, At
  <2>2. TypeOK' /\ Ages'
    BY <1>2, <2>1, ShmAssumption DEF IInv, TypeOK, Ages, Change, At, ShmAssumption
  <2>3. Order' /\ SaveHolds'
    BY <1>2, <2>1 DEF IInv, TypeOK, Ages, Order, SaveHolds, Saving, Change, At
  <2>. QED  BY <1>1, <2>2, <2>3 DEF IInv
<1>3. CASE Copy(p)
  <2>1. Saving' = Saving \cup {p}
    BY <1>3 DEF IInv, TypeOK, Saving, Copy, At
  <2>2. TypeOK' /\ Ages'
    BY <1>3, <2>1 DEF IInv, TypeOK, Ages, Copy, At
  <2>3. Order' /\ SaveHolds'
    BY <1>3, <2>1 DEF IInv, TypeOK, Ages, Order, SaveHolds, Saving, Copy, At
  <2>. QED  BY <1>1, <2>2, <2>3 DEF IInv
<1>4. CASE Open(p) \/ Truncate(p)
  <2>1. Saving' = Saving /\ p \in Saving
    BY <1>4 DEF IInv, TypeOK, Saving, Open, Truncate, At
  <2>2. TypeOK' /\ Ages'
    BY <1>4, <2>1, ShmAssumption
    DEF IInv, TypeOK, Ages, Open, Truncate, At, ShmAssumption
  <2>3. Order' /\ SaveHolds'
    BY <1>4, <2>1 DEF IInv, TypeOK, Order, SaveHolds, Open, Truncate, At
  <2>. QED  BY <1>1, <2>2, <2>3 DEF IInv
<1>5. CASE Write(p)
  <2>1. Saving' = Saving \ {p} /\ p \in Saving
    BY <1>5 DEF IInv, TypeOK, Saving, Write, At
  <2>2. TypeOK' /\ Ages'
    BY <1>5, <2>1, ShmAssumption DEF IInv, TypeOK, Ages, Write, At, ShmAssumption
  <2>3. p \in alone => Saving = {p}
    BY DEF IInv, Order
  <2>4. Order' /\ SaveHolds'
    BY <1>5, <2>1, <2>3 DEF IInv, TypeOK, Order, SaveHolds, Saving, Write, At
  <2>. QED  BY <1>1, <2>2, <2>4 DEF IInv
<1>. QED  BY <1>2, <1>3, <1>4, <1>5

(* Write-back, deaths and power losses.                                     *)
LEMMA FaultKeeps ==
  ASSUME IInv, Flush \/ PowerLoss \/ \E p \in Procs : Die(p)
  PROVE  IInv'
<1>1. CASE Flush
  BY <1>1 DEF IInv, TypeOK, Ages, Filling, Order, SaveHolds, Saving, Flush
<1>2. CASE PowerLoss
  <2>1. Saving' = {}
    BY <1>2 DEF Saving, PowerLoss
  <2>2. TypeOK' /\ Ages'
    BY <1>2, <2>1, ShmAssumption DEF IInv, TypeOK, Ages, PowerLoss, ShmAssumption
  <2>. QED
    BY <1>2, <2>2 DEF IInv, TypeOK, Filling, Order, SaveHolds, PowerLoss
<1>3. ASSUME NEW p \in Procs, Die(p) PROVE IInv'
  <2>1. Saving' = Saving \ {p}
    BY <1>3 DEF IInv, TypeOK, Saving, Die
  <2>2. TypeOK' /\ Ages'
    BY <1>3, <2>1, ShmAssumption DEF IInv, TypeOK, Ages, Die, ShmAssumption
  <2>3. Filling' /\ SaveHolds'
    BY <1>3 DEF IInv, TypeOK, Filling, SaveHolds, Die
  <2>4. Order'
    BY <1>3, <2>1 DEF IInv, TypeOK, Order, Saving, Die
  <2>. QED  BY <2>2, <2>3, <2>4 DEF IInv
<1>. QED  BY <1>1, <1>2, <1>3

LEMMA NextIInv == IInv /\ [Next]_vars => IInv'
<1>. SUFFICES ASSUME IInv, [Next]_vars PROVE IInv'
  OBVIOUS
<1>1. CASE UNCHANGED vars
  BY <1>1 DEF IInv, TypeOK, Ages, Filling, Order, SaveHolds, Saving, vars
<1>2. CASE Next
  BY <1>2, ArrivalKeeps, FillingKeeps, SavingKeeps, FaultKeeps DEF Next, Step
<1>. QED  BY <1>1, <1>2

(* The inductive invariant: ranges, one filler, saves in order.             *)
THEOREM StoreInvariant == Spec => []IInv
BY InitIInv, NextIInv, PTL DEF Spec

(* Every variable keeps its range.                                          *)
THEOREM TypeCorrect == Spec => []TypeOK
<1>1. IInv => TypeOK
  BY DEF IInv
<1>. QED  BY <1>1, StoreInvariant, PTL

(* A save is undone only by one that overlaps it, or by a process that used *)
(* the segment before it was filled (tinz_pub_shm.c 288-313).               *)
THEOREM SavesHold == Spec => []SaveHolds
<1>1. IInv => SaveHolds
  BY DEF IInv
<1>. QED  BY <1>1, StoreInvariant, PTL

(* Nobody loads the file over a change: in a filled segment nobody is left  *)
(* to fill it, and a change is newer than all there is (tinz_pub_shm.c      *)
(* 59-63).                                                                  *)
THEOREM NeverGoesBack == Spec => NeverBack
<1>1. ASSUME IInv, Next, stage = "filled", stage' = "filled"
      PROVE  seg' >= seg
  <2>1. seg \in Int /\ seg >= seg
    BY <1>1 DEF IInv, TypeOK
  <2>2. ASSUME NEW p \in Procs, Load(p) \/ Default(p) PROVE FALSE
    BY <1>1, <2>2 DEF IInv, TypeOK, Filling, Load, Default, At
  <2>3. ASSUME NEW p \in Procs, Change(p) PROVE seg' >= seg
    BY <1>1, <2>3 DEF IInv, TypeOK, Ages, Change
  <2>4. ASSUME NEW p \in Procs, Make(p) PROVE FALSE
    BY <1>1, <2>4 DEF Make
  <2>. QED
    BY <1>1, <2>1, <2>2, <2>3, <2>4
    DEF Next, Step, Start, Attach, NotFound, Late, Copy, Open, Truncate, Write,
        Flush, Die, PowerLoss
<1>2. IInv /\ [Next]_vars => [stage = "filled" /\ stage' = "filled" => seg' >= seg]_vars
  BY <1>1
<1>. QED  BY <1>2, StoreInvariant, PTL DEF Spec, NeverBack
=============================================================================
