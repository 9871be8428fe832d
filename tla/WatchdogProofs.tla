--------------------------- MODULE WatchdogProofs ---------------------------
(* Theorems about Watchdog, for any set of programs and any bounds.         *)
EXTENDS Watchdog, TLAPS

(* What a predecessor left is gone before anything is started.              *)
Cleared ==
  /\ orphans # {} => pc = "kill"
  /\ pc \in {"kill", "off"} => pid = [p \in Progs |-> "none"]

(* The loop rests once a reboot is wanted, so reb_count stops there.        *)
Rebooting ==
  /\ rebootflag => pc = "sleep"
  /\ ~rebootflag => reb_count <= MaxReb

IInv == TypeOK /\ Cleared /\ Rebooting

LEMMA Bounds ==
  /\ MaxRuns \in Nat /\ MaxPppd \in Nat /\ MaxReb \in Nat /\ Timeout \in Nat
  /\ MaxPppd > 0 /\ ScanEvery \in Nat /\ ScanEvery > 0
<1>1. ASSUME NEW n \in {MaxRuns, MaxPppd, MaxReb, Timeout, ScanEvery}
      PROVE  n \in Nat \ {0}
  BY <1>1, WatchdogAssumption DEF WatchdogAssumption
<1>. QED  BY <1>1

LEMMA InitIInv == Init => IInv
<1>. SUFFICES ASSUME Init PROVE IInv
  OBVIOUS
<1>1. pid \in [Progs -> {"none", "alive", "dead"}]
  BY DEF Init
<1>2. runs \in 0..MaxRuns /\ count \in 0..(ScanEvery - 1) /\ hungry \in 0..Timeout
  BY Bounds DEF Init
<1>3. pppdcount \in 0..MaxPppd /\ reb_count \in 0..(MaxReb + 1) /\ reb_count <= MaxReb
  BY Bounds DEF Init
<1>. QED  BY <1>1, <1>2, <1>3 DEF Init, IInv, TypeOK, Cleared, Rebooting

LEMMA ModFact ==
  \A n \in Nat : (n + 1) % ScanEvery \in 0..(ScanEvery - 1)
BY Bounds

LEMMA StartKeeps ==
  ASSUME IInv, KillProgs \/ (\E p \in Progs : Start(p)) \/ Reap \/ OpenProc \/ Sleep
  PROVE  IInv'
<1>1. CASE KillProgs
  BY <1>1 DEF IInv, TypeOK, Cleared, Rebooting, KillProgs, world, scan
<1>2. ASSUME NEW p \in Progs, Start(p) PROVE IInv'
  <2>1. pid' \in [Progs -> {"none", "alive", "dead"}] /\ runs' \in 0..MaxRuns
    BY <1>2, Bounds DEF IInv, TypeOK, Start
  <2>2. pc = "check" /\ pc' = pc /\ todo' \subseteq Progs
    BY <1>2 DEF IInv, TypeOK, Start
  <2>. QED
    BY <1>2, <2>1, <2>2
    DEF IInv, TypeOK, Cleared, Rebooting, Start, world, scan
<1>3. CASE Reap
  <2>1. count' \in 0..(ScanEvery - 1)
    BY <1>3, ModFact DEF IInv, TypeOK, Reap
  <2>2. pid' \in [Progs -> {"none", "alive", "dead"}]
    BY <1>3 DEF IInv, TypeOK, Reap
  <2>. QED
    BY <1>3, <2>1, <2>2
    DEF IInv, TypeOK, Cleared, Rebooting, Reap, world, scan
<1>4. CASE OpenProc
  BY <1>4 DEF IInv, TypeOK, Cleared, Rebooting, OpenProc, world, scan
<1>5. CASE Sleep
  BY <1>5 DEF IInv, TypeOK, Cleared, Rebooting, Sleep, world, scan
<1>. QED  BY <1>1, <1>2, <1>3, <1>4, <1>5

LEMMA ScanKeeps ==
  ASSUME IInv, NEW z, NEW s \in BOOLEAN, CheckZombieProc(z, s)
  PROVE  IInv'
<1>1. pppdcount' \in 0..MaxPppd /\ pppdid' \in Pppds \cup {NoPid}
  BY Bounds DEF IInv, TypeOK, CheckZombieProc
<1>2. /\ reb_count' \in 0..(MaxReb + 1) /\ rebootflag' \in BOOLEAN
      /\ ~rebootflag' => reb_count' <= MaxReb
  <2>1. pc = "scan" /\ ~rebootflag /\ reb_count \in 0..MaxReb
    BY Bounds DEF IInv, TypeOK, Rebooting, CheckZombieProc
  <2>2. reb_count' = reb_count + 1 \/ reb_count' = 0
    BY DEF CheckZombieProc
  <2>3. rebootflag' = IF reb_count' > MaxReb THEN TRUE ELSE rebootflag
    BY DEF CheckZombieProc
  <2>4. reb_count' \in 0..(MaxReb + 1)
    BY <2>1, <2>2, Bounds
  <2>5. rebootflag' \in BOOLEAN /\ (~rebootflag' => reb_count' <= MaxReb)
    <3>1. CASE reb_count' > MaxReb
      BY <2>3, <3>1
    <3>2. CASE ~(reb_count' > MaxReb)
      <4>1. reb_count' <= MaxReb
        BY <2>4, <3>2, Bounds
      <4>2. rebootflag' = rebootflag
        BY <2>3, <3>2
      <4>. QED  BY <4>1, <4>2 DEF IInv, TypeOK
    <3>. QED  BY <3>1, <3>2
  <2>. QED  BY <2>4, <2>5
<1>. QED
  BY <1>1, <1>2 DEF IInv, TypeOK, Cleared, Rebooting, CheckZombieProc, world

LEMMA SecondKeeps == ASSUME IInv, Second PROVE IInv'
<1>1. hungry' \in 0..Timeout
  BY Bounds DEF IInv, TypeOK, Second
<1>2. fd0' \in {"stdin", "closed", "dir"} /\ broken' \in BOOLEAN
  BY DEF IInv, TypeOK, Second
<1>. QED
  BY <1>1, <1>2 DEF IInv, TypeOK, Cleared, Rebooting, Second, world, scan

LEMMA ResetKeeps == ASSUME IInv, Reset \/ Boot PROVE IInv'
<1>1. CASE Reset
  <2>1. pid' \in [Progs -> {"none", "alive", "dead"}]
    BY <1>1 DEF Reset
  <2>2. /\ runs' \in 0..MaxRuns /\ count' \in 0..(ScanEvery - 1)
        /\ hungry' \in 0..Timeout
    BY <1>1, Bounds DEF Reset
  <2>3. /\ pppdcount' \in 0..MaxPppd /\ reb_count' \in 0..(MaxReb + 1)
        /\ reb_count' <= MaxReb
    BY <1>1, Bounds DEF Reset
  <2>. QED
    BY <1>1, <2>1, <2>2, <2>3 DEF IInv, TypeOK, Cleared, Rebooting, Reset
<1>2. CASE Boot
  BY <1>2 DEF IInv, TypeOK, Cleared, Rebooting, Boot, world, scan
<1>. QED  BY <1>1, <1>2

LEMMA WorldKeeps ==
  ASSUME IInv, (\E p \in Progs : Die(p)) \/
               (\E n \in 0..1, id \in Pppds \cup {NoPid} : Zombies(n, id))
  PROVE  IInv'
<1>1. ASSUME NEW p \in Progs, Die(p) PROVE IInv'
  BY <1>1 DEF IInv, TypeOK, Cleared, Rebooting, Die, world, scan
<1>2. ASSUME NEW n \in 0..1, NEW id \in Pppds \cup {NoPid}, Zombies(n, id)
      PROVE  IInv'
  BY <1>2 DEF IInv, TypeOK, Cleared, Rebooting, Zombies, world, scan
<1>. QED  BY <1>1, <1>2

LEMMA NextIInv == IInv /\ [Next]_vars => IInv'
<1>. SUFFICES ASSUME IInv, [Next]_vars PROVE IInv'
  OBVIOUS
<1>1. CASE UNCHANGED vars
  BY <1>1 DEF IInv, TypeOK, Cleared, Rebooting, vars, world, scan
<1>2. CASE Next
  BY <1>2, StartKeeps, ScanKeeps, SecondKeeps, ResetKeeps, WorldKeeps
  DEF Next, Main
<1>. QED  BY <1>1, <1>2

THEOREM WatchInvariant == Spec => []IInv
BY InitIInv, NextIInv, PTL DEF Spec

(* Every variable keeps its range: reb_count stops where the reboot begins. *)
THEOREM TypeCorrect == Spec => []TypeOK
<1>1. IInv => TypeOK
  BY DEF IInv
<1>. QED  BY <1>1, WatchInvariant, PTL

(* No program runs twice: what a former watchdog left running is killed     *)
(* before the first start (watchdog.c 94, 284-297).                         *)
THEOREM NoneTwice == Spec => []SingleInstance
<1>1. IInv => SingleInstance
  BY DEF IInv, TypeOK, Cleared, SingleInstance
<1>. QED  BY <1>1, WatchInvariant, PTL
=============================================================================
