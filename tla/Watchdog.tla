------------------------------ MODULE Watchdog ------------------------------
(***************************************************************************)
(* The watchdog process.  Its main loop starts every program that does not  *)
(* run, reaps what died, and every tenth time counts the zombies in /proc;  *)
(* a SIGALRM handler feeds the hardware watchdog every second, as long as   *)
(* fewer than 100 starts were made in all.  The handler interrupts the main *)
(* loop anywhere, and closes descriptor 0 each time, whatever that is by    *)
(* then: once standard input is gone, it is the directory being scanned.    *)
(***************************************************************************)
EXTENDS Integers, FiniteSets

CONSTANTS
  Progs,      \* the programs to watch
  Pppds,      \* process ids of pppd
  MaxRuns,    \* starts after which the hardware is not fed: 100
  MaxZombies, \* zombies that count as too many: 2
  MaxPppd,    \* scans that find the same dead pppd: 9
  MaxReb,     \* scans in a row that find too many: 20
  ScanEvery,  \* loops per scan: 10
  Timeout     \* seconds the hardware waits to be fed

ASSUME WatchdogAssumption ==
  /\ IsFiniteSet(Progs)
  /\ {MaxRuns, MaxZombies, MaxPppd, MaxReb, ScanEvery, Timeout} \subseteq Nat \ {0}

NoPid == 0
ASSUME PidAssumption == Pppds \subseteq Nat \ {NoPid}

VARIABLES
  pc,               \* where main is; "off" while the device resets
  todo,             \* programs CheckProgs has still to look at
  orphans,          \* programs a former watchdog left running
  pid,              \* each program: "none", "alive", or "dead", not reaped
  runs,             \* the sum of runTimes
  count,            \* loops since the last scan
  strays, pppd,     \* other zombies, and pppd if it is one
  fd0,              \* "stdin", "closed", or "dir" during a scan
  broken,           \* the directory was closed during the scan
  pppdid, pppdcount, reb_count, rebootflag,
  hungry            \* seconds since the hardware was fed

world == <<strays, pppd>>
scan  == <<pppdid, pppdcount, reb_count, rebootflag>>
vars  == <<pc, todo, orphans, pid, runs, count, world, fd0, broken, scan, hungry>>

Init ==
  /\ pc = "kill" /\ todo = {} /\ orphans \in SUBSET Progs
  /\ pid = [p \in Progs |-> "none"] /\ runs = 0 /\ count = 0
  /\ strays = 0 /\ pppd = NoPid /\ fd0 = "stdin" /\ broken = FALSE
  /\ pppdid = NoPid /\ pppdcount = 0 /\ reb_count = 0 /\ rebootflag = FALSE
  /\ hungry = 0

-----------------------------------------------------------------------------
Dead == {p \in Progs : pid[p] = "dead"}

(* Mutant of KillProgs: only the programs it started itself.                *)
KillOwn ==
  /\ pc = "kill" /\ pc' = "check" /\ todo' = Progs
  /\ UNCHANGED <<orphans, pid, runs, count, world, fd0, broken, scan, hungry>>

KillProgs ==
  /\ pc = "kill" /\ pc' = "check" /\ todo' = Progs
  /\ orphans' = {}
  /\ UNCHANGED <<pid, runs, count, world, fd0, broken, scan, hungry>>

(* Mutant of Start: only successful starts are counted.                     *)
StartCounted(p) ==
  /\ pc = "check" /\ p \in todo
  /\ todo' = todo \ {p}
  /\ pid' \in {pid} \cup {[pid EXCEPT ![p] = "alive"] : q \in {p} \ Dead}
  /\ runs' = IF pid' # pid /\ runs < MaxRuns THEN runs + 1 ELSE runs
  /\ UNCHANGED <<pc, orphans, count, world, fd0, broken, scan, hungry>>

(* A failed fork is counted, too.  runs stops at MaxRuns, past which        *)
(* nothing tells the sums apart.                                            *)
Start(p) ==
  /\ pc = "check" /\ p \in todo
  /\ todo' = todo \ {p}
  /\ \/ /\ pid[p] = "none"
        /\ pid' \in {pid, [pid EXCEPT ![p] = "alive"]}
        /\ runs' = IF runs < MaxRuns THEN runs + 1 ELSE runs
     \/ pid[p] # "none" /\ UNCHANGED <<pid, runs>>
  /\ UNCHANGED <<pc, orphans, count, world, fd0, broken, scan, hungry>>

Reap ==
  /\ pc = "check" /\ todo = {}
  /\ pid' = [p \in Progs |-> IF pid[p] = "dead" THEN "none" ELSE pid[p]]
  /\ count' = (count + 1) % ScanEvery
  /\ pc' = IF count' = 0 THEN "open" ELSE "sleep"
  /\ UNCHANGED <<todo, orphans, runs, world, fd0, broken, scan, hungry>>

(* opendir takes the lowest free descriptor.                                *)
OpenProc ==
  /\ pc = "open" /\ pc' = "scan"
  /\ fd0' = IF fd0 = "closed" THEN "dir" ELSE fd0
  /\ broken' = FALSE
  /\ UNCHANGED <<todo, orphans, pid, runs, count, world, scan, hungry>>

AllZombies == Cardinality(Dead) + strays + (IF pppd # NoPid THEN 1 ELSE 0)

(* What a scan counts: everything, or what it read before its directory was *)
(* closed.                                                                  *)
Found(z, seesPppd) ==
  /\ z <= AllZombies
  /\ seesPppd => pppd # NoPid /\ z > 0
  /\ ~broken => z = AllZombies /\ (pppd # NoPid => seesPppd)

(* Mutant of Many: more than the bounds.                                    *)
ManyMore(z, c) == z > MaxZombies \/ c > MaxPppd

Many(z, c) == z >= MaxZombies \/ c >= MaxPppd

CheckZombieProc(z, seesPppd) ==
  /\ pc = "scan" /\ Found(z, seesPppd)
  /\ IF seesPppd
       THEN /\ pppdid' = pppd
            /\ pppdcount' = IF pppdid # pppd THEN 1
                            ELSE IF pppdcount < MaxPppd THEN pppdcount + 1
                            ELSE pppdcount
       ELSE UNCHANGED <<pppdid, pppdcount>>
  /\ reb_count' = IF Many(z, pppdcount') THEN reb_count + 1 ELSE 0
  /\ rebootflag' = IF reb_count' > MaxReb THEN TRUE ELSE rebootflag
  /\ fd0' = IF fd0 = "dir" THEN "closed" ELSE fd0
  /\ broken' = FALSE
  /\ pc' = "sleep"
  /\ UNCHANGED <<todo, orphans, pid, runs, count, world, hungry>>

(* With rebootflag set the loop only sleeps.                                *)
Sleep ==
  /\ pc = "sleep" /\ ~rebootflag
  /\ pc' = "check" /\ todo' = Progs
  /\ UNCHANGED <<orphans, pid, runs, count, world, fd0, broken, scan, hungry>>

Main == \/ KillProgs \/ (\E p \in Progs : Start(p)) \/ Reap \/ OpenProc
        \/ (\E z \in 0..AllZombies, s \in BOOLEAN : CheckZombieProc(z, s))
        \/ Sleep

-----------------------------------------------------------------------------
(* Mutant of Second: the hardware is fed whatever happens.                  *)
SecondFeeds ==
  /\ pc # "off" /\ fd0 # "dir"
  /\ fd0' = "closed"
  /\ UNCHANGED <<pc, todo, orphans, pid, runs, count, world, broken, scan, hungry>>

(* A second passes: sigalrm_fn.  The lamp (and with it descriptor 0) is     *)
(* left alone for the first seconds and after rebootflag.                   *)
Second ==
  /\ pc # "off" /\ hungry < Timeout
  /\ hungry' = IF runs < MaxRuns THEN 0 ELSE hungry + 1
  /\ IF runs < MaxRuns /\ ~rebootflag /\ pc # "kill"
       THEN fd0' = "closed" /\ broken' = (broken \/ fd0 = "dir")
       ELSE UNCHANGED <<fd0, broken>>
  /\ UNCHANGED <<pc, todo, orphans, pid, runs, count, world, scan>>

(* The hardware's reset, or the command reboot; user.sh starts the watchdog.*)
Reset ==
  /\ pc # "off" /\ (hungry = Timeout \/ rebootflag)
  /\ pc' = "off" /\ todo' = {} /\ orphans' = {}
  /\ pid' = [p \in Progs |-> "none"] /\ runs' = 0 /\ count' = 0
  /\ strays' = 0 /\ pppd' = NoPid /\ fd0' = "stdin" /\ broken' = FALSE
  /\ pppdid' = NoPid /\ pppdcount' = 0 /\ reb_count' = 0 /\ rebootflag' = FALSE
  /\ hungry' = 0

Boot ==
  /\ pc = "off" /\ pc' = "kill"
  /\ UNCHANGED <<todo, orphans, pid, runs, count, world, fd0, broken, scan, hungry>>

(* The world: a program dies; zombies of others, pppd among them, appear    *)
(* and go.                                                                  *)
Die(p) ==
  /\ pc # "off" /\ pid[p] = "alive"
  /\ pid' = [pid EXCEPT ![p] = "dead"]
  /\ UNCHANGED <<pc, todo, orphans, runs, count, world, fd0, broken, scan, hungry>>

Zombies(n, id) ==
  /\ pc # "off" /\ <<n, id>> # world
  /\ strays' = n /\ pppd' = id
  /\ UNCHANGED <<pc, todo, orphans, pid, runs, count, fd0, broken, scan, hungry>>

Next ==
  \/ Main \/ Second \/ Reset \/ Boot
  \/ \E p \in Progs : Die(p)
  \/ \E n \in 0..1, id \in Pppds \cup {NoPid} : Zombies(n, id)

Spec == Init /\ [][Next]_vars

(* Time passes, main runs, and a reset that is due happens: the command     *)
(* reboot is trusted to work.                                               *)
FairSpec == Spec /\ WF_vars(Main) /\ WF_vars(Second) /\ WF_vars(Reset)
                 /\ WF_vars(Boot)

-----------------------------------------------------------------------------
TypeOK ==
  /\ pc \in {"kill", "check", "open", "scan", "sleep", "off"}
  /\ todo \subseteq Progs /\ orphans \subseteq Progs
  /\ pid \in [Progs -> {"none", "alive", "dead"}]
  /\ runs \in 0..MaxRuns /\ count \in 0..(ScanEvery - 1)
  /\ strays \in Nat /\ pppd \in Pppds \cup {NoPid}
  /\ fd0 \in {"stdin", "closed", "dir"} /\ broken \in BOOLEAN
  /\ pppdid \in Pppds \cup {NoPid} /\ pppdcount \in 0..MaxPppd
  /\ reb_count \in 0..(MaxReb + 1) /\ rebootflag \in BOOLEAN
  /\ hungry \in 0..Timeout

(* No program runs twice (watchdog.c 94, 284-297): two up_mains would send  *)
(* every report twice, two ValveControls would fight over the coils.        *)
SingleInstance == \A p \in orphans : pid[p] # "alive"

(* A dead program is started again, or the device resets (watchdog.c 104,   *)
(* 207-238, 345): with forks that fail as well, and while rebootflag keeps  *)
(* the loop from starting anything.                                         *)
DeadComesBack ==
  \A p \in Progs : pid[p] = "dead" ~> pid[p] = "alive" \/ pc = "off"

(* A program that dies again and again costs a reset (watchdog.c 216, 345). *)
CrashLoopResets ==
  \A p \in Progs : []<>(pid[p] = "dead") => []<>(pc = "off")

(* Zombies that stay bring a reset, if no scan is cut short.                *)
ZombiesReset ==
  <>[](strays + (IF pppd # NoPid THEN 1 ELSE 0) >= MaxZombies) /\ []~broken
    => <>(pc = "off")

=============================================================================
