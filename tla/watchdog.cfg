SPECIFICATION FairSpec
CONSTANTS
  Progs = {P, Q}
  Pppds <- MCPppds
  MaxRuns = 4
  MaxZombies = 2
  MaxPppd = 2
  MaxReb = 1
  ScanEvery = 2
  Timeout = 1
INVARIANTS SingleInstance
PROPERTIES DeadComesBack CrashLoopResets ZombiesReset
