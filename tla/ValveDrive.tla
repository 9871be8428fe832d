----------------------------- MODULE ValveDrive -----------------------------
(***************************************************************************)
(* One drive of the valve: Valve_control_DA_mode and                       *)
(* Valve_control_IO_mode of ValveControl, step by step, with the outputs   *)
(* they write and the valve that moves meanwhile.  Module Valve takes a    *)
(* whole drive as its action Move.                                         *)
(*                                                                         *)
(* The analog drive writes the target to the DAC and waits until the       *)
(* measured opening is in place, has crossed the target, or has stalled;   *)
(* a faulty reading ends it at once.  The switch drive energises a coil    *)
(* and waits for the first two.  Both give up after Samples samples.       *)
(* ValveControl may die at any step; the outputs keep their levels then,   *)
(* for neither GPIO nor DAC is written when the program starts.            *)
(*                                                                         *)
(* The operator switches between the two outputs (OutMode) at any time, so *)
(* a drive may be of either kind; the direction, too, is arbitrary,        *)
(* because it comes from a comparison made before the target was read.     *)
(***************************************************************************)
EXTENDS ValveMath, Sequences

CONSTANTS
  Positions,   \* openings the valve can be at
  Targets,     \* openings asked for
  Moves,       \* how far the valve may get between two samples
  Samples      \* cnt: samples taken before a drive is given up

ASSUME DriveAssumption ==
  /\ Positions \subseteq 0..100
  /\ Targets \subseteq Byte
  /\ Moves \subseteq 0..100
  /\ Samples \in Nat \ {0}

Kinds == {"DA", "IO"}
Pins  == {"open", "close", "common"}
Window == 7    \* readings remembered, one more than a stall takes

VARIABLES
  pc,                \* where ValveControl is
  kind,              \* which of the two functions it is in
  per, zeroes,       \* their arguments; zeroes = 1 opens
  cnt, per_stop, per_current, per_current_last,    \* their locals
  wr,                \* the next of the three GPIO writes of a Set or a stop
  per_measure,       \* stValveControl.per_measure
  ValveState,        \* stData.state.ValveState
  coils,             \* GPIO outputs that are energised
  dac,               \* what the DAC holds; 0 drives nothing
  pos,               \* the valve's opening
  why,               \* history: how the loop ended
  start,             \* history: the opening when the drive began
  faulty,            \* history: a reading of this drive was faulty
  recent,            \* history: the last readings of an analog drive
  cut                \* history: kinds of drive whose outputs were left on

locals == <<kind, per, zeroes, cnt, per_stop, per_current, per_current_last>>
hist   == <<why, start, faulty, recent>>
vars   == <<pc, locals, wr, per_measure, ValveState, coils, dac, pos, hist, cut>>

-----------------------------------------------------------------------------
(* The valve.  An energised coil or a DAC count pulls it one way; how far   *)
(* it gets between two samples is open, and it may be stuck.                *)

DacGoal == AdValueToPer(LoopCount(dac))
PulledUp   == {"open", "common"} \subseteq coils \/ (dac # 0 /\ DacGoal > pos)
PulledDown == {"close", "common"} \subseteq coils \/ (dac # 0 /\ DacGoal < pos)

Reached ==
  {p \in Positions : \/ p = pos
                     \/ PulledUp /\ p > pos /\ p - pos \in Moves
                     \/ PulledDown /\ p < pos /\ pos - p \in Moves}

(* GetPerValue: the opening, or the fault value.                            *)
Readings(p) == {p, Fault}
StateAfter(c) == IF c = Fault THEN 1 ELSE ValveState

Init ==
  /\ pc = "idle" /\ kind = "DA" /\ per = 0 /\ zeroes = 0
  /\ cnt = 0 /\ per_stop = 0 /\ per_current = 0 /\ per_current_last = 0
  /\ wr = 1
  /\ per_measure = 0
  /\ ValveState = 0
  /\ coils = {} /\ dac = 0
  /\ pos \in Positions
  /\ why = "none" /\ start = pos /\ faulty = FALSE /\ recent = <<>>
  /\ cut = {}

-----------------------------------------------------------------------------
(* The beginning of a drive: the analog one writes the DAC, the switch one  *)
(* starts its three GPIO writes.                                            *)

Begin(k, p, z) ==
  /\ pc = "idle"
  /\ kind' = k /\ per' = p /\ zeroes' = z
  /\ cnt' = Samples /\ per_stop' = 0
  /\ per_current' = 0 /\ per_current_last' = 0
  /\ IF k = "DA" THEN pc' = "sample" /\ dac' = DacWord(p)
                 ELSE pc' = "set" /\ dac' = dac
  /\ wr' = 1
  /\ why' = "none" /\ start' = pos /\ faulty' = FALSE /\ recent' = <<>>
  /\ UNCHANGED <<per_measure, ValveState, coils, pos, cut>>

(* Valve_Open_Set, Valve_Close_Set and Valve_Control_stop, as the pins they *)
(* write and whether the pin is energised (a cleared GPIO energises).       *)
Off(pin) == [pin |-> pin, on |-> FALSE]
On(pin)  == [pin |-> pin, on |-> TRUE]
(* Mutant of OpenSet: the other coil is released last.                      *)
OpenSetLate == <<On("open"), On("common"), Off("close")>>
OpenSet  == <<Off("close"), On("open"), On("common")>>
CloseSet == <<Off("open"), On("close"), On("common")>>
StopSet  == <<Off("close"), Off("open"), Off("common")>>

Writes == IF pc = "stop" THEN StopSet
          ELSE IF zeroes = 1 THEN OpenSet ELSE CloseSet

(* One GPIO write.                                                          *)
WritePin ==
  /\ kind = "IO" /\ pc \in {"set", "stop"}
  /\ coils' = IF Writes[wr].on THEN coils \cup {Writes[wr].pin}
                               ELSE coils \ {Writes[wr].pin}
  /\ IF wr < 3
       THEN wr' = wr + 1 /\ pc' = pc
       ELSE wr' = 1 /\ pc' = IF pc = "set" THEN "sample" ELSE "measure"
  /\ cut' = IF pc = "stop" /\ wr = 3 THEN cut \ {"IO"} ELSE cut
  /\ UNCHANGED <<locals, per_measure, ValveState, dac, pos, hist>>

-----------------------------------------------------------------------------
(* The loops.  A sample is the pause and the three conversions: the valve   *)
(* moves, then its opening is read.                                         *)

Sample(p, c) ==
  /\ pc = "sample" /\ cnt > 0
  /\ cnt' = cnt - 1
  /\ pos' = p
  /\ per_current' = c
  /\ ValveState' = StateAfter(c)
  /\ faulty' = (faulty \/ c = Fault)
  /\ recent' = IF kind = "IO" THEN recent
               ELSE IF Len(recent) < Window THEN Append(recent, c)
               ELSE Append(Tail(recent), c)
  /\ UNCHANGED <<kind, per, zeroes, wr, per_measure, coils, dac, start, cut>>

InPlace(c) == AbsDiff(per, c) <= 3
(* Mutant of Crossed: the two directions are swapped.                       *)
CrossedSwapped(c) == IF zeroes = 1 THEN per >= c ELSE per <= c
Crossed(c) == IF zeroes = 1 THEN per <= c ELSE per >= c
Still(c)   == AbsDiff(c, per_current_last) <= 2

Leave(reason) == pc' = "stop" /\ why' = reason
Stay == pc' = pc /\ UNCHANGED why
SameStall == UNCHANGED <<per_stop, per_current_last>>

Arrive(p, c) ==
  /\ kind = "DA" => c <= 100
  /\ InPlace(c) \/ Crossed(c)
  /\ Sample(p, c)
  /\ Leave("arrived") /\ SameStall

GoOn(p, c) ==
  /\ kind = "IO"
  /\ ~InPlace(c) /\ ~Crossed(c)
  /\ Sample(p, c)
  /\ Stay /\ SameStall

NoProgress(p, c) ==
  /\ kind = "DA" /\ c <= 100
  /\ ~InPlace(c) /\ ~Crossed(c) /\ Still(c)
  /\ Sample(p, c)
  /\ per_stop' = per_stop + 1 /\ UNCHANGED per_current_last
  /\ IF per_stop' > 5 THEN Leave("stalled") ELSE Stay

(* Mutant of Progress: the reference opening is not moved along.            *)
ProgressFixed(p, c) ==
  /\ kind = "DA" /\ c <= 100
  /\ ~InPlace(c) /\ ~Crossed(c) /\ ~Still(c)
  /\ Sample(p, c)
  /\ per_stop' = 0 /\ UNCHANGED per_current_last
  /\ Stay

(* Mutant of Progress: the count of still samples is not reset.             *)
ProgressCounted(p, c) ==
  /\ kind = "DA" /\ c <= 100
  /\ ~InPlace(c) /\ ~Crossed(c) /\ ~Still(c)
  /\ Sample(p, c)
  /\ per_current_last' = c /\ UNCHANGED per_stop
  /\ Stay

Progress(p, c) ==
  /\ kind = "DA" /\ c <= 100
  /\ ~InPlace(c) /\ ~Crossed(c) /\ ~Still(c)
  /\ Sample(p, c)
  /\ per_stop' = 0 /\ per_current_last' = c
  /\ Stay

(* A faulty reading ends the analog drive where it stands.                  *)
Faulted(p, c) ==
  /\ kind = "DA" /\ c > 100
  /\ Sample(p, c)
  /\ pc' = "faulted" /\ UNCHANGED why /\ SameStall

(* The switch drive's own test for a fault, ValveState = 2, is left out:    *)
(* GetPerValue stores 1, and nothing stores 2 (see FaultStopsDrive).        *)
Loop == \E p \in Reached : \E c \in Readings(p) :
          \/ Arrive(p, c) \/ GoOn(p, c)
          \/ NoProgress(p, c) \/ Progress(p, c) \/ Faulted(p, c)

(* Mutant of TimeOut: the loop has no limit.                                *)
TimeOutNever == pc = "sample" /\ cnt = 0 /\ cnt' = Samples
                /\ UNCHANGED <<pc, kind, per, zeroes, per_stop, per_current,
                     per_current_last, wr, per_measure, ValveState, coils, dac,
                     pos, hist, cut>>

TimeOut ==
  /\ pc = "sample" /\ cnt = 0
  /\ Leave("timeout")
  /\ UNCHANGED <<locals, wr, per_measure, ValveState, coils, dac, pos, start,
                 faulty, recent, cut>>

-----------------------------------------------------------------------------
(* The end of a drive.                                                      *)

(* The locals go out of scope.                                              *)
Forget ==
  /\ pc' = "idle" /\ kind' = "DA" /\ per' = 0 /\ zeroes' = 0
  /\ cnt' = 0 /\ per_stop' = 0 /\ per_current' = 0 /\ per_current_last' = 0
  /\ wr' = 1
  /\ why' = "none" /\ start' = pos /\ faulty' = FALSE /\ recent' = <<>>

(* Mutant of StopDac: the count is left in the DAC.                         *)
StopDacKeeps ==
  /\ kind = "DA" /\ pc = "stop"
  /\ pc' = "measure" /\ cut' = cut \ {"DA"}
  /\ UNCHANGED <<locals, wr, per_measure, ValveState, coils, dac, pos, hist>>

StopDac ==
  /\ kind = "DA" /\ pc = "stop"
  /\ dac' = 0 /\ pc' = "measure" /\ cut' = cut \ {"DA"}
  /\ UNCHANGED <<locals, wr, per_measure, ValveState, coils, pos, hist>>

Measure(c) ==
  /\ pc = "measure"
  /\ per_measure' = c
  /\ ValveState' = StateAfter(c)
  /\ Forget
  /\ UNCHANGED <<coils, dac, pos, cut>>

(* Neither the DAC nor per_measure is written after a fault.                *)
FaultReturn ==
  /\ pc = "faulted"
  /\ cut' = cut \cup {"DA"}
  /\ Forget
  /\ UNCHANGED <<per_measure, ValveState, coils, dac, pos>>

(* ValveControl dies and the watchdog starts it again.                      *)
Die ==
  /\ pc # "idle"
  /\ cut' = IF pc = "measure" THEN cut ELSE cut \cup {kind}
  /\ Forget
  /\ UNCHANGED <<per_measure, ValveState, coils, dac, pos>>

(* Between two drives the valve may be anywhere: moved by hand, or by an    *)
(* output that was left on.                                                 *)
Drift(p) ==
  /\ pc = "idle" /\ p # pos
  /\ pos' = p /\ start' = p
  /\ UNCHANGED <<pc, locals, wr, per_measure, ValveState, coils, dac, why,
                 faulty, recent, cut>>

Drive == Loop \/ TimeOut \/ WritePin \/ StopDac \/ FaultReturn
         \/ \E c \in Readings(pos) : Measure(c)

Next ==
  \/ \E k \in Kinds, p \in Targets, z \in {0, 1} : Begin(k, p, z)
  \/ Drive
  \/ Die
  \/ \E p \in Positions : Drift(p)

Spec     == Init /\ [][Next]_vars
FairSpec == Init /\ [][Next]_vars /\ WF_vars(Drive)

-----------------------------------------------------------------------------
TypeOK ==
  /\ pc \in {"idle", "set", "sample", "stop", "measure", "faulted"}
  /\ kind \in Kinds
  /\ per \in Byte /\ zeroes \in {0, 1}
  /\ cnt \in 0..Samples /\ per_stop \in 0..6
  /\ per_current \in Byte /\ per_current_last \in Byte
  /\ wr \in 1..3
  /\ per_measure \in Byte
  /\ ValveState \in {0, 1}
  /\ coils \subseteq Pins
  /\ dac \in DacCount
  /\ pos \in Positions /\ start \in Positions
  /\ why \in {"none", "arrived", "stalled", "timeout"}
  /\ faulty \in BOOLEAN
  /\ recent \in Seq(Byte)
  /\ cut \subseteq Kinds

(* The motor is never told to open and to close at once, whatever a drive   *)
(* that was cut short left energised (ValveControl.c 63-90).                *)
Interlock == ~({"open", "close"} \subseteq coils)

(* An output that is on between two drives was left on by a drive of its    *)
(* own kind that a death or a fault cut short, and the next drive of that   *)
(* kind that ends turns it off (ValveControl.c 137-140, 165, 196).          *)
OutputsOffAtRest ==
  pc = "idle" => /\ dac # 0 => "DA" \in cut
                 /\ coils # {} => "IO" \in cut

(* While its readings are good a drive passes the edge of the tolerance     *)
(* (or the point it started from) by no more than the valve moves between   *)
(* two samples (ValveControl.c 141-147, 184-193).                           *)
NoOvershoot ==
  pc # "idle" /\ ~faulty =>
    \E m \in Moves \cup {0} :
      IF zeroes = 1 THEN pos <= start + m \/ pos + 4 <= per + m
                    ELSE start <= pos + m \/ per + 4 <= pos + m

(* A stall is only declared of a valve whose last six readings lie within 4 *)
(* of each other (ValveControl.c 149-162, where the comment says 2), so a   *)
(* valve that moves on is never given up.                                   *)
StallIsReal ==
  why = "stalled" =>
    \A i, j \in 1..Len(recent) :
      i > Len(recent) - 6 /\ j > Len(recent) - 6
        => AbsDiff(recent[i], recent[j]) <= 4

(* A valve that stopped moving is noticed: no analog drive goes on after    *)
(* seven equal readings (ValveControl.c 149-162).                           *)
StuckNoticed ==
  pc = "sample" /\ Len(recent) = Window
    => \E i \in 1..Window : recent[i] # recent[1]

(* While an analog drive waits, the opening its DAC stands for, seen        *)
(* through both converters and their truncations, is within 1 of the        *)
(* target (TLC5615.c 59-69, AD7705.c 79-99): an obedient valve gets in      *)
(* place, well inside the tolerance of 3.                                   *)
SetpointHeld ==
  kind = "DA" /\ pc = "sample" /\ per <= 100 => AbsDiff(DacGoal, per) <= 1

(* Every drive comes to an end (the loops' cnt, ValveControl.c 130-134 and  *)
(* 174-177), however slow, stuck or faulty the valve.                       *)
DriveEnds == pc # "idle" ~> pc = "idle"

(* The comment at ValveControl.c 180, "valve detection abnormal", on the    *)
(* test that leaves the switch drive: a drive goes on after no faulty       *)
(* reading.                                                                 *)
FaultStopsDrive ==
  [][pc = "sample" /\ pc' = "sample" => per_current' <= 100]_vars
=============================================================================
