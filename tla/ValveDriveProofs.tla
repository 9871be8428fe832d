-------------------------- MODULE ValveDriveProofs --------------------------
(* The outputs and the end position of a drive, for every set of positions, *)
(* targets and moves, and every number of samples.                          *)
EXTENDS ValveDrive, SequenceTheorems, TLAPS

(* What the conversions of ValveMath do to every count and percentage.      *)
Clamped(x) == MinOf(MaxOf(Current(x), 4 * 65536), 20 * 65536)
Good(x) == Current(x) >= 3 * 65536 /\ Current(x) <= 22 * 65536

(* A percentage or the fault value, according to the current.               *)
LEMMA ReadingGood ==
  ASSUME NEW x \in Word
  PROVE  /\ AdValueToPer(x) = IF Good(x) THEN (625 * Clamped(x)) \div 6553600 - 25
                                         ELSE Fault
         /\ Clamped(x) \in Nat /\ 262144 <= Clamped(x) /\ Clamped(x) <= 1310720
         /\ Good(x) <=> AdValueToPer(x) <= 100
<1>1. Current(x) \in Nat
  BY SMT DEF Current, Word
<1>2. Clamped(x) \in Nat /\ 262144 <= Clamped(x) /\ Clamped(x) <= 1310720
  BY SMT, <1>1 DEF Clamped, MinOf, MaxOf
<1>3. AdValueToPer(x) = IF Good(x) THEN (625 * Clamped(x)) \div 6553600 - 25
                                   ELSE Fault
  BY SMT, <1>1 DEF AdValueToPer, Good, Clamped
<1>4. (625 * Clamped(x)) \div 6553600 - 25 \in 0..100
  BY SMT, <1>2
<1> QED
  BY SMT, <1>2, <1>3, <1>4 DEF Fault

(* A percentage that is measured grows with the count.                      *)
LEMMA ReadingMonotone ==
  ASSUME NEW x \in Word, NEW y \in Word, x <= y, Good(x), Good(y)
  PROVE  AdValueToPer(x) <= AdValueToPer(y)
<1>1. Clamped(x) \in Nat /\ Clamped(y) \in Nat /\ Clamped(x) <= Clamped(y)
  BY SMT DEF Clamped, Current, MinOf, MaxOf, Word
<1>2. \A a, b \in Nat : a <= b => (625 * a) \div 6553600 <= (625 * b) \div 6553600
  BY SMT
<1>3. (625 * Clamped(x)) \div 6553600 <= (625 * Clamped(y)) \div 6553600
  BY SMT, <1>1, <1>2
<1> QED
  BY SMT, <1>1, <1>3, ReadingGood

(* A count between two good ones is good.                                   *)
LEMMA GoodBetween ==
  ASSUME NEW x \in Word, NEW y \in Word, NEW z \in Word, x <= y, y <= z,
         Good(x), Good(z)
  PROVE  Good(y)
BY SMT DEF Good, Current, Word

LEMMA ReadBack ==
  ASSUME NEW p \in Byte, p <= 100
  PROVE  AbsDiff(AdValueToPer(LoopCount(DacWord(p))), p) <= 1
BY SMT DEF AdValueToPer, LoopCount, DacWord, PerValueToDA, Current, MinOf,
           MaxOf, AbsDiff, Byte, Fault

(* The middle one of three lies between any two of them.                    *)
LEMMA MidBetween ==
  ASSUME NEW f \in [1..3 -> Word], NEW i \in 1..3, NEW j \in 1..3, i # j,
         f[i] <= f[j]
  PROVE  LET m == Mid(f[1], f[2], f[3])
         IN  m \in Word /\ f[i] <= m /\ m <= f[j]
<1>1. f[1] \in Nat /\ f[2] \in Nat /\ f[3] \in Nat
  BY SMT DEF Word
<1>2. i \in {1, 2, 3} /\ j \in {1, 2, 3}
  OBVIOUS
<1>3. Mid(f[1], f[2], f[3]) \in {f[1], f[2], f[3]}
  BY SMT, <1>1 DEF Mid, MinOf, MaxOf
<1>4. f[i] <= Mid(f[1], f[2], f[3]) /\ Mid(f[1], f[2], f[3]) <= f[j]
  BY SMT, <1>1, <1>2 DEF Mid, MinOf, MaxOf
<1> QED
  BY SMT, <1>3, <1>4 DEF Word

-----------------------------------------------------------------------------
LEMMA Measured == ASSUME NEW x \in Word PROVE AdValueToPer(x) \in Nat
BY SMT, ReadingGood DEF Fault

(* One bad conversion of three is harmless (AD7705.c 56-108): when two of   *)
(* the three counts stand for percentages, the measurement is a percentage  *)
(* between theirs, whatever the third count is, 0 after a timeout included. *)
THEOREM OneBadConversion ==
  ASSUME NEW f \in [1..3 -> Word], NEW i \in 1..3, NEW j \in 1..3, i # j,
         AdValueToPer(f[i]) <= 100, AdValueToPer(f[j]) <= 100
  PROVE  /\ MinOf(AdValueToPer(f[i]), AdValueToPer(f[j]))
              <= GetPerValue(f[1], f[2], f[3])
         /\ GetPerValue(f[1], f[2], f[3])
              <= MaxOf(AdValueToPer(f[i]), AdValueToPer(f[j]))
<1> DEFINE m == Mid(f[1], f[2], f[3])
<1>1. ASSUME NEW k \in {i, j}, NEW l \in {i, j}, k # l, f[k] <= f[l]
      PROVE  /\ AdValueToPer(f[k]) <= AdValueToPer(m)
             /\ AdValueToPer(m) <= AdValueToPer(f[l])
             /\ m \in Word
  <2>1. k \in 1..3 /\ l \in 1..3 /\ f[k] \in Word /\ f[l] \in Word
    OBVIOUS
  <2>2. m \in Word /\ f[k] <= m /\ m <= f[l]
    BY SMT, <1>1, <2>1, MidBetween
  <2>3. Good(f[k]) /\ Good(f[l])
    BY SMT, <1>1, <2>1, ReadingGood
  <2>4. Good(m)
    BY SMT, <2>1, <2>2, <2>3, GoodBetween
  <2> QED
    BY SMT, <2>1, <2>2, <2>3, <2>4, ReadingMonotone
<1>2. f[i] <= f[j] \/ f[j] <= f[i]
  BY SMT DEF Word
<1>3. AdValueToPer(f[i]) \in Nat /\ AdValueToPer(f[j]) \in Nat
  BY SMT, Measured
<1>4. CASE f[i] <= f[j]
  BY SMT, <1>1, <1>3, <1>4, Measured DEF MinOf, MaxOf, GetPerValue
<1>5. CASE f[j] <= f[i]
  BY SMT, <1>1, <1>3, <1>5, Measured DEF MinOf, MaxOf, GetPerValue
<1> QED
  BY <1>2, <1>4, <1>5

-----------------------------------------------------------------------------
(* Which pins are off in the middle of the three writes, and what is left   *)
(* on when no drive is under way.                                           *)
Outputs ==
  /\ pc \in {"set", "stop"} /\ kind = "IO" =>
       /\ pc = "set" /\ zeroes = 1 /\ wr > 1 => "close" \notin coils
       /\ pc = "set" /\ zeroes = 0 /\ wr > 1 => "open" \notin coils
       /\ pc = "stop" /\ wr > 1 => "close" \notin coils
       /\ pc = "stop" /\ wr > 2 => "open" \notin coils
  /\ pc = "set" => kind = "IO"
  /\ pc = "faulted" => kind = "DA"
  /\ kind = "DA" \/ pc \notin {"set", "stop"} => wr = 1
  /\ dac # 0 =>
       "DA" \in cut \/ (kind = "DA" /\ pc \in {"sample", "stop", "faulted"})
  /\ coils # {} =>
       "IO" \in cut \/ (kind = "IO" /\ pc \in {"set", "sample", "stop"})

(* A stall ends the loop.                                                   *)
Ongoing == pc \in {"set", "sample"} => per_stop <= 5

(* Where the valve is when the next sample is taken.                        *)
ShortOfTarget ==
  pc = "sample" /\ ~faulty =>
    \/ pos = start
    \/ IF zeroes = 1 THEN pos + 3 < per ELSE pos > per + 3

(* No sample has been taken while the pins are being set.                   *)
Setting == pc = "set" => pos = start

IInv == TypeOK /\ Ongoing /\ Outputs /\ Interlock /\ Setting
        /\ ShortOfTarget /\ NoOvershoot

-----------------------------------------------------------------------------
LEMMA DacRange == ASSUME NEW p \in Byte PROVE DacWord(p) \in DacCount
BY DEF DacWord, PerValueToDA, DacCount, Byte

LEMMA MovesAreNumbers == Moves \subseteq Nat /\ Positions \subseteq Nat
BY DriveAssumption

(* A sample moves the valve by at most one move.                            *)
LEMMA ReachedNear ==
  ASSUME TypeOK, NEW p \in Reached
  PROVE  /\ p \in Positions /\ p \in Nat /\ pos \in Nat
         /\ \E m \in Moves \cup {0} : p <= pos + m /\ pos <= p + m
<1>1. p \in Positions /\ p \in Nat /\ pos \in Nat
  BY MovesAreNumbers DEF Reached, TypeOK
<1>2. CASE p = pos
  BY <1>1, <1>2
<1>3. CASE p > pos /\ p - pos \in Moves
  <2>1. p <= pos + (p - pos) /\ pos <= p + (p - pos)
    BY <1>1, <1>3
  <2> QED
    BY <1>1, <1>3, <2>1
<1>4. CASE p < pos /\ pos - p \in Moves
  <2>1. p <= pos + (pos - p) /\ pos <= p + (pos - p)
    BY <1>1, <1>4
  <2> QED
    BY <1>1, <1>4, <2>1
<1> QED
  BY <1>1, <1>2, <1>3, <1>4 DEF Reached

LEMMA ReadingRange ==
  ASSUME NEW p \in Positions, NEW c \in Readings(p)
  PROVE  c \in Byte
BY DriveAssumption DEF Readings, Byte, Fault

-----------------------------------------------------------------------------
(* The ranges.                                                              *)

LEMMA SampleTyped ==
  ASSUME TypeOK, NEW p \in Reached, NEW c \in Readings(p), Sample(p, c)
  PROVE  /\ kind' \in Kinds /\ per' \in Byte /\ zeroes' \in {0, 1}
         /\ cnt' \in 0..Samples /\ per_current' \in Byte
         /\ wr' \in 1..3 /\ per_measure' \in Byte /\ ValveState' \in {0, 1}
         /\ coils' \subseteq Pins /\ dac' \in DacCount
         /\ pos' \in Positions /\ start' \in Positions
         /\ faulty' \in BOOLEAN /\ recent' \in Seq(Byte) /\ cut' \subseteq Kinds
         /\ c \in Byte
<1>1. p \in Positions /\ c \in Byte
  BY ReadingRange DEF Reached
<1>2. cnt' \in 0..Samples
  BY DriveAssumption DEF Sample, TypeOK
<1>3. recent' \in Seq(Byte)
  <2>1. recent \in Seq(Byte) /\ (Len(recent) >= 7 => Tail(recent) \in Seq(Byte))
    BY DEF TypeOK
  <2> QED
    BY <1>1, <2>1 DEF Sample, Window, TypeOK
<1>4. ValveState' \in {0, 1} /\ faulty' \in BOOLEAN
  BY DEF Sample, StateAfter, TypeOK
<1> QED
  BY <1>1, <1>2, <1>3, <1>4 DEF Sample, TypeOK

LEMMA LoopTyped == TypeOK /\ Ongoing /\ Loop => TypeOK' /\ Ongoing'
<1> SUFFICES ASSUME TypeOK, Ongoing, NEW p \in Reached, NEW c \in Readings(p),
                    \/ Arrive(p, c) \/ GoOn(p, c) \/ NoProgress(p, c)
                    \/ Progress(p, c) \/ Faulted(p, c)
             PROVE  TypeOK' /\ Ongoing'
  BY DEF Loop
<1>1. Sample(p, c)
  BY DEF Arrive, GoOn, NoProgress, Progress, Faulted
<1>2. per_current_last' \in Byte /\ per_stop' \in 0..6 /\ Ongoing'
  <2>1. CASE NoProgress(p, c)
    BY <2>1 DEF NoProgress, Sample, Leave, Stay, TypeOK, Ongoing
  <2>2. CASE ~NoProgress(p, c)
    BY <1>1, <2>2, SampleTyped
      DEF Arrive, GoOn, Progress, Faulted, SameStall, Sample, Leave, TypeOK,
          Ongoing
  <2> QED
    BY <2>1, <2>2
<1>3. /\ pc' \in {"sample", "stop", "faulted"}
      /\ why' \in {"none", "arrived", "stalled", "timeout"}
  BY DEF Arrive, GoOn, NoProgress, Progress, Faulted, Sample, Leave, Stay, TypeOK
<1> QED
  BY <1>1, <1>2, <1>3, SampleTyped DEF TypeOK

LEMMA ForgetTyped ==
  ASSUME TypeOK, Forget, UNCHANGED <<coils, dac, pos>>,
         per_measure' \in Byte, ValveState' \in {0, 1}, cut' \subseteq Kinds
  PROVE  TypeOK' /\ Ongoing'
<1>1. recent' \in Seq(Byte)
  BY DEF Forget
<1>2. coils' = coils /\ dac' = dac /\ pos' = pos /\ start' = pos
  BY DEF Forget
<1>3. /\ pc' = "idle" /\ kind' \in Kinds /\ per' \in Byte /\ zeroes' \in {0, 1}
      /\ per_stop' \in 0..6 /\ per_current' \in Byte
      /\ per_current_last' \in Byte /\ wr' \in 1..3 /\ why' = "none"
  BY DEF Forget, Kinds, Byte
<1>5. faulty' \in BOOLEAN
  BY DEF Forget
<1>4. cnt' \in 0..Samples
  BY DriveAssumption DEF Forget
<1> QED
  BY <1>1, <1>2, <1>3, <1>4, <1>5 DEF TypeOK, Ongoing

LEMMA NextTyped == TypeOK /\ Ongoing /\ [Next]_vars => TypeOK' /\ Ongoing'
<1> SUFFICES ASSUME TypeOK, Ongoing, [Next]_vars PROVE TypeOK' /\ Ongoing'
  OBVIOUS
<1>1. ASSUME NEW k \in Kinds, NEW p \in Targets, NEW z \in {0, 1},
             Begin(k, p, z)
      PROVE  TypeOK' /\ Ongoing'
  <2>1. p \in Byte /\ DacWord(p) \in DacCount
    BY DacRange, DriveAssumption
  <2>8. pc' \in {"sample", "set"} /\ dac' \in {DacWord(p), dac} /\ per' = p
    BY <1>1 DEF Begin
  <2>2. pc' \in {"sample", "set"} /\ dac' \in DacCount /\ per' \in Byte
    BY <2>1, <2>8 DEF TypeOK
  <2>6. kind' \in Kinds /\ zeroes' \in {0, 1}
    BY <1>1 DEF Begin
  <2>3. /\ per_stop' = 0 /\ per_current' \in Byte /\ per_current_last' \in Byte
        /\ wr' \in 1..3 /\ why' = "none"
    BY <1>1 DEF Begin, Byte
  <2>4. cnt' \in 0..Samples
    BY <1>1, DriveAssumption DEF Begin
  <2>5. recent' \in Seq(Byte)
    BY <1>1 DEF Begin
  <2>7. faulty' \in BOOLEAN
    BY <1>1 DEF Begin
  <2> QED
    BY <1>1, <2>2, <2>3, <2>4, <2>5, <2>6, <2>7 DEF Begin, TypeOK, Ongoing
<1>2. CASE Loop
  BY <1>2, LoopTyped
<1>3. CASE TimeOut
  BY <1>3 DEF TimeOut, Leave, TypeOK, Ongoing, locals
<1>4. CASE WritePin
  <2>1. coils' \subseteq Pins
    <3>1. wr = 1 \/ wr = 2 \/ wr = 3
      BY DEF TypeOK
    <3>2. Writes[wr].pin \in Pins
      BY <3>1 DEF Writes, OpenSet, CloseSet, StopSet, On, Off, Pins
    <3> QED
      BY <1>4, <3>2 DEF WritePin, TypeOK
  <2>2. /\ wr' \in 1..3 /\ pc' \in {"set", "stop", "sample", "measure"}
        /\ cut' \subseteq Kinds
    BY <1>4 DEF WritePin, TypeOK
  <2>3. Ongoing'
    BY <1>4 DEF WritePin, TypeOK, Ongoing, locals
  <2> QED
    BY <1>4, <2>1, <2>2, <2>3 DEF WritePin, TypeOK, locals, hist
<1>5. CASE StopDac
  <2>1. 0 \in DacCount
    BY DEF DacCount
  <2> QED
    BY <1>5, <2>1 DEF StopDac, TypeOK, Ongoing, locals, hist
<1>6. CASE FaultReturn
  BY <1>6, ForgetTyped DEF FaultReturn, TypeOK, Kinds
<1>7. ASSUME NEW c \in Readings(pos), Measure(c) PROVE TypeOK' /\ Ongoing'
  <2>1. c \in Byte /\ StateAfter(c) \in {0, 1}
    BY ReadingRange DEF TypeOK, StateAfter
  <2> QED
    BY <1>7, <2>1, ForgetTyped DEF Measure, TypeOK
<1>8. CASE Die
  BY <1>8, ForgetTyped DEF Die, TypeOK
<1>9. ASSUME NEW p \in Positions, Drift(p) PROVE TypeOK' /\ Ongoing'
  BY <1>9 DEF Drift, TypeOK, Ongoing, locals
<1>10. CASE UNCHANGED vars
  BY <1>10 DEF vars, locals, hist, TypeOK, Ongoing
<1> QED
  BY <1>1, <1>2, <1>3, <1>4, <1>5, <1>6, <1>7, <1>8, <1>9, <1>10 DEF Next, Drive

-----------------------------------------------------------------------------
(* The outputs.                                                             *)

LEMMA NextOutputs ==
  TypeOK /\ Outputs /\ Interlock /\ [Next]_vars => Outputs' /\ Interlock'
<1> SUFFICES ASSUME TypeOK, Outputs, Interlock, [Next]_vars
             PROVE  Outputs' /\ Interlock'
  OBVIOUS
<1>1. ASSUME NEW k \in Kinds, NEW p \in Targets, NEW z \in {0, 1},
             Begin(k, p, z)
      PROVE  Outputs' /\ Interlock'
  BY <1>1 DEF Begin, Outputs, Interlock, TypeOK, Kinds
<1>2. CASE Loop
  <2> SUFFICES ASSUME NEW p, NEW c, Sample(p, c),
                      \/ Leave("arrived") \/ Leave("stalled") \/ Stay
                      \/ kind = "DA" /\ pc' = "faulted"
               PROVE  Outputs' /\ Interlock'
    BY <1>2 DEF Loop, Arrive, GoOn, NoProgress, Progress, Faulted
  <2> QED
    BY DEF Sample, Leave, Stay, Outputs, Interlock
<1>3. CASE TimeOut
  BY <1>3 DEF TimeOut, Leave, Outputs, Interlock, locals
<1>4. CASE WritePin
  <2>1. CASE pc = "stop"
    <3>1. CASE wr = 1
      BY <1>4, <2>1, <3>1 DEF WritePin, Writes, StopSet, Off, Outputs, Interlock,
                              locals
    <3>2. CASE wr = 2
      BY <1>4, <2>1, <3>2 DEF WritePin, Writes, StopSet, Off, Outputs, Interlock,
                              locals
    <3>3. CASE wr = 3
      <4>1. coils \subseteq {"common"}
        BY <1>4, <2>1, <3>3 DEF WritePin, Outputs, TypeOK, Pins
      <4>4. Writes[3] = Off("common")
        BY <2>1 DEF Writes, StopSet
      <4>2. coils' = {} /\ cut' = cut \ {"IO"} /\ pc' = "measure" /\ wr' = 1
        BY <1>4, <2>1, <3>3, <4>1, <4>4 DEF WritePin, Off
      <4>3. dac' = dac /\ kind' = kind /\ kind = "IO"
        BY <1>4 DEF WritePin, locals
      <4> QED
        BY <2>1, <4>2, <4>3 DEF Outputs, Interlock
    <3> QED
      BY <3>1, <3>2, <3>3 DEF TypeOK
  <2>2. CASE pc = "set" /\ zeroes = 1
    BY <1>4, <2>2 DEF WritePin, Writes, OpenSet, Off, On, Outputs, Interlock,
                      TypeOK, locals
  <2>3. CASE pc = "set" /\ zeroes = 0
    BY <1>4, <2>3 DEF WritePin, Writes, CloseSet, Off, On, Outputs, Interlock,
                      TypeOK, locals
  <2> QED
    BY <1>4, <2>1, <2>2, <2>3 DEF WritePin, TypeOK
<1>5. CASE StopDac
  BY <1>5 DEF StopDac, Outputs, Interlock, locals
<1>6. CASE FaultReturn
  BY <1>6 DEF FaultReturn, Forget, Outputs, Interlock
<1>7. ASSUME NEW c \in Readings(pos), Measure(c) PROVE Outputs' /\ Interlock'
  BY <1>7 DEF Measure, Forget, Outputs, Interlock
<1>8. CASE Die
  BY <1>8 DEF Die, Forget, Outputs, Interlock
<1>9. ASSUME NEW p \in Positions, Drift(p) PROVE Outputs' /\ Interlock'
  BY <1>9 DEF Drift, Outputs, Interlock, locals
<1>10. CASE UNCHANGED vars
  BY <1>10 DEF vars, locals, hist, Outputs, Interlock
<1> QED
  BY <1>1, <1>2, <1>3, <1>4, <1>5, <1>6, <1>7, <1>8, <1>9, <1>10 DEF Next, Drive

-----------------------------------------------------------------------------
(* Where a drive ends.                                                      *)

(* One move away from where no drive is short of its target any more.       *)
Within(m) == IF zeroes = 1 THEN pos <= start + m \/ pos + 4 <= per + m
                           ELSE start <= pos + m \/ per + 4 <= pos + m

LEMMA SampleNear ==
  ASSUME TypeOK, ShortOfTarget, NEW p \in Reached, NEW c \in Readings(p),
         Sample(p, c)
  PROVE  NoOvershoot'
<1> SUFFICES ASSUME ~faulty'
             PROVE  \E m \in Moves \cup {0} : Within(m)'
  BY DEF NoOvershoot, Within
<1>1. pc = "sample" /\ ~faulty
  BY DEF Sample, TypeOK
<1>2. pos' = p /\ start' = start /\ zeroes' = zeroes /\ per' = per
  BY DEF Sample
<1>3. PICK m \in Moves \cup {0} : p <= pos + m /\ pos <= p + m
  BY ReachedNear
<1>4. m \in Nat /\ p \in Nat /\ pos \in Nat /\ start \in Nat /\ per \in Nat
  BY ReachedNear, MovesAreNumbers DEF TypeOK, Byte
<1>5. CASE pos = start
  BY <1>2, <1>3, <1>4, <1>5 DEF Within
<1>6. CASE pos # start
  <2>1. IF zeroes = 1 THEN pos + 3 < per ELSE pos > per + 3
    BY <1>1, <1>6 DEF ShortOfTarget
  <2> QED
    BY <1>2, <1>3, <1>4, <2>1 DEF Within
<1> QED
  BY <1>5, <1>6

(* A drive that goes on has read an opening short of its target.            *)
LEMMA SampleShort ==
  ASSUME TypeOK, NEW p \in Reached, NEW c \in Readings(p), Sample(p, c),
         pc' = "sample" => ~InPlace(c) /\ ~Crossed(c)
  PROVE  ShortOfTarget'
<1> SUFFICES ASSUME pc' = "sample", ~faulty'
             PROVE  IF zeroes' = 1 THEN pos' + 3 < per' ELSE pos' > per' + 3
  BY DEF ShortOfTarget
<1>1. pos' = p /\ zeroes' = zeroes /\ per' = per /\ c # Fault
  BY DEF Sample, TypeOK
<1>2. c = p /\ p \in Nat /\ per \in Nat
  BY <1>1, ReachedNear DEF Readings, TypeOK, Byte
<1> QED
  BY <1>1, <1>2 DEF InPlace, Crossed, AbsDiff

LEMMA NextEnd ==
  IInv /\ [Next]_vars => ShortOfTarget' /\ NoOvershoot'
<1> SUFFICES ASSUME IInv, [Next]_vars PROVE ShortOfTarget' /\ NoOvershoot'
  OBVIOUS
<1> USE DEF IInv
<1>a. ASSUME UNCHANGED <<zeroes, per, pos, start, faulty>>, pc # "idle",
             pc' = "sample" => pc \in {"set", "sample"},
             pc = "set" => pos = start
      PROVE  ShortOfTarget' /\ NoOvershoot'
  BY <1>a DEF ShortOfTarget, NoOvershoot
<1>b. ASSUME pc' = "idle" PROVE ShortOfTarget' /\ NoOvershoot'
  BY <1>b DEF ShortOfTarget, NoOvershoot
<1>1. ASSUME NEW k \in Kinds, NEW p \in Targets, NEW z \in {0, 1},
             Begin(k, p, z)
      PROVE  ShortOfTarget' /\ NoOvershoot'
  <2>1. pos' = start' /\ start' \in Nat /\ zeroes' \in {0, 1}
    BY <1>1, MovesAreNumbers DEF Begin, TypeOK
  <2>2. \A n \in Nat : n <= n + 0
    OBVIOUS
  <2> QED
    BY <2>1, <2>2 DEF ShortOfTarget, NoOvershoot
<1>2. CASE Loop
  <2> SUFFICES ASSUME NEW p \in Reached, NEW c \in Readings(p),
                      \/ Arrive(p, c) \/ GoOn(p, c) \/ NoProgress(p, c)
                      \/ Progress(p, c) \/ Faulted(p, c)
               PROVE  ShortOfTarget' /\ NoOvershoot'
    BY <1>2 DEF Loop
  <2>1. Sample(p, c)
    BY DEF Arrive, GoOn, NoProgress, Progress, Faulted
  <2>2. pc' = "sample" => ~InPlace(c) /\ ~Crossed(c)
    BY DEF Arrive, GoOn, NoProgress, Progress, Faulted, Leave
  <2> QED
    BY <2>1, <2>2, SampleNear, SampleShort
<1>3. CASE TimeOut
  BY <1>3, <1>a DEF TimeOut, Leave, locals
<1>4. CASE WritePin
  BY <1>4, <1>a DEF WritePin, locals, hist, Setting
<1>5. CASE StopDac
  BY <1>5, <1>a DEF StopDac, locals, hist
<1>6. CASE FaultReturn \/ Die \/ \E c \in Readings(pos) : Measure(c)
  BY <1>6, <1>b DEF FaultReturn, Die, Measure, Forget
<1>7. ASSUME NEW p \in Positions, Drift(p) PROVE ShortOfTarget' /\ NoOvershoot'
  BY <1>7, <1>b DEF Drift
<1>8. CASE UNCHANGED vars
  BY <1>8 DEF vars, locals, hist, ShortOfTarget, NoOvershoot
<1> QED
  BY <1>1, <1>2, <1>3, <1>4, <1>5, <1>6, <1>7, <1>8 DEF Next, Drive

LEMMA NextSetting == TypeOK /\ Setting /\ [Next]_vars => Setting'
<1> SUFFICES ASSUME TypeOK, Setting, [Next]_vars PROVE Setting'
  OBVIOUS
<1>1. ASSUME pc' = "set"
      PROVE  \/ UNCHANGED <<pc, pos, start>>
             \/ pos' = start'
  BY <1>1 DEF Next, Drive, Loop, Begin, Arrive, GoOn, NoProgress, Progress,
              Faulted, Sample, Leave, Stay, TimeOut, WritePin, StopDac, Measure,
              FaultReturn, Die, Drift, Forget, locals, hist, vars
<1> QED
  BY <1>1 DEF Setting

-----------------------------------------------------------------------------
LEMMA InitInv == Init => IInv
<1> SUFFICES ASSUME Init PROVE IInv
  OBVIOUS
<1>1. 0 \in DacCount /\ 0 \in 0..Samples /\ recent \in Seq(Byte)
  BY DriveAssumption DEF DacCount, Init
<1>2. faulty \in BOOLEAN
  BY DEF Init
<1>3. TypeOK
  BY <1>1, <1>2 DEF Init, TypeOK, Kinds, Pins, Byte
<1> QED
  BY <1>3 DEF Init, IInv, Ongoing, Outputs, Interlock, Setting, ShortOfTarget,
              NoOvershoot

LEMMA NextInv == IInv /\ [Next]_vars => IInv'
BY NextTyped, NextOutputs, NextEnd, NextSetting DEF IInv

(* The ranges, with the stall counter and the GPIO writes where the loops   *)
(* need them.                                                               *)
THEOREM DriveInvariant == Spec => [](TypeOK /\ IInv)
<1>1. IInv => TypeOK
  BY DEF IInv
<1> QED
  BY <1>1, InitInv, NextInv, PTL DEF Spec

(* The motor is never told to open and to close at once, wherever a drive   *)
(* before was cut short.                                                    *)
THEOREM CoilsInterlocked == Spec => []Interlock
BY DriveInvariant, PTL DEF IInv

(* Between two drives an output is on only after a drive of its kind that   *)
(* was cut short.                                                           *)
THEOREM OutputsReleased == Spec => []OutputsOffAtRest
<1>1. IInv => OutputsOffAtRest
  BY DEF IInv, Outputs, OutputsOffAtRest
<1> QED
  BY DriveInvariant, <1>1, PTL

(* With good readings a drive ends within one move of the tolerance.        *)
THEOREM OvershootBounded == Spec => []NoOvershoot
BY DriveInvariant, PTL DEF IInv

-----------------------------------------------------------------------------
(* The stall test.  The last per_stop readings are close to the reference   *)
(* opening, the very last one in any case, and per_stop counts all but one  *)
(* of the readings that have been the same since.                           *)

Close(r) == AbsDiff(r, per_current_last) <= 2
Same(k)  == \A i \in 1..Len(recent) :
              i > Len(recent) - k => recent[i] = recent[Len(recent)]

Counted ==
  /\ per_stop <= Len(recent)
  /\ \A i \in 1..Len(recent) : i > Len(recent) - per_stop => Close(recent[i])

Followed ==
  /\ Counted
  /\ Len(recent) > 0 => Close(recent[Len(recent)])
  /\ \A k \in 1..Len(recent) : Same(k) => k <= per_stop + 1

Stalling ==
  /\ Len(recent) <= Window
  /\ pc = "set" => kind = "IO"
  /\ pc \in {"set", "sample"} /\ kind = "IO" => recent = <<>>
  /\ pc = "sample" /\ kind = "DA" => Followed
  /\ why = "stalled" => Counted /\ per_stop = 6
  /\ pc \in {"idle", "set", "sample"} => why = "none"

LEMMA Appended ==
  ASSUME NEW q \in Seq(Byte), NEW r \in Byte, NEW t, t = Append(q, r)
  PROVE  /\ t \in Seq(Byte) /\ Len(t) = Len(q) + 1
         /\ \A i \in 1..Len(q) : t[i] = q[i]
         /\ t[Len(q) + 1] = r
  BY AppendProperties

(* Remembering one more reading shifts the older ones by d.                 *)
LEMMA Remembered ==
  ASSUME NEW s \in Seq(Byte), NEW c \in Byte, Len(s) <= 7,
         NEW t, t = IF Len(s) < 7 THEN Append(s, c) ELSE Append(Tail(s), c)
  PROVE  /\ t \in Seq(Byte) /\ Len(t) \in 1..7 /\ t[Len(t)] = c
         /\ \E d \in {0, 1} : /\ Len(t) + d = Len(s) + 1
                             /\ d = 1 => Len(t) = 7
                             /\ \A i \in 1..(Len(t) - 1) : t[i] = s[i + d]
<1>0. Len(s) \in Nat
  OBVIOUS
<1>1. CASE Len(s) < 7
  <2>1. t = Append(s, c)
    BY <1>1
  <2>2. /\ t \in Seq(Byte) /\ Len(t) = Len(s) + 1 /\ t[Len(s) + 1] = c
        /\ \A i \in 1..Len(s) : t[i] = s[i]
    BY <2>1, AppendProperties
  <2>3. Len(t) - 1 = Len(s) /\ \A i \in 1..Len(s) : i + 0 = i
    BY <1>0, <2>2
  <2> QED
    BY <1>0, <1>1, <2>2, <2>3
<1>2. CASE Len(s) = 7
  <2>1. s # <<>> /\ t = Append(Tail(s), c)
    BY <1>2
  <2>2. /\ Tail(s) \in Seq(Byte) /\ Len(Tail(s)) = 7 - 1
        /\ \A i \in 1..Len(Tail(s)) : Tail(s)[i] = s[i + 1]
    BY <1>2, <2>1, HeadTailProperties
  <2>3. Len(Tail(s)) = 6
    BY <2>2
  <2>4. /\ t \in Seq(Byte) /\ Len(t) = 6 + 1 /\ t[6 + 1] = c
        /\ \A i \in 1..6 : t[i] = Tail(s)[i]
    <3>1. /\ t \in Seq(Byte) /\ Len(t) = Len(Tail(s)) + 1
          /\ \A i \in 1..Len(Tail(s)) : t[i] = Tail(s)[i]
          /\ t[Len(Tail(s)) + 1] = c
      BY SMTT(40), <2>1, <2>2, Appended
    <3> QED
      BY <2>3, <3>1, Zenon
  <2>5. Len(t) = 7 /\ Len(t) - 1 = 6 /\ t[7] = c
    BY <2>4
  <2>6. \A i \in 1..(Len(t) - 1) : t[i] = s[i + 1]
    BY <2>2, <2>3, <2>4, <2>5
  <2>7. Len(t) + 1 = Len(s) + 1 /\ 1 \in {0, 1}
    BY <1>2, <2>5
  <2> QED
    BY <2>4, <2>5, <2>6, <2>7
<1>3. Len(s) < 7 \/ Len(s) = 7
  <2>1. \A n \in Nat : n <= 7 => n < 7 \/ n = 7
    OBVIOUS
  <2> QED
    BY <1>0, <2>1, Zenon
<1> QED
  BY <1>1, <1>2, <1>3

Shifted(s, t, d, c) ==
  /\ s \in Seq(Byte) /\ t \in Seq(Byte) /\ d \in {0, 1}
  /\ Len(s) \in 0..7 /\ Len(t) \in 1..7 /\ t[Len(t)] = c
  /\ Len(t) + d = Len(s) + 1
  /\ d = 1 => Len(t) = 7
  /\ \A i \in 1..(Len(t) - 1) : t[i] = s[i + d]

(* The last n + 1 readings are close when the last n were and the new one is. *)
LEMMA ClosePrefix ==
  ASSUME NEW s, NEW t, NEW d, NEW c, Shifted(s, t, d, c), NEW n \in 0..6,
         NEW ref, AbsDiff(c, ref) <= 2, n <= Len(s),
         \A i \in 1..Len(s) : i > Len(s) - n => AbsDiff(s[i], ref) <= 2
  PROVE  /\ n + 1 <= Len(t)
         /\ \A i \in 1..Len(t) : i > Len(t) - (n + 1) => AbsDiff(t[i], ref) <= 2
<1>0. /\ Len(s) \in Nat /\ Len(t) \in Nat /\ d \in {0, 1}
      /\ Len(t) + d = Len(s) + 1 /\ (d = 1 => Len(t) = 7)
  BY DEF Shifted
<1>1. n + 1 <= Len(t)
  <2>1. CASE d = 0
    BY <1>0, <2>1
  <2>2. CASE d = 1
    <3>1. \A m \in 0..6 : m + 1 <= 7
      OBVIOUS
    <3>2. n + 1 <= 7
      BY <3>1
    <3> QED
      BY <1>0, <2>2, <3>2, Zenon
  <2> QED
    BY <1>0, <2>1, <2>2
<1>2. ASSUME NEW i \in 1..Len(t), i > Len(t) - (n + 1)
      PROVE  AbsDiff(t[i], ref) <= 2
  <2>1. CASE i = Len(t)
    BY <2>1 DEF Shifted
  <2>2. CASE i # Len(t)
    <3>1. i \in 1..(Len(t) - 1) /\ i + d \in 1..Len(s) /\ i + d > Len(s) - n
      BY <1>2, <2>2 DEF Shifted
    <3>2. t[i] = s[i + d]
      BY <3>1 DEF Shifted
    <3> QED
      BY <3>1, <3>2
  <2> QED
    BY <2>1, <2>2
<1> QED
  BY <1>1, <1>2

(* k equal readings at the end were k - 1 equal ones before the last.       *)
LEMMA EqualPrefix ==
  ASSUME NEW s, NEW t, NEW d, NEW c, Shifted(s, t, d, c),
         NEW k \in 1..Len(t), k > 1,
         \A i \in 1..Len(t) : i > Len(t) - k => t[i] = t[Len(t)]
  PROVE  /\ k - 1 \in 1..Len(s) /\ s[Len(s)] = c
         /\ \A i \in 1..Len(s) : i > Len(s) - (k - 1) => s[i] = s[Len(s)]
<1>1. k - 1 \in 1..Len(s)
  BY DEF Shifted
<1>2. ASSUME NEW i \in 1..Len(s), i > Len(s) - (k - 1)
      PROVE  s[i] = c
  <2>1. i - d \in 1..(Len(t) - 1) /\ i - d > Len(t) - k /\ (i - d) + d = i
    BY <1>2 DEF Shifted
  <2>2. t[i - d] = s[(i - d) + d]
    BY <2>1 DEF Shifted
  <2>3. i - d \in 1..Len(t) /\ t[Len(t)] = c
    BY <2>1 DEF Shifted
  <2> QED
    BY <2>1, <2>2, <2>3
<1>3. Len(s) \in 1..Len(s) /\ Len(s) > Len(s) - (k - 1)
  BY <1>1 DEF Shifted
<1> QED
  BY <1>1, <1>2, <1>3

LEMMA SampleShifts ==
  ASSUME TypeOK, Len(recent) <= Window, kind = "DA",
         NEW p \in Reached, NEW c \in Readings(p), Sample(p, c)
  PROVE  \E d \in {0, 1} : Shifted(recent, recent', d, c)
<1>1. recent \in Seq(Byte) /\ Len(recent) \in Nat
  BY DEF TypeOK
<1>4. c \in Byte
  BY ReadingRange DEF Reached
<1>2. recent' = IF Len(recent) < 7 THEN Append(recent, c)
                                   ELSE Append(Tail(recent), c)
  BY DEF Sample, Window
<1>3. Len(recent) <= 7 /\ Len(recent) \in 0..7
  <2>1. \A n \in Nat : n <= 7 => n \in 0..7
    OBVIOUS
  <2>2. Len(recent) <= 7
    BY Zenon DEF Window
  <2> QED
    BY <1>1, <2>1, <2>2, Zenon
<1>5. PICK d \in {0, 1} :
           /\ recent' \in Seq(Byte) /\ Len(recent') \in 1..7
           /\ recent'[Len(recent')] = c
           /\ Len(recent') + d = Len(recent) + 1
           /\ d = 1 => Len(recent') = 7
           /\ \A i \in 1..(Len(recent') - 1) : recent'[i] = recent[i + d]
  BY <1>1, <1>2, <1>3, <1>4, Remembered
<1> QED
  BY <1>1, <1>3, <1>5 DEF Shifted

(* A still reading adds one to both counts.                                 *)
LEMMA StillFollowed ==
  ASSUME TypeOK, Followed, per_stop \in 0..5,
         NEW d, NEW c, Shifted(recent, recent', d, c), Close(c),
         per_stop' = per_stop + 1, per_current_last' = per_current_last
  PROVE  Followed' /\ Len(recent') <= Window
<1>1. Counted'
  <2>1. /\ AbsDiff(c, per_current_last) <= 2 /\ per_stop <= Len(recent)
        /\ \A i \in 1..Len(recent) : i > Len(recent) - per_stop
             => AbsDiff(recent[i], per_current_last) <= 2
    BY DEF Followed, Counted, Close
  <2>2. per_stop \in 0..6
    OBVIOUS
  <2>3. /\ per_stop + 1 <= Len(recent')
        /\ \A i \in 1..Len(recent') : i > Len(recent') - (per_stop + 1)
             => AbsDiff(recent'[i], per_current_last) <= 2
    BY <2>1, <2>2, ClosePrefix
  <2> QED
    BY <2>3 DEF Counted, Close
<1>2. Close(recent[Len(recent)])'
  BY DEF Shifted, Close
<1>3. ASSUME NEW k \in 1..Len(recent'), Same(k)' PROVE k <= per_stop' + 1
  <2>1. CASE k > 1
    <3>1. /\ k - 1 \in 1..Len(recent)
          /\ \A i \in 1..Len(recent) : i > Len(recent) - (k - 1)
               => recent[i] = recent[Len(recent)]
      BY <1>3, <2>1, EqualPrefix DEF Same
    <3>2. k - 1 <= per_stop + 1
      BY <3>1 DEF Followed, Same
    <3> QED
      BY <3>1, <3>2
  <2>2. CASE ~(k > 1)
    BY <2>2
  <2> QED
    BY <2>1, <2>2
<1>4. Len(recent') <= Window
  <2>1. Len(recent') \in 1..7
    BY DEF Shifted
  <2>2. \A n \in 1..7 : n <= 7
    OBVIOUS
  <2> QED
    BY <2>1, <2>2, Zenon DEF Window
<1> QED
  BY <1>1, <1>2, <1>3, <1>4 DEF Followed

(* A reading that is not still starts the counts again.                     *)
LEMMA MovedFollowed ==
  ASSUME TypeOK, Followed,
         NEW d, NEW c \in Byte, Shifted(recent, recent', d, c), ~Close(c),
         per_stop' = 0, per_current_last' = c
  PROVE  Followed' /\ Len(recent') <= Window
<1>0. Len(recent') \in 1..7 /\ recent'[Len(recent')] = c /\ AbsDiff(c, c) <= 2
  BY DEF Shifted, AbsDiff, Byte
<1>1. Counted'
  BY <1>0 DEF Counted
<1>2. Close(recent[Len(recent)])'
  BY <1>0 DEF Close
<1>3. ASSUME NEW k \in 1..Len(recent'), Same(k)' PROVE k <= per_stop' + 1
  <2>1. CASE k > 1
    <3>1. k - 1 \in 1..Len(recent) /\ recent[Len(recent)] = c
      BY <1>3, <2>1, EqualPrefix DEF Same
    <3>2. Len(recent) > 0
      BY <3>1
    <3> QED
      BY <3>1, <3>2 DEF Followed
  <2>2. CASE ~(k > 1)
    BY <2>2
  <2> QED
    BY <2>1, <2>2
<1>4. Len(recent') <= Window
  BY <1>0 DEF Window
<1> QED
  BY <1>1, <1>2, <1>3, <1>4 DEF Followed

LEMMA LoopStalls == TypeOK /\ Ongoing /\ Stalling /\ Loop => Stalling'
<1> SUFFICES ASSUME TypeOK, Ongoing, Stalling,
                    NEW p \in Reached, NEW c \in Readings(p),
                    \/ Arrive(p, c) \/ GoOn(p, c) \/ NoProgress(p, c)
                    \/ Progress(p, c) \/ Faulted(p, c)
             PROVE  Stalling'
  BY DEF Loop
<1>1. Sample(p, c) /\ pc = "sample" /\ why = "none" /\ Len(recent) <= Window
  BY DEF Arrive, GoOn, NoProgress, Progress, Faulted, Sample, Stalling
<1>2. kind' = kind /\ (kind = "IO" => recent' = <<>>) /\ Len(<<>>) <= Window
  BY <1>1 DEF Sample, Stalling, Window
<1>3. kind = "DA" => \E d \in {0, 1} : Shifted(recent, recent', d, c)
  BY <1>1, SampleShifts
<1>4. Len(recent') <= Window
  BY SMTT(30), <1>2, <1>3 DEF Shifted, Window, TypeOK, Kinds
<1>5. c \in Byte
  BY ReadingRange DEF Reached
<1>6. CASE Arrive(p, c)
  BY <1>4, <1>6 DEF Arrive, Leave, Stalling
<1>7. CASE GoOn(p, c)
  BY <1>1, <1>2, <1>4, <1>7 DEF GoOn, Stay, Stalling
<1>8. CASE NoProgress(p, c)
  <2>1. PICK d \in {0, 1} : Shifted(recent, recent', d, c)
    BY <1>3, <1>8 DEF NoProgress
  <2>2. /\ Followed /\ Close(c) /\ per_stop \in 0..5 /\ kind = "DA"
        /\ per_stop' = per_stop + 1 /\ per_current_last' = per_current_last
    BY <1>1, <1>8 DEF NoProgress, Stalling, Still, Close, Ongoing, TypeOK
  <2>3. Followed'
    BY <2>1, <2>2, StillFollowed
  <2>4. CASE per_stop' > 5
    BY <1>4, <1>8, <2>2, <2>3, <2>4 DEF NoProgress, Leave, Stalling, Followed
  <2>5. CASE ~(per_stop' > 5)
    BY <1>1, <1>2, <1>4, <1>8, <2>2, <2>3, <2>5 DEF NoProgress, Stay, Stalling
  <2> QED
    BY <2>4, <2>5
<1>9. CASE Progress(p, c)
  <2>1. PICK d \in {0, 1} : Shifted(recent, recent', d, c)
    BY <1>3, <1>9 DEF Progress
  <2>2. /\ Followed /\ ~Close(c) /\ kind = "DA"
        /\ per_stop' = 0 /\ per_current_last' = c
    BY <1>1, <1>9 DEF Progress, Stalling, Still, Close
  <2>3. Followed'
    BY <1>5, <2>1, <2>2, MovedFollowed
  <2> QED
    BY <1>1, <1>2, <1>4, <1>9, <2>2, <2>3 DEF Progress, Stay, Stalling
<1>10. CASE Faulted(p, c)
  BY <1>1, <1>4, <1>10 DEF Faulted, Stalling
<1> QED
  BY <1>6, <1>7, <1>8, <1>9, <1>10

LEMMA NextStalls ==
  TypeOK /\ Ongoing /\ Stalling /\ [Next]_vars => Stalling'
<1> SUFFICES ASSUME TypeOK, Ongoing, Stalling, [Next]_vars PROVE Stalling'
  OBVIOUS
<1>0. Len(<<>>) = 0 /\ 0 <= Window
  BY DEF Window
<1>a. ASSUME pc' = "idle", recent' = <<>>, why' = "none" PROVE Stalling'
  BY <1>0, <1>a DEF Stalling
<1>b. ASSUME UNCHANGED <<per_stop, per_current_last, recent, kind>>,
             \/ UNCHANGED why /\ pc' \notin {"idle", "set", "sample"}
             \/ UNCHANGED why /\ pc \in {"idle", "set", "sample"}
                               /\ pc' \in {"idle", "set"} /\ (pc' = "set" => pc = "set")
             \/ UNCHANGED <<why, pc>>
             \/ why' \in {"arrived", "timeout"} /\ pc' = "stop"
      PROVE  Stalling'
  BY <1>b DEF Stalling, Followed, Counted, Close, Same
<1>1. ASSUME NEW k \in Kinds, NEW p \in Targets, NEW z \in {0, 1},
             Begin(k, p, z)
      PROVE  Stalling'
  <2>1. /\ recent' = <<>> /\ why' = "none" /\ per_stop' = 0
        /\ pc' = IF kind' = "DA" THEN "sample" ELSE "set"
    BY <1>1 DEF Begin
  <2>2. Followed'
    BY <1>0, <2>1 DEF Followed, Counted
  <2>3. kind' \in Kinds
    BY <1>1 DEF Begin
  <2> QED
    BY <1>0, <2>1, <2>2, <2>3 DEF Stalling, Kinds
<1>2. CASE Loop
  BY <1>2, LoopStalls
<1>3. CASE TimeOut
  BY <1>3, <1>b DEF TimeOut, Leave, locals
<1>4. CASE WritePin /\ pc = "stop"
  BY <1>4, <1>b DEF WritePin, locals, hist
<1>5. CASE WritePin /\ pc = "set"
  BY <1>5 DEF WritePin, locals, hist, Stalling, Counted
<1>6. CASE StopDac
  BY <1>6, <1>b DEF StopDac, locals, hist
<1>7. CASE FaultReturn \/ Die \/ \E c \in Readings(pos) : Measure(c)
  BY <1>7, <1>a DEF FaultReturn, Die, Measure, Forget
<1>8. ASSUME NEW p \in Positions, Drift(p) PROVE Stalling'
  BY <1>8, <1>b DEF Drift, locals
<1>9. CASE UNCHANGED vars
  BY <1>9, <1>b DEF vars, locals, hist
<1> QED
  BY <1>1, <1>2, <1>3, <1>4, <1>5, <1>6, <1>7, <1>8, <1>9 DEF Next, Drive, WritePin

LEMMA StallFacts ==
  ASSUME TypeOK, Ongoing, Stalling PROVE StallIsReal /\ StuckNoticed
<1>1. StallIsReal
  <2> SUFFICES ASSUME why = "stalled",
                      NEW i \in 1..Len(recent), NEW j \in 1..Len(recent),
                      i > Len(recent) - 6, j > Len(recent) - 6
               PROVE  AbsDiff(recent[i], recent[j]) <= 4
    BY DEF StallIsReal
  <2>1. Close(recent[i]) /\ Close(recent[j])
    BY DEF Stalling, Counted
  <2>3. recent[i] \in Byte /\ recent[j] \in Byte /\ per_current_last \in Byte
    BY ElementOfSeq DEF TypeOK
  <2>2. recent[i] \in Nat /\ recent[j] \in Nat /\ per_current_last \in Nat
    <3>1. \A n \in Byte : n \in Nat
      BY DEF Byte
    <3> QED
      BY <2>3, <3>1, Zenon
  <2> QED
    BY SMTT(30), <2>1, <2>2 DEF Close, AbsDiff
<1>2. StuckNoticed
  <2> SUFFICES ASSUME pc = "sample", Len(recent) = Window,
                      \A i \in 1..Window : recent[i] = recent[1]
               PROVE  FALSE
    BY DEF StuckNoticed
  <2>1. Len(recent) = 7 /\ 7 \in 1..7 /\ recent # <<>>
    BY DEF Window
  <2>2. Followed
    BY <2>1 DEF Stalling, TypeOK, Kinds
  <2>3. Same(7)
    BY <2>1 DEF Same, Window
  <2>4. 7 <= per_stop + 1
    BY <2>1, <2>2, <2>3 DEF Followed
  <2> QED
    BY <2>4 DEF Ongoing, TypeOK
<1> QED
  BY <1>1, <1>2

LEMMA StallingAlways == Spec => [](TypeOK /\ Ongoing /\ Stalling)
<1>1. Init => Stalling
  BY DEF Init, Stalling, Window
<1>2. Init => TypeOK /\ Ongoing
  BY InitInv DEF IInv
<1> QED
  BY <1>1, <1>2, NextStalls, NextTyped, PTL DEF Spec

(* A stall is declared only of a valve that has hardly moved.               *)
THEOREM StallsAreReal == Spec => []StallIsReal
BY StallingAlways, StallFacts, PTL

(* An analog drive does not go on with a valve that has stopped moving.     *)
THEOREM StuckValveNoticed == Spec => []StuckNoticed
BY StallingAlways, StallFacts, PTL

-----------------------------------------------------------------------------
(* The DAC holds the target's count as long as the analog drive waits.      *)
Holding == kind = "DA" /\ pc = "sample" => dac = DacWord(per)

LEMMA NextHolding == TypeOK /\ Outputs /\ Holding /\ [Next]_vars => Holding'
<1> SUFFICES ASSUME TypeOK, Outputs, Holding, [Next]_vars, kind' = "DA",
                    pc' = "sample"
             PROVE  dac' = DacWord(per')
  BY DEF Holding
<1>1. ASSUME NEW k \in Kinds, NEW p \in Targets, NEW z \in {0, 1},
             Begin(k, p, z)
      PROVE  dac' = DacWord(per')
  BY <1>1 DEF Begin
<1>2. CASE Loop
  BY <1>2 DEF Holding, Loop, Arrive, GoOn, NoProgress, Progress, Faulted,
              Sample, Leave, Stay
<1>3. CASE WritePin \/ TimeOut \/ StopDac \/ FaultReturn \/ Die
           \/ \E c \in Readings(pos) : Measure(c)
  BY <1>3 DEF Holding, WritePin, TimeOut, StopDac, FaultReturn, Die, Measure,
              Forget, Leave, locals
<1>4. CASE UNCHANGED vars \/ \E p \in Positions : Drift(p)
  BY <1>4 DEF Holding, Drift, vars, locals
<1> QED
  BY <1>1, <1>2, <1>3, <1>4 DEF Next, Drive

(* An analog drive asks its positioner for an opening within 1 of the       *)
(* target, for every target.                                                *)
THEOREM SetpointsHeld == Spec => []SetpointHeld
<1>1. Init => Holding
  BY DEF Init, Holding
<1>2. TypeOK /\ Holding => SetpointHeld
  BY ReadBack DEF TypeOK, Holding, SetpointHeld, DacGoal
<1>3. IInv => Outputs
  BY DEF IInv
<1> QED
  BY <1>1, <1>2, <1>3, NextHolding, DriveInvariant, PTL DEF Spec

-----------------------------------------------------------------------------
(* What DriveEnds rests on beside the fairness of ValveControl: how many     *)
(* steps a drive has left at most.                                           *)
StepsLeft(p, c, w) ==
  CASE p = "idle" -> 0
    [] p \in {"measure", "faulted"} -> 1
    [] p = "stop"   -> 5 - w
    [] p = "sample" -> 5 + c
    [] p = "set"    -> 9 + Samples - w
DriveLeft == StepsLeft(pc, cnt, wr)

LEMMA StepsLeftFacts ==
  ASSUME NEW c \in 0..Samples, NEW w \in 1..3
  PROVE  /\ StepsLeft("idle", c, w) = 0
         /\ StepsLeft("measure", c, w) = 1 /\ StepsLeft("faulted", c, w) = 1
         /\ StepsLeft("stop", c, w) = 5 - w
         /\ StepsLeft("sample", c, w) = 5 + c
         /\ StepsLeft("set", c, w) = 9 + Samples - w
         /\ Samples \in Nat /\ c \in Nat /\ w \in Nat
BY DriveAssumption DEF StepsLeft, DriveAssumption

(* Every step that is taken during a drive, by whomever, brings its end      *)
(* nearer, and it ends within Samples + 8 of them (the loops' cnt,           *)
(* ValveControl.c 130-134 and 174-177).                                      *)
THEOREM DriveCountsDown ==
  Spec => /\ [](DriveLeft \in 0..(Samples + 8) /\ (DriveLeft = 0 <=> pc = "idle"))
          /\ [][pc # "idle" => DriveLeft' < DriveLeft]_vars
<1>1. TypeOK => DriveLeft \in 0..(Samples + 8) /\ (DriveLeft = 0 <=> pc = "idle")
  <2>. SUFFICES ASSUME TypeOK
                PROVE  DriveLeft \in 0..(Samples + 8) /\ (DriveLeft = 0 <=> pc = "idle")
    OBVIOUS
  <2>1. cnt \in 0..Samples /\ wr \in 1..3
        /\ pc \in {"idle", "set", "sample", "stop", "measure", "faulted"}
    BY DEF TypeOK
  <2>. QED  BY <2>1, StepsLeftFacts DEF DriveLeft
<1>2. TypeOK /\ TypeOK' /\ [Next]_vars => [pc # "idle" => DriveLeft' < DriveLeft]_vars
  <2>. SUFFICES ASSUME TypeOK, TypeOK', Next, pc # "idle"
                PROVE  StepsLeft(pc', cnt', wr') < StepsLeft(pc, cnt, wr)
    BY DEF DriveLeft
  <2>0. cnt \in 0..Samples /\ cnt' \in 0..Samples /\ wr \in 1..3 /\ wr' \in 1..3
    BY DEF TypeOK
  <2>1. CASE Loop
    <3>1. pc = "sample" /\ cnt' = cnt - 1 /\ wr' = wr
      BY <2>1 DEF Loop, Arrive, GoOn, NoProgress, Progress, Faulted, Sample
    <3>2. pc' \in {"sample", "stop", "faulted"}
      BY <2>1, <3>1 DEF Loop, Arrive, GoOn, NoProgress, Progress, Faulted, Leave, Stay
    <3>3. 5 + (cnt - 1) < 5 + cnt /\ 5 - wr < 5 + cnt /\ 1 < 5 + cnt
      BY <2>0, DriveAssumption DEF DriveAssumption
    <3>. QED  BY <2>0, <3>1, <3>2, <3>3, StepsLeftFacts
  <2>2. CASE TimeOut
    <3>1. pc = "sample" /\ pc' = "stop" /\ cnt = 0 /\ wr' = wr
      BY <2>2 DEF TimeOut, Leave
    <3>. QED  BY <2>0, <3>1, StepsLeftFacts
  <2>3. CASE WritePin
    <3>1. /\ cnt' = cnt /\ pc \in {"set", "stop"}
          /\ \/ wr < 3 /\ wr' = wr + 1 /\ pc' = pc
             \/ wr = 3 /\ wr' = 1 /\ pc' = IF pc = "set" THEN "sample" ELSE "measure"
      BY <2>0, <2>3 DEF WritePin, locals
    <3>2. CASE wr < 3
      <4>1. 5 - (wr + 1) < 5 - wr /\ 9 + Samples - (wr + 1) < 9 + Samples - wr
        BY <2>0, DriveAssumption DEF DriveAssumption
      <4>. QED  BY <2>0, <3>1, <3>2, <4>1, StepsLeftFacts
    <3>3. CASE wr = 3
      <4>1. 5 + cnt < 9 + Samples - 3 /\ 1 < 5 - 3
        BY <2>0, DriveAssumption DEF DriveAssumption
      <4>. QED  BY <2>0, <3>1, <3>3, <4>1, StepsLeftFacts
    <3>. QED  BY <2>0, <3>2, <3>3
  <2>4. CASE StopDac
    <3>1. pc = "stop" /\ pc' = "measure"
      BY <2>4 DEF StopDac
    <3>2. 1 < 5 - wr
      BY <2>0
    <3>. QED  BY <2>0, <3>1, <3>2, StepsLeftFacts
  <2>5. CASE FaultReturn \/ Die \/ \E c \in Readings(pos) : Measure(c)
    <3>1. pc' = "idle"
      BY <2>5 DEF FaultReturn, Die, Measure, Forget
    <3>2. pc \in {"set", "sample", "stop", "measure", "faulted"}
      BY DEF TypeOK
    <3>3. 0 < 5 - wr /\ 0 < 5 + cnt /\ 0 < 9 + Samples - wr
      BY <2>0, DriveAssumption DEF DriveAssumption
    <3>. QED  BY <2>0, <3>1, <3>2, <3>3, StepsLeftFacts
  <2>. QED
    BY <2>1, <2>2, <2>3, <2>4, <2>5 DEF Next, Drive, Begin, Drift
<1>3. Spec => []TypeOK
  BY DriveInvariant, PTL
<1>. QED  BY <1>1, <1>2, <1>3, PTL DEF Spec
=============================================================================
