----------------------------- MODULE ValveMath -----------------------------
(***************************************************************************)
(* The arithmetic of the valve drive: from a percentage to the count of    *)
(* the 10-bit DAC and from the counts of three 16-bit conversions back to  *)
(* a percentage.  The code computes in float; every value it can meet is   *)
(* either exact in a 24-bit mantissa (the AD side) or farther from the     *)
(* next integer than the rounding (the DA side), so the integer divisions  *)
(* below give the code's results.                                          *)
(***************************************************************************)
EXTENDS Naturals

Byte  == 0..255
Word  == {n \in Nat : n < 65536}
DacCount == {n \in Nat : n < 1024}
Fault == 255           \* the percentage that stands for a faulty loop current

AbsDiff(a, b) == IF a > b THEN a - b ELSE b - a

MaxOf(a, b) == IF a > b THEN a ELSE b
MinOf(a, b) == IF a < b THEN a ELSE b

(* TINZ_MID.                                                                *)
Mid(a, b, c) ==
  IF MaxOf(a, b) > c THEN MaxOf(MinOf(a, b), c) ELSE MinOf(MaxOf(a, b), c)

(* Mutant of PerValueToDA: the 4 mA that stand for 0 are forgotten.         *)
PerValueFromZero(per) == (65536 * per) \div 10000

(* PerValueToDA: 40.96 counts per mA, 4 mA plus 0.16 mA per percent.  The   *)
(* coefficients are scaled by 10000.                                        *)
PerValueToDA(per) == (65536 * per + 1638400) \div 10000

(* The DAC takes the low ten bits of a count.                               *)
DacWord(per) == PerValueToDA(per) % 1024

(* AdValueToIa: 25 mA are 65536 counts; in 1/65536 mA.                      *)
Current(ad) == 25 * ad

(* AdValueToPer: outside 3..22 mA the loop is faulty; between, the current  *)
(* is clamped to 4..20 mA and becomes a percentage.                         *)
AdValueToPer(ad) ==
  IF Current(ad) > 22 * 65536 \/ Current(ad) < 3 * 65536
    THEN Fault
    ELSE (625 * MinOf(MaxOf(Current(ad), 4 * 65536), 20 * 65536)) \div 6553600
           - 25

(* GetPerValue: the percentage of the middle one of three conversions.  A   *)
(* conversion that times out leaves its count at 0.                         *)
GetPerValue(a, b, c) == AdValueToPer(Mid(a, b, c))

(* The counts the converter measures for the current of a DAC count: both   *)
(* converters are 25 mA at full scale, the AD one has 64 times the steps.   *)
LoopCount(dac) == 64 * dac
=============================================================================
