------------------------------ MODULE DevicePm ------------------------------
(***************************************************************************)
(* The battery normalisation of src/hald/device_pm.c on one battery        *)
(* device.  The platform code (ACPI, PMU; not in this repository) writes    *)
(* the battery.reporting.* and battery.voltage.* keys and calls the four    *)
(* functions of device_pm.c in any order: device_pm_abstract_props turns  *)
(* the reporting keys into battery.charge_level.*, converting mAh to mWh   *)
(* with the voltage; device_pm_calculate_percentage and                    *)
(* device_pm_calculate_time derive battery.charge_level.percentage and     *)
(* battery.remaining_time; device_pm_remove_optional_props drops the keys  *)
(* when the cell is removed.  Each call is one step of hald's main loop.    *)
(*                                                                         *)
(* C int arithmetic keeps its 32-bit width: a product wraps modulo 2^32,   *)
(* computed byte by byte so that no intermediate leaves TLC's own range,  *)
(* and division truncates toward zero.                                     *)
(***************************************************************************)
EXTENDS Integers, FiniteSetsExt

CONSTANTS
  Units,           \* values platform code writes to battery.reporting.unit
  Currents,        \* values of battery.reporting.current
  LastFulls,       \* values of battery.reporting.last_full
  Rates,           \* values of battery.reporting.rate
  DesignVoltages,  \* values of battery.voltage.design (mV)
  Voltages,        \* values of battery.voltage.current (mV)
  Flows,           \* <<is_charging, is_discharging>> pairs platform code writes
  MissingInt,      \* hal_device_property_get_int of a missing key (device.c)
  Absent           \* no such property

INT_MAX == 2147483647
INT_MIN == -2147483647 - 1
Int32 == INT_MIN..INT_MAX

ASSUME /\ Units \subseteq {"mAh", "mWh"}
       /\ Flows \subseteq BOOLEAN \X BOOLEAN
       /\ Currents \cup LastFulls \cup Rates \cup DesignVoltages \cup Voltages \cup {MissingInt}
            \subseteq Int32

\* The keys platform code writes, each set together by one refresh.
RawInputs ==
  {r \in [unit : Units, current : Currents, last_full : LastFulls,
          rate : Rates, design_v : DesignVoltages, voltage : Voltages,
          charging : BOOLEAN, discharging : BOOLEAN] :
     <<r.charging, r.discharging>> \in Flows}
RawFields == {"unit", "current", "last_full", "rate", "design_v", "voltage",
              "charging", "discharging"}
LevelFields == {"current", "last_full", "rate", "percentage", "remaining"}

VARIABLES
  raw,     \* the reporting, voltage and charging keys, or Absent
  level,   \* battery.charge_level.{current,last_full,rate,percentage} and
           \* battery.remaining_time, or Absent
  basis    \* history: Expected of the keys the last abstract_props read

vars == <<raw, level, basis>>

-----------------------------------------------------------------------------
(* The property getters: a missing int reads as MissingInt, a missing     *)
(* bool as FALSE.                                                          *)
PropInt(x) == IF x = Absent THEN MissingInt ELSE x
PropBool(x) == x = TRUE

\* C's / on int for a positive divisor: the quotient truncated toward zero.
CDiv(a, b) == IF a >= 0 THEN a \div b ELSE (a + b - 1) \div b

(* C's int * int: the product modulo 2^32 read back as a signed int,      *)
(* computed on the four bytes of the two's complement operands.           *)
Mul32(x, y) ==
  LET Byte(v, i) == (v \div (2 ^ (8 * i))) % 256
      Col(k) == MapThenSumSet(LAMBDA i : Byte(x, i) * Byte(y, k - i), 0..k)
      c0 == Col(0)
      c1 == Col(1) + c0 \div 256
      c2 == Col(2) + c1 \div 256
      c3 == Col(3) + c2 \div 256
      top == c3 % 256
  IN  (c0 % 256) + (c1 % 256) * 256 + (c2 % 256) * 65536
        + (IF top >= 128 THEN top - 256 ELSE top) * 16777216

(* The voltage device_pm_abstract_props converts with: the design voltage *)
(* (1000 mV when unknown) unless the current voltage lies between half of *)
(* it and it.                                                              *)
EffectiveVoltage(r) ==
  LET dv == IF PropInt(r.design_v) <= 0 THEN 1000 ELSE PropInt(r.design_v)
      v  == PropInt(r.voltage)
  IN  IF v < dv \div 2 \/ v > dv THEN dv ELSE v

\* Mutant: the unit test is dropped and every unit is converted.
NormaliseAnyUnit(r, x) == CDiv(Mul32(x, EffectiveVoltage(r)), 1000)

\* The mWh value of a reporting value x: (x * voltage) / 1000 in C ints
\* when the unit is mAh, x itself otherwise.
Normalise(r, x) ==
  IF r.unit = "mAh" THEN CDiv(Mul32(x, EffectiveVoltage(r)), 1000) ELSE x

\* Mutant: a normalised value is stored without the check for negatives.
NonNegUnclamped(x) == x

\* The check of device_pm.c:118-123: a negative normalised value becomes 0.
NonNeg(x) == IF x < 0 THEN 0 ELSE x

(* <<floor(k * d / l), k * d % l>> for 0 <= d <= l, by doubling and      *)
(* adding: a remainder r < l is added to d or to itself only after        *)
(* comparing with l - d or l - r, so no intermediate value exceeds l.     *)
RECURSIVE MulDiv(_, _, _)
MulDiv(k, d, l) ==
  IF k = 0 THEN <<0, 0>>
  ELSE IF k % 2 = 1
  THEN LET p == MulDiv(k - 1, d, l)
       IN  IF p[2] >= l - d THEN <<p[1] + 1, p[2] - (l - d)>>
                            ELSE <<p[1], p[2] + d>>
  ELSE LET p == MulDiv(k \div 2, d, l)
       IN  IF p[2] >= l - p[2] THEN <<2 * p[1] + 1, p[2] - (l - p[2])>>
                               ELSE <<2 * p[1], 2 * p[2]>>

\* x * v leaves the range of int, for v > 0.
Overflows(x, v) == x > INT_MAX \div v \/ x < CDiv(INT_MIN, v)

(* History: the percentages the keys r allow.  In exact arithmetic 100   *)
(* when no charge or no last full charge is reported, else within two     *)
(* points of floor(100 * current / last_full), the current limited to     *)
(* last_full; any percentage when an mAh value times the voltage leaves   *)
(* the range of int.                                                       *)
Expected(r) ==
  LET c == PropInt(r.current)
      l == PropInt(r.last_full)
  IN  IF r.unit = "mAh" /\ \E x \in {c, l} : Overflows(x, EffectiveVoltage(r))
        THEN 0..100
      ELSE IF c <= 0 \/ l <= 0 THEN {100}
      ELSE LET t == MulDiv(100, IF c > l THEN l ELSE c, l)[1]
           IN  (t - 2)..(t + 2)

(* device_pm_abstract_props: 0xffff rate means unknown, the three values  *)
(* are normalised and clamped at 0, the rate is 0 unless charging or      *)
(* discharging, and the current is clamped to the last full charge.       *)
AbstractProps ==
  LET rate0 == IF PropInt(raw.rate) = 65535 THEN 0 ELSE PropInt(raw.rate)
      cur   == NonNeg(Normalise(raw, PropInt(raw.current)))
      full  == NonNeg(Normalise(raw, PropInt(raw.last_full)))
      rate  == IF ~PropBool(raw.charging) /\ ~PropBool(raw.discharging)
                 THEN 0 ELSE NonNeg(Normalise(raw, rate0))
  IN  /\ level' = [level EXCEPT !.current = IF cur > full THEN full ELSE cur,
                                !.last_full = full, !.rate = rate]
      /\ basis' = Expected(raw)
      /\ UNCHANGED raw

(* (int) (((double) c / (double) l) * 100) for 0 < c <= l: the exact     *)
(* floor, or one less when 100 c / l is a whole number that the rounding  *)
(* of c / l to a double may leave just below (29 / 100 * 100 gives 28).  *)
DoublePercent(c, l) ==
  LET qr == MulDiv(100, c, l)
  IN  IF qr[2] = 0 /\ c < l THEN {qr[1], qr[1] - 1} ELSE {qr[1]}

(* device_pm_calculate_percentage: 100 unless both charge levels are      *)
(* positive, limited to 0..100 with 1 for a negative result.  Only        *)
(* device_pm_abstract_props writes the levels, so the current never      *)
(* exceeds the last full charge here.                                      *)
CalculatePercentage ==
  LET c == PropInt(level.current)
      l == PropInt(level.last_full)
      Limit(p) == IF p > 100 THEN 100 ELSE IF p < 0 THEN 1 ELSE p
  IN  /\ UNCHANGED <<raw, basis>>
      /\ \E p \in IF c <= 0 \/ l <= 0 THEN {100}
                  ELSE {Limit(q) : q \in DoublePercent(c, l)} :
            level' = [level EXCEPT !.percentage = p]

(* device_pm_calculate_time: util_compute_time_remaining (not in this     *)
(* repository) answers some time; a positive one is stored, zero or less  *)
(* removes battery.remaining_time.                                        *)
CalculateTime ==
  /\ \E t \in {0, 1} : level' = [level EXCEPT !.remaining = IF t > 0 THEN t ELSE Absent]
  /\ UNCHANGED <<raw, basis>>

(* device_pm_remove_optional_props: every reporting, voltage, charging    *)
(* and charge_level key and battery.remaining_time is removed.            *)
RemoveOptionalProps ==
  /\ raw' = [f \in RawFields |-> Absent]
  /\ level' = [f \in LevelFields |-> Absent]
  /\ basis' = 0..100

\* Platform code writes a fresh set of reporting keys.
Refresh ==
  /\ \E r \in RawInputs : raw' = r
  /\ UNCHANGED <<level, basis>>

Init ==
  /\ raw = [f \in RawFields |-> Absent]
  /\ level = [f \in LevelFields |-> Absent]
  /\ basis = 0..100

Next ==
  \/ Refresh
  \/ AbstractProps
  \/ CalculatePercentage
  \/ CalculateTime
  \/ RemoveOptionalProps

Spec == Init /\ [][Next]_vars

-----------------------------------------------------------------------------
TypeOK ==
  /\ raw \in RawInputs \cup {[f \in RawFields |-> Absent]}
  /\ level \in [LevelFields -> Nat \cup {Absent}]
  /\ basis \subseteq -2..102

(* The percentage device_pm_calculate_percentage stores is, within two    *)
(* points of rounding, the share of the last full charge that the battery *)
(* reported, whatever the unit and voltage; a battery that reports no     *)
(* charge or no last full charge reads 100 (the "broken battery" default *)
(* of device_pm.c:159, taken for an empty battery as well).  The only     *)
(* exception is an mAh report whose product with the voltage leaves the   *)
(* range of int at device_pm.c:104.                                        *)
PercentageTracksReport ==
  [][CalculatePercentage => level'.percentage \in basis]_vars
=============================================================================
