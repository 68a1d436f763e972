--------------------------- MODULE PmuStatusProofs ---------------------------
(***************************************************************************)
(* Proofs about PmuStatus, for all battery tables, voltages, schedules,    *)
(* times and clocks: the percentage stays within its range, and it only    *)
(* falls as long as the device runs on its battery.                        *)
(***************************************************************************)
EXTENDS PmuStatus, TLAPS, WellFoundedInduction

LEMMA LeastNatural ==
  ASSUME NEW T, T \subseteq Nat, T # {}
  PROVE  \E x \in T : \A y \in T : x <= y
<1>1. IsWellFoundedOn({ss \in Nat \X Nat : ss[1] < ss[2]}, Nat)
  BY NatLessThanWellFounded DEF OpToRel
<1> DEFINE R == {ss \in Nat \X Nat : ss[1] < ss[2]}
<1>2. PICK x \in T : \A y \in T : ~ (<<y, x>> \in R)
  <2> HIDE DEF R
  <2> QED BY <1>1, WFMin DEF R
<1>3. \A y \in T : ~(y < x)
  BY <1>2
<1> QED BY <1>3

(***************************************************************************)
(* The percentage.                                                         *)
(***************************************************************************)
\* A share of an interval is no more than the interval.
LEMMA Share ==
  ASSUME NEW a \in Nat, NEW b \in Nat, NEW s \in Nat, b > 0, a <= b
  PROVE  (a * s) \div b \in 0 .. s
<1> DEFINE q == (a * s) \div b
<1>1. a * s \in Nat /\ b * s \in Nat
  OBVIOUS
<1>2. a * s <= b * s
  OBVIOUS
<1>3. q \in Nat /\ b * q <= a * s
  BY <1>1
<1>4. ASSUME q > s PROVE FALSE
  <2>1. b * q >= b * (s + 1)
    BY <1>3, <1>4
  <2>2. b * (s + 1) = b * s + b
    OBVIOUS
  <2> HIDE DEF q
  <2> QED BY <1>1, <1>2, <1>3, <2>1, <2>2
<1> QED BY <1>3, <1>4

\* What a battery table is.
IsTable(t) ==
  t \in Seq(Nat) /\ Len(t) \in Nat /\ Len(t) > 1 /\ Decreasing(t)

LEMMA TablesAreTables ==
  ASSUME NEW name \in Tables
  PROVE  IsTable(Table(name)) /\ Intervals(Table(name)) = Intervals(Builtin["charge"])
<1>1. "charge" \in Tables
  BY DEF Tables
<1>2. Len(Builtin[name]) = Len(Builtin["charge"])
  BY <1>1, TablesAssumption
<1> QED BY <1>2, TablesAssumption DEF Table, IsTable, Intervals

LEMMA BetweenRange ==
  ASSUME NEW t, IsTable(t), NEW v \in Nat, v <= t[1], v > t[Len(t)]
  PROVE  Between(t, v) \in 0 .. Full(t)
<1> DEFINE T == {i \in 1 .. Intervals(t) : t[i + 1] <= v}
           Found(i) == t[i + 1] <= v /\ \A j \in 1 .. i - 1 : v < t[j + 1]
<1>1. Intervals(t) \in Nat \ {0} /\ Intervals(t) + 1 = Len(t)
  BY DEF IsTable, Intervals
<1>2. \A i \in 1 .. Len(t) : t[i] \in Nat
  BY DEF IsTable
<1>3. Intervals(t) \in T
  BY <1>1, <1>2
<1>4. PICK k \in T : \A i \in T : k <= i
  <2>1. T \subseteq Nat
    BY <1>1
  <2> HIDE DEF T
  <2> QED BY <1>3, <2>1, LeastNatural
<1>5. \E i \in 1 .. Intervals(t) : Found(i)
  <2>1. \A j \in 1 .. k - 1 : v < t[j + 1]
    <3> TAKE j \in 1 .. k - 1
    <3>1. j \in 1 .. Intervals(t) /\ j \notin T
      BY <1>1, <1>4
    <3> QED BY <1>1, <1>2, <3>1
  <2> QED BY <1>4, <2>1
<1> DEFINE i == CHOOSE i \in 1 .. Intervals(t) : Found(i)
<1>6. i \in 1 .. Intervals(t) /\ Found(i)
  BY <1>5
<1>7. Between(t, v) =
        Step * (Intervals(t) - i) + ((v - t[i + 1]) * Step) \div (t[i] - t[i + 1])
  BY DEF Between
<1> HIDE DEF i
<1>8. t[i] \in Nat /\ t[i + 1] \in Nat /\ t[i] > t[i + 1] /\ t[i + 1] <= v
  BY <1>1, <1>2, <1>6 DEF IsTable, Decreasing
<1>9. v <= t[i]
  <2>1. CASE i = 1
    BY <2>1
  <2>2. CASE i # 1
    <3>1. i - 1 \in 1 .. i - 1
      BY <1>1, <1>6, <2>2
    <3>2. v < t[i - 1 + 1]
      BY <1>6, <3>1
    <3>3. i - 1 + 1 = i
      BY <1>1, <1>6
    <3> QED BY <1>8, <3>2, <3>3
  <2> QED BY <2>1, <2>2
<1> DEFINE share == ((v - t[i + 1]) * Step) \div (t[i] - t[i + 1])
<1>10. share \in 0 .. Step
  <2>1. /\ v - t[i + 1] \in Nat /\ t[i] - t[i + 1] \in Nat
        /\ t[i] - t[i + 1] > 0 /\ v - t[i + 1] <= t[i] - t[i + 1]
    BY <1>8, <1>9
  <2> QED BY <2>1, Share, TablesAssumption
<1> HIDE DEF share
<1>11. Step \in Nat
  BY TablesAssumption
<1>12. /\ Step * (Intervals(t) - i) \in Nat
       /\ Step * (Intervals(t) - i) + Step <= Step * Intervals(t)
  <2>1. PICK m \in Nat : m = Intervals(t) - i
    BY <1>1, <1>6
  <2>2. m + 1 <= Intervals(t)
    BY <1>1, <1>6, <2>1
  <2>3. Step * (m + 1) <= Step * Intervals(t)
    BY <1>1, <1>11, <2>2
  <2>4. Step * (m + 1) = Step * m + Step /\ Step * m \in Nat
    BY <1>11
  <2> QED BY <2>1, <2>3, <2>4
<1>13. Between(t, v) = Step * (Intervals(t) - i) + share
  BY <1>7 DEF share
<1>14. Step * Intervals(t) \in Nat
  BY <1>1, <1>11
<1> QED BY <1>10, <1>11, <1>12, <1>13, <1>14 DEF Full

\* Whatever the table, the modem and the voltage.
LEMMA PercentageRange ==
  ASSUME NEW name \in Tables, NEW v \in Voltages
  PROVE  Percentage(Table(name), v) \in 0 .. Whole
<1> DEFINE t == Table(name)
<1>1. IsTable(t) /\ Full(t) = Whole
  BY TablesAreTables DEF Full, Whole
<1>2. v \in Nat /\ Step \in Nat
  BY TablesAssumption
<1>3. Full(t) \in Nat
  <2>1. Intervals(t) \in Nat
    BY <1>1 DEF IsTable, Intervals
  <2> QED BY <1>2, <2>1 DEF Full
<1> HIDE DEF t
<1>4. CASE v > t[1]
  BY <1>1, <1>3, <1>4 DEF Percentage, t
<1>5. CASE ~(v > t[1]) /\ v > t[Len(t)]
  <2>1. v <= t[1]
    BY <1>1, <1>2, <1>5 DEF IsTable
  <2>2. Between(t, v) \in 0 .. Full(t)
    BY <1>1, <1>2, <1>5, <2>1, BetweenRange
  <2> QED BY <1>1, <1>5, <2>2 DEF Percentage, t
<1>6. CASE ~(v > t[1]) /\ ~(v > t[Len(t)])
  BY <1>1, <1>3, <1>6 DEF Percentage, t
<1> QED BY <1>4, <1>5, <1>6

LEMMA WholeIsNat == Whole \in Nat
<1>1. Whole = Step * Intervals(Builtin["charge"])
  BY DEF Whole, Full
<1>2. Step \in Nat /\ Intervals(Builtin["charge"]) \in Nat
  BY TablesAssumption DEF Intervals, Tables
<1> QED BY <1>1, <1>2

(***************************************************************************)
(* The battery.                                                            *)
(***************************************************************************)
\* The part of the type the percentage depends on.
BatteryOK ==
  /\ battery \in [onBattery : BOOLEAN, shown : 0 .. Whole, cap : 0 .. Whole]
  /\ battery.onBattery => battery.shown = battery.cap

\* A report changes the battery, and nothing else does.
LEMMA BatteryStep ==
  ASSUME BatteryOK, [Next]_vars
  PROVE  \/ UNCHANGED battery
         \/ \E p \in 0 .. Whole : battery' = OnCharger(p) \/ battery' = OnBattery(p)
<1>1. ASSUME NEW v \in Voltages, NEW present \in BOOLEAN, Report(v, present)
      PROVE  \E p \in 0 .. Whole : battery' = OnCharger(p) \/ battery' = OnBattery(p)
  <2>1. {"charge", "5g", "normal"} \subseteq Tables
    BY DEF Tables
  <2>2. CASE present
    BY <1>1, <2>1, <2>2, PercentageRange DEF Report
  <2>3. CASE ~present
    <3>1. PICK name \in Tables : battery' = OnBattery(Percentage(Table(name), v))
      BY <1>1, <2>1, <2>3 DEF Report
    <3> QED BY <3>1, PercentageRange
  <2> QED BY <2>2, <2>3
<1>2. CASE Tick
  BY <1>2 DEF Tick
<1>3. CASE PowerOnEvent \/ SetAuto \/ TimePasses
  BY <1>3 DEF PowerOnEvent, SetAuto, TimePasses
<1>4. CASE PmuSetsClock \/ LoseSync \/ AdjustClock \/ ModemChanges
  BY <1>4 DEF PmuSetsClock, LoseSync, AdjustClock, ModemChanges
<1>5. CASE UNCHANGED vars
  BY <1>5 DEF vars
<1> QED BY <1>1, <1>2, <1>3, <1>4, <1>5 DEF Next

LEMMA BatteryKept == ASSUME BatteryOK, [Next]_vars PROVE BatteryOK'
<1>1. CASE UNCHANGED battery
  BY <1>1 DEF BatteryOK
<1>2. ASSUME NEW p \in 0 .. Whole, battery' = OnCharger(p)
      PROVE  BatteryOK'
  BY <1>2, WholeIsNat DEF BatteryOK, OnCharger
<1>3. ASSUME NEW p \in 0 .. Whole, battery' = OnBattery(p)
      PROVE  BatteryOK'
  BY <1>3, WholeIsNat DEF BatteryOK, OnBattery
<1> QED BY <1>1, <1>2, <1>3, BatteryStep

LEMMA BatteryFalls ==
  ASSUME BatteryOK, [Next]_vars, battery.onBattery, battery'.onBattery
  PROVE  battery'.shown <= battery.shown
<1>1. battery.shown \in Nat /\ battery.cap = battery.shown
  BY WholeIsNat DEF BatteryOK
<1>2. ASSUME NEW p \in 0 .. Whole, battery' = OnBattery(p)
      PROVE  battery'.shown <= battery.shown
  BY <1>1, <1>2, WholeIsNat DEF OnBattery
<1>3. ASSUME NEW p \in 0 .. Whole, battery' = OnCharger(p)
      PROVE  FALSE
  BY <1>3 DEF OnCharger
<1> QED BY <1>1, <1>2, <1>3, BatteryStep

\* On battery the percentage shown never rises.
THEOREM PercentageFalls == Spec => FallsOnBattery
<1>1. Init => BatteryOK
  BY WholeIsNat DEF Init, BatteryOK
<1>2. BatteryOK /\ [Next]_vars => BatteryOK'
  BY BatteryKept
<1>3. BatteryOK /\ [Next]_vars =>
        [battery.onBattery /\ battery'.onBattery => battery'.shown <= battery.shown]_vars
  BY BatteryFalls
<1> QED BY <1>1, <1>2, <1>3, PTL DEF Spec, FallsOnBattery
-----------------------------------------------------------------------------
(***************************************************************************)
(* The timer: the time since the charger was last seen is always known,    *)
(* the voltage asked for is that of the modem known, and shutdown_planned  *)
(* tells whether anything was asked for.                                   *)
(***************************************************************************)
TimerOK ==
  age = unseen /\ cutOff = ShutdownVoltage(known) /\ (planned <=> asked # {})

LEMMA AgeMaxIsNat == AgeMax \in Nat /\ AgeMax > 0
<1> DEFINE T == {c.timeout : c \in Chargers}
<1>1. \E m \in T : \A c \in Chargers : c.timeout <= m
  BY ChargersAssumption
<1>2. T \subseteq Nat
  BY ChargersAssumption
<1> DEFINE most == CHOOSE m \in T : \A c \in Chargers : c.timeout <= m
<1>3. most \in Nat
  BY <1>1, <1>2
<1>4. AgeMax = 1 + most
  BY DEF AgeMax
<1> QED BY <1>3, <1>4

\* The type of the whole state.
LEMMA TypeHolds ==
  ASSUME TypeOK, [Next]_vars
  PROVE  TypeOK'
<1> USE DEF TypeOK
<1>1. BatteryOK'
  BY BatteryKept DEF BatteryOK
<1>2. ASSUME NEW v \in Voltages, NEW present \in BOOLEAN, Report(v, present)
      PROVE  TypeOK'
  <2>1. line' \in Seq(Clocks) /\ Len(line') <= LineMax
    <3>1. CASE timeSet /\ OutOfSync
      <4> DEFINE all == Append(line, host)
      <4>1. all \in Seq(Clocks) /\ Len(all) = Len(line) + 1 /\ Len(line) \in Nat
        OBVIOUS
      <4>2. line' = (IF Len(all) > LineMax THEN Tail(all) ELSE all)
        BY <1>2, <3>1 DEF Report, CheckClock, Sync
      <4> HIDE DEF all
      <4>3. all # <<>>
        BY <4>1
      <4>4. Tail(all) \in Seq(Clocks) /\ Len(Tail(all)) = Len(all) - 1
        BY <4>1, <4>3
      <4> QED BY <4>1, <4>2, <4>4, ClocksAssumption
    <3>2. CASE ~(timeSet /\ OutOfSync)
      BY <1>2, <3>2 DEF Report, CheckClock
    <3> QED BY <3>1, <3>2
  <2>2. host' \in Clocks /\ timeSet' \in BOOLEAN
    BY <1>2 DEF Report, CheckClock
  <2>3. charger' \in BOOLEAN /\ did' = "-"
    BY <1>2 DEF Report
  <2>4. UNCHANGED <<pmuClock, modemVars, timerVars>>
    BY <1>2 DEF Report
  <2> QED BY <1>1, <2>1, <2>2, <2>3, <2>4 DEF BatteryOK, modemVars, timerVars
<1>3. CASE Tick
  <2>1. age' \in 0 .. AgeMax /\ unseen' \in 0 .. AgeMax
    BY <1>3, AgeMaxIsNat DEF Tick, Refreshed, OneMore
  <2>2. /\ did' \in {"-", "idle", "charger", "schedule"} /\ planned' \in BOOLEAN
        /\ asked' \subseteq {"charger", "schedule"}
    BY <1>3 DEF Tick
  <2>3. known' \in Modems /\ cutOff' \in {ShutdownVoltage(m) : m \in Modems}
    BY <1>3 DEF Tick
  <2> QED BY <1>1, <1>3, <2>1, <2>2, <2>3 DEF Tick, BatteryOK, clockVars
<1>4. CASE PowerOnEvent
  BY <1>1, <1>4 DEF PowerOnEvent, BatteryOK, clockVars, modemVars
<1>5. CASE SetAuto
  BY <1>1, <1>5 DEF SetAuto, BatteryOK, clockVars, modemVars
<1>6. CASE TimePasses
  BY <1>1, <1>6 DEF TimePasses, BatteryOK, clockVars, modemVars
<1>7. CASE PmuSetsClock \/ LoseSync
  <2>1. Head(line) \in Clocks /\ Tail(line) \in Seq(Clocks) /\ Len(Tail(line)) <= LineMax
    BY <1>7, ClocksAssumption DEF PmuSetsClock, LoseSync
  <2> QED BY <1>1, <1>7, <2>1 DEF PmuSetsClock, LoseSync, BatteryOK, modemVars, timerVars
<1>8. CASE AdjustClock \/ ModemChanges
  BY <1>1, <1>8 DEF AdjustClock, ModemChanges, BatteryOK, clockVars, modemVars, timerVars
<1>9. CASE UNCHANGED vars
  BY <1>9 DEF vars, clockVars, modemVars, timerVars
<1> QED BY <1>2, <1>3, <1>4, <1>5, <1>6, <1>7, <1>8, <1>9 DEF Next

LEMMA TypeStarts == Init => TypeOK
<1>1. ASSUME NEW c \in Clocks PROVE <<c>> \in Seq(Clocks) /\ Len(<<c>>) <= LineMax
  BY ClocksAssumption
<1>2. "none" \in Modems
  BY ModemsAssumption
<1>3. Init => BatteryOK
  BY WholeIsNat DEF Init, BatteryOK
<1>4. Init => line \in Seq(Clocks) /\ Len(line) <= LineMax
  BY <1>1 DEF Init
<1>5. Init => /\ host \in Clocks /\ pmuClock \in Clocks \cup {Bad}
              /\ timeSet \in BOOLEAN /\ charger \in BOOLEAN /\ planned \in BOOLEAN
              /\ asked \subseteq {"charger", "schedule"}
              /\ auto \in Chargers /\ now \in Times
  BY DEF Init
<1>6. Init => /\ modem \in Modems /\ known \in Modems
              /\ cutOff \in {ShutdownVoltage(m) : m \in Modems}
  BY <1>2 DEF Init
<1>7. Init => /\ powerOn \in {"unknown", "charger", "other"}
              /\ age \in 0 .. AgeMax /\ unseen \in 0 .. AgeMax
              /\ did \in {"-", "idle", "charger", "schedule"}
  BY AgeMaxIsNat DEF Init
<1> QED BY <1>3, <1>4, <1>5, <1>6, <1>7 DEF TypeOK, BatteryOK

\* The state keeps its type; the percentage stays within its range.
THEOREM TypeCorrect == Spec => []TypeOK
<1>1. Init => TypeOK
  BY TypeStarts
<1>2. TypeOK /\ [Next]_vars => TypeOK'
  BY TypeHolds
<1> QED BY <1>1, <1>2, PTL DEF Spec

\* Only a tick decides anything, and it decides right.
LEMMA TickDecides ==
  ASSUME TypeOK, TimerOK, Tick
  PROVE  LET long == auto.on /\ powerOn = "charger" /\ unseen' > auto.timeout
             due == ~auto.on /\ Due(now)
         IN  /\ did' = "charger" => /\ auto.on /\ powerOn = "charger"
                                    /\ unseen' > 0 /\ unseen' >= auto.timeout
             /\ did' = "schedule" => due /\ asked = {}
             /\ did' = "idle" => ~long /\ (due => asked # {})
             /\ did' # "-" => cutOff' = ShutdownVoltage(modem')
<1>1. unseen' = age' /\ age' \in Nat /\ auto.timeout \in Nat
  BY AgeMaxIsNat, ChargersAssumption DEF Tick, Refreshed, OneMore, TimerOK, TypeOK
<1>2. PICK over \in Over(age') :
        did' = IF auto.on
               THEN IF powerOn = "charger" /\ over THEN "charger" ELSE "idle"
               ELSE IF ~planned /\ Due(now) THEN "schedule" ELSE "idle"
  BY DEF Tick
<1>3. /\ over = TRUE => age' > 0 /\ age' >= auto.timeout
      /\ age' > auto.timeout => over = TRUE
      /\ over \in BOOLEAN
  <2>1. CASE age' > auto.timeout
    <3>1. Over(age') = {TRUE}
      BY <2>1 DEF Over
    <3>2. over = TRUE
      BY <3>1
    <3> QED BY <1>1, <2>1, <3>2
  <2>2. CASE age' = auto.timeout /\ age' > 0
    <3>1. over \in BOOLEAN
      BY <1>1, <2>2 DEF Over
    <3> QED BY <1>1, <2>2, <3>1
  <2>3. CASE ~(age' > auto.timeout) /\ ~(age' = auto.timeout /\ age' > 0)
    <3>1. Over(age') = {FALSE}
      BY <2>3 DEF Over
    <3>2. over = FALSE
      BY <3>1
    <3> QED BY <2>3, <3>2
  <2> QED BY <2>1, <2>2, <2>3
<1>4. cutOff' = ShutdownVoltage(modem')
  BY DEF Tick, TimerOK
<1>5. /\ did' = "charger" => auto.on /\ powerOn = "charger" /\ over
      /\ did' = "schedule" => ~auto.on /\ ~planned /\ Due(now)
      /\ did' = "idle" => ~(auto.on /\ powerOn = "charger" /\ over)
      /\ did' = "idle" => ~(~auto.on /\ ~planned /\ Due(now))
  BY <1>2
<1>6. planned <=> asked # {}
  BY DEF TimerOK
<1> QED BY <1>1, <1>3, <1>4, <1>5, <1>6

LEMMA TimerKept == ASSUME TypeOK, TimerOK, [Next]_vars PROVE TimerOK'
<1>1. ASSUME NEW v \in Voltages, NEW present \in BOOLEAN, Report(v, present)
      PROVE  TimerOK'
  BY <1>1 DEF Report, TimerOK, modemVars, timerVars
<1>2. CASE Tick
  <2>1. age' = unseen' /\ cutOff' = ShutdownVoltage(known')
    BY <1>2 DEF Tick, Refreshed, TimerOK
  <2>2. planned' <=> asked' # {}
    <3>1. asked' = asked \cup ({did'} \ {"idle"})
      BY <1>2 DEF Tick
    <3>2. planned' <=> (planned \/ did' # "idle")
      BY <1>2 DEF Tick
    <3>3. asked' # {} <=> asked # {} \/ did' # "idle"
      BY <3>1
    <3> QED BY <3>2, <3>3 DEF TimerOK
  <2> QED BY <2>1, <2>2 DEF TimerOK
<1>3. CASE PowerOnEvent \/ SetAuto \/ TimePasses
  BY <1>3 DEF PowerOnEvent, SetAuto, TimePasses, TimerOK, modemVars
<1>4. CASE PmuSetsClock \/ LoseSync \/ AdjustClock \/ ModemChanges
  BY <1>4 DEF PmuSetsClock, LoseSync, AdjustClock, ModemChanges, TimerOK,
              modemVars, timerVars
<1>5. CASE UNCHANGED vars
  BY <1>5 DEF vars, modemVars, timerVars, TimerOK
<1> QED BY <1>1, <1>2, <1>3, <1>4, <1>5 DEF Next

LEMMA OthersDecideNothing ==
  ASSUME [Next]_vars, ~Tick
  PROVE  did' = "-" \/ UNCHANGED vars
BY DEF Next, Report, PowerOnEvent, SetAuto, TimePasses, PmuSetsClock, LoseSync,
       AdjustClock, ModemChanges

\* The timer asks to power off exactly when it should, and an event of the
\* schedule is passed over only after a request was made.
THEOREM RequestsExact == Spec => RequestsAreExact
<1> DEFINE Exact ==
      LET long == auto.on /\ powerOn = "charger" /\ unseen' > auto.timeout
          due == ~auto.on /\ Due(now)
      IN  /\ did' = "charger" => /\ auto.on /\ powerOn = "charger"
                                 /\ unseen' > 0 /\ unseen' >= auto.timeout
          /\ did' = "schedule" => due /\ asked = {}
          /\ did' = "idle" => ~long /\ (due => asked # {})
          /\ did' # "-" => cutOff' = ShutdownVoltage(modem')
<1>1. Init => TimerOK
  BY DEF Init, TimerOK
<1>2. TypeOK /\ TimerOK /\ [Next]_vars => TimerOK'
  BY TimerKept
<1>3. TypeOK /\ TimerOK /\ [Next]_vars => [Exact]_vars
  <2> SUFFICES ASSUME TypeOK, TimerOK, [Next]_vars PROVE [Exact]_vars
    OBVIOUS
  <2>1. CASE Tick
    <3>1. Exact
      BY <2>1, TickDecides
    <3> QED BY <3>1
  <2>2. CASE ~Tick
    <3>1. CASE did' = "-"
      <4>1. Exact
        BY <3>1
      <4> QED BY <4>1
    <3>2. CASE UNCHANGED vars
      BY <3>2
    <3> QED BY <2>2, <3>1, <3>2, OthersDecideNothing
  <2> QED BY <2>1, <2>2
<1> QED BY <1>1, <1>2, <1>3, TypeCorrect, PTL DEF Spec, RequestsAreExact
=============================================================================
