------------------------------ MODULE PmuStatus ------------------------------
(***************************************************************************)
(* src/src/pmu-manager.c: what the manager does with the status reports of *)
(* the PMU (its clock, the battery, the charger) and what the one second   *)
(* timer decides from them and from the user's settings: to power off      *)
(* because the charger is away or a scheduled event is due, and at which   *)
(* voltage the PMU is to cut the power.  The timer's work for the link is  *)
(* PmuLink's, what follows a request to power off is PowerControl's.       *)
(***************************************************************************)
EXTENDS Integers, Sequences, FiniteSets

CONSTANTS
  Configured, Builtin,  \* battery tables by name: of the configuration, and
                        \* the ones of the program
  Step,                 \* hundredths of a percent between two entries, 1000
  Voltages,             \* battery voltages the PMU reports
  Schedule,             \* the events of the user's schedule
  Times,                \* calendar times, UTC
  Modems,               \* modems that may be plugged: none, lte, 5g
  Chargers,             \* settings of the auto start: on, timeout in seconds
  Clocks,               \* clock readings more than a minute apart
  LineMax,              \* commands that set the PMU's clock and are under way
  MaxAdjust             \* bound: how often others set the host's clock

Tables == {"charge", "normal", "5g"}

\* An entry is above the next one.
Decreasing(t) == \A i \in 1 .. Len(t) - 1 : t[i] > t[i + 1]

ASSUME TablesAssumption ==
  /\ Step \in Nat
  /\ \A name \in Tables :
       /\ Builtin[name] \in Seq(Nat) /\ Configured[name] \in Seq(Nat)
       /\ Len(Builtin[name]) = Len(Configured[name]) /\ Len(Builtin[name]) > 1
       /\ Decreasing(Builtin[name])
       /\ \A other \in Tables : Len(Builtin[name]) = Len(Builtin[other])
  /\ Voltages \subseteq Nat

ASSUME ModemsAssumption == "none" \in Modems /\ Modems \subseteq {"none", "lte", "5g"}

ASSUME ChargersAssumption ==
  /\ \A c \in Chargers : c.on \in BOOLEAN /\ c.timeout \in Nat
  /\ \E c \in Chargers : \A d \in Chargers : d.timeout <= c.timeout

Bad == -1    \* a date that is none
ASSUME ClocksAssumption == Clocks \subseteq Nat /\ LineMax \in Nat \ {0}

VARIABLES
  host,      \* the host's clock
  pmuClock,  \* the PMU's clock
  timeSet,   \* system_time_set_flag
  line,      \* DATE_TIME_SYNC commands under way to the PMU
  adjusted,  \* number of times others set the host's clock (bound only)
  modem,     \* pcat_modem_manager_device_type_get()
  known,     \* modem_device_type: the modem at the last tick
  cutOff,    \* the shutdown voltage last asked of the PMU
  battery,   \* last_on_battery_state, last_battery_percentage and its cap
  charger,   \* last_charger_voltage is at least 4200 mV
  powerOn,   \* power_on_event: unknown (0), charger (3 or 4) or other
  auto,      \* charger_on_auto_start and its timeout
  now,       \* the host's clock as a calendar time
  age,       \* seconds since charger_on_auto_start_last_timestamp
  planned,   \* shutdown_planned
  did,       \* what the timer did if it ran last: nothing or a request
  unseen,    \* history: ticks since one saw the charger, or the start
  asked      \* history: the reasons for which power off was requested so far

clockVars == <<host, pmuClock, timeSet, line, adjusted>>
timerVars == <<powerOn, auto, now, age, planned, unseen, asked>>
modemVars == <<modem, known, cutOff>>
vars == <<clockVars, modemVars, battery, charger, timerVars, did>>
----------------------------------------------------------------------------
(***************************************************************************)
(* The battery.                                                            *)
(***************************************************************************)
\* A configured table is used only if each entry is above the next.
Table(name) ==
  IF Decreasing(Configured[name]) THEN Configured[name] ELSE Builtin[name]

Intervals(t) == Len(t) - 1
Full(t) == Step * Intervals(t)
Whole == Full(Builtin["charge"])

\* Mutant: interpolates from the wrong end of the interval.
BetweenShifted(t, v) ==
  LET i == CHOOSE i \in 1 .. Intervals(t) :
             t[i + 1] <= v /\ \A j \in 1 .. i - 1 : v < t[j + 1]
  IN  Step * (Intervals(t) - i + 1) + ((v - t[i + 1]) * Step) \div (t[i] - t[i + 1])

\* The first interval whose lower end the voltage reaches.
Between(t, v) ==
  LET i == CHOOSE i \in 1 .. Intervals(t) :
             t[i + 1] <= v /\ \A j \in 1 .. i - 1 : v < t[j + 1]
  IN  Step * (Intervals(t) - i) + ((v - t[i + 1]) * Step) \div (t[i] - t[i + 1])

\* In hundredths of a percent, rounded down.
Percentage(t, v) ==
  IF v > t[1] THEN Full(t)
  ELSE IF v > t[Len(t)] THEN Between(t, v)
  ELSE 0

\* Mutant: the cap is kept but not shown.
OnBatteryUncapped(p) ==
  [onBattery |-> TRUE, shown |-> p, cap |-> IF p < battery.cap THEN p ELSE battery.cap]

\* On battery the percentage shown only falls; the charger lifts the cap.
OnBattery(p) ==
  LET least == IF p < battery.cap THEN p ELSE battery.cap
  IN  [onBattery |-> TRUE, shown |-> least, cap |-> least]

OnCharger(p) == [onBattery |-> FALSE, shown |-> p, cap |-> Whole]
----------------------------------------------------------------------------
(***************************************************************************)
(* The clocks.                                                             *)
(***************************************************************************)
\* Mutant: only a PMU that is behind is corrected.
OutOfSyncBehind == pmuClock < host

\* Apart by more than 60 seconds; a bad date counts as the year 1970.
OutOfSync == pmuClock # host

\* The oldest command gives way when there are too many.
Sync(time) ==
  LET all == Append(line, time)
  IN  line' = IF Len(all) > LineMax THEN Tail(all) ELSE all

\* The first report sets the host's clock, which may fail: the microseconds
\* passed to settimeofday() are not initialised.  Later ones are compared.
CheckClock ==
  \/ /\ timeSet /\ OutOfSync
     /\ Sync(host)
     /\ UNCHANGED <<host, timeSet>>
  \/ /\ timeSet /\ ~OutOfSync
     /\ UNCHANGED <<host, timeSet, line>>
  \/ /\ ~timeSet
     /\ timeSet' = TRUE
     /\ host' \in {host} \cup ({pmuClock} \cap Clocks)
     /\ UNCHANGED line

Report(v, present) ==
  /\ CheckClock
  /\ battery' = IF present THEN OnCharger(Percentage(Table("charge"), v))
                ELSE OnBattery(Percentage(Table(IF modem = "5g" THEN "5g" ELSE "normal"), v))
  /\ charger' = present
  /\ did' = "-"
  /\ UNCHANGED <<pmuClock, adjusted, modemVars, timerVars>>
----------------------------------------------------------------------------
(***************************************************************************)
(* The timer.                                                              *)
(***************************************************************************)
\* What an event compares, by the coarsest of its enable bits.
Compared(e) ==
  IF "year" \in e.bits THEN {"year", "month", "day", "hour", "minute"}
  ELSE IF "month" \in e.bits THEN {"month", "day", "hour", "minute"}
  ELSE IF "day" \in e.bits THEN {"day", "hour", "minute"}
  ELSE IF "dow" \in e.bits THEN {"dow", "hour", "minute"}
  ELSE IF "hour" \in e.bits THEN {"hour", "minute"}
  ELSE {"minute"}

Matches(e, t) ==
  \A f \in Compared(e) : IF f = "dow" THEN t.dow \in e.dow ELSE t[f] = e[f]

Due(t) ==
  \E e \in Schedule : e.enabled /\ ~e.on /\ "minute" \in e.bits /\ Matches(e, t)

AgeMax == 1 + CHOOSE m \in {c.timeout : c \in Chargers} :
                \A c \in Chargers : c.timeout <= m
OneMore(n) == IF n < AgeMax THEN n + 1 ELSE n

\* Mutant: the timestamp is kept up only while it is used.
RefreshedWhenOn == IF charger /\ auto.on THEN 0 ELSE OneMore(age)

Refreshed == IF charger THEN 0 ELSE OneMore(age)

\* More than the timeout: a tick is a second and a little more, so that as
\* many ticks as seconds may be enough.
Over(n) == IF n > auto.timeout THEN {TRUE}
           ELSE IF n = auto.timeout /\ n > 0 THEN BOOLEAN ELSE {FALSE}

\* Of the configuration; a device without a modem counts as general.
ShutdownVoltage(m) == IF m = "none" THEN "general" ELSE m

\* While neither a shutdown nor a reboot is under way (PowerControl).
Tick ==
  /\ age' = Refreshed
  /\ unseen' = IF charger THEN 0 ELSE OneMore(unseen)
  /\ \E over \in Over(age') :
       did' = IF auto.on
              THEN IF powerOn = "charger" /\ over THEN "charger" ELSE "idle"
              ELSE IF ~planned /\ Due(now) THEN "schedule" ELSE "idle"
  /\ planned' = (planned \/ did' # "idle")
  /\ asked' = asked \cup ({did'} \ {"idle"})
  /\ known' = modem
  /\ cutOff' = IF known # modem THEN ShutdownVoltage(modem) ELSE cutOff
  /\ UNCHANGED <<clockVars, modem, battery, charger, powerOn, auto, now>>

\* The answer to POWER_ON_EVENT_GET.
PowerOnEvent ==
  /\ powerOn = "unknown"
  /\ powerOn' \in {"charger", "other"}
  /\ did' = "-"
  /\ UNCHANGED <<clockVars, modemVars, battery, charger, auto, now, age, planned, unseen, asked>>

\* The controller sets the auto start.
SetAuto ==
  /\ auto' \in Chargers \ {auto}
  /\ did' = "-"
  /\ UNCHANGED <<clockVars, modemVars, battery, charger, powerOn, now, age, planned, unseen, asked>>
----------------------------------------------------------------------------
(***************************************************************************)
(* The world: the line to the PMU, which is slow and loses commands, the   *)
(* modem, time, and other programs that set the host's clock.              *)
(***************************************************************************)
PmuSetsClock ==
  /\ line # <<>>
  /\ pmuClock' = Head(line) /\ line' = Tail(line)
  /\ did' = "-"
  /\ UNCHANGED <<host, timeSet, adjusted, modemVars, battery, charger, timerVars>>

LoseSync ==
  /\ line # <<>>
  /\ line' = Tail(line)
  /\ did' = "-"
  /\ UNCHANGED <<host, pmuClock, timeSet, adjusted, modemVars, battery, charger, timerVars>>

AdjustClock ==
  /\ adjusted < MaxAdjust
  /\ adjusted' = adjusted + 1
  /\ host' \in Clocks
  /\ did' = "-"
  /\ UNCHANGED <<pmuClock, timeSet, line, modemVars, battery, charger, timerVars>>

ModemChanges ==
  /\ modem' \in Modems \ {modem}
  /\ did' = "-"
  /\ UNCHANGED <<clockVars, known, cutOff, battery, charger, timerVars>>

TimePasses ==
  /\ now' \in Times \ {now}
  /\ did' = "-"
  /\ UNCHANGED <<clockVars, modemVars, battery, charger, powerOn, auto, age, planned, unseen, asked>>

\* The start sends the host's clock before the PMU's has been read.
Init ==
  /\ host \in Clocks /\ pmuClock \in Clocks \cup {Bad}
  /\ timeSet = FALSE /\ line = <<host>> /\ adjusted = 0
  /\ modem = "none" /\ known = "none" /\ cutOff = ShutdownVoltage("none")
  /\ charger = FALSE
  /\ battery = [onBattery |-> FALSE, shown |-> 0, cap |-> Whole]
  /\ powerOn = "unknown" /\ auto \in Chargers /\ now \in Times
  /\ age = 0 /\ unseen = 0 /\ planned = FALSE /\ did = "-" /\ asked = {}

Next ==
  \/ \E v \in Voltages, present \in BOOLEAN : Report(v, present)
  \/ Tick \/ PowerOnEvent \/ SetAuto
  \/ PmuSetsClock \/ LoseSync \/ AdjustClock \/ ModemChanges \/ TimePasses

Spec == Init /\ [][Next]_vars

\* Reports keep coming, and of the commands that set the PMU's clock not all
\* are lost.
FairSpec ==
  /\ Spec
  /\ WF_vars(\E v \in Voltages, present \in BOOLEAN : Report(v, present))
  /\ SF_vars(PmuSetsClock)
----------------------------------------------------------------------------
\* The state is well formed; the percentage stays within its range, also
\* for voltages at and beyond the ends of a table, and on battery the cap is
\* what is shown.
TypeOK ==
  /\ host \in Clocks /\ pmuClock \in Clocks \cup {Bad}
  /\ timeSet \in BOOLEAN /\ line \in Seq(Clocks) /\ Len(line) <= LineMax
  /\ modem \in Modems /\ known \in Modems
  /\ cutOff \in {ShutdownVoltage(m) : m \in Modems}
  /\ charger \in BOOLEAN
  /\ battery \in [onBattery : BOOLEAN, shown : 0 .. Whole, cap : 0 .. Whole]
  /\ battery.onBattery => battery.shown = battery.cap
  /\ powerOn \in {"unknown", "charger", "other"}
  /\ auto \in Chargers /\ now \in Times
  /\ age \in 0 .. AgeMax /\ unseen \in 0 .. AgeMax
  /\ planned \in BOOLEAN /\ asked \subseteq {"charger", "schedule"}
  /\ did \in {"-", "idle", "charger", "schedule"}

\* As long as the device runs on its battery the percentage shown never
\* rises, however the voltage wavers and whichever modem, and so whichever
\* table, comes and goes.
FallsOnBattery ==
  [][battery.onBattery /\ battery'.onBattery => battery'.shown <= battery.shown]_vars

\* The timer asks to power off exactly when it should.  For the charger: the
\* user wants it, the device was started by it, and no tick saw it for as
\* long as the user allows, whenever the user turned that on.  For the
\* schedule, which rests while the auto start is on: a shutdown event is due
\* at the first such tick before which the timer asked for nothing at all; no
\* event before that is passed over, and every one after it is, because a
\* request for the charger or for an event uses the schedule up for the life
\* of the program.  A tick leaves the PMU asked for the shutdown voltage of
\* the modem that is there.
RequestsAreExact ==
  [][LET long == auto.on /\ powerOn = "charger" /\ unseen' > auto.timeout
         due == ~auto.on /\ Due(now)
     IN  /\ did' = "charger" => /\ auto.on /\ powerOn = "charger"
                                /\ unseen' > 0 /\ unseen' >= auto.timeout
         /\ did' = "schedule" => due /\ asked = {}
         /\ did' = "idle" => ~long /\ (due => asked # {})
         /\ did' # "-" => cutOff' = ShutdownVoltage(modem')]_vars

\* The host takes its time from the PMU and the PMU from the host; whatever
\* the first report and the command of the start do to each other, in the
\* end the clocks agree.
ClocksAgree == <>[](host = pmuClock)
=============================================================================
