------------------------- MODULE PowerControlProofs -------------------------
(***************************************************************************)
(* Proofs about PowerControl, for every set of numbers and every limit of  *)
(* the wait: the state keeps its type, no completed shutdown is invented,  *)
(* a watchdog that is off stays off, and the manager does not end behind   *)
(* the back of the PMU.                                                    *)
(*                                                                         *)
(* What a step does to the commands is said once (Evolves, ServiceStep);   *)
(* the invariants of the commands then need no look at the actions.        *)
(***************************************************************************)
EXTENDS PowerControl, TLAPS

Asked(n) == outcome[n] # "unasked"

\* One step: commands keep their kind once they are asked for, only a command
\* the PMU has is answered, and a new one is of kind c and the next in order.
Evolves(c) ==
  /\ outcome' \in [Numbers -> Outcomes]
  /\ kind' \in [Numbers -> PowerCommands]
  /\ delivered' \subseteq Numbers /\ delivered \subseteq delivered'
  /\ \A n \in Numbers : Asked(n) => Asked(n)' /\ kind'[n] = kind[n]
  /\ \A n \in Numbers :
       outcome'[n] = "answered" => outcome[n] = "answered" \/ n \in delivered
  /\ \A n \in Numbers :
       ~Asked(n) /\ Asked(n)' =>
         kind'[n] = c /\ \A m \in Numbers : m < n => Asked(m)

NewCommands == {"watchdog60", "watchdog0", "shutdown"}

\* A step that is about no command evolves in any way.
LEMMA Stays ==
  ASSUME TypeOK, AskNothing, NEW c PROVE Evolves(c)
BY DEF TypeOK, AskNothing, Evolves, Asked

\* Ask, as AskFor and the other commands use it.
LEMMA Asks ==
  ASSUME TypeOK, NEW c \in PowerCommands, AskFor(c) PROVE Evolves(c)
<1>1. CASE linkUp
  <2>1. PICK D \in SUBSET Open : Ask({NextNumber}, D)
    BY <1>1 DEF AskFor
  <2>2. kind' = [kind EXCEPT ![NextNumber] = c]
    BY <1>1 DEF AskFor
  <2>3. delivered' = delivered
    BY <2>1 DEF Ask
  <2>4. outcome' = [n \in Numbers |-> IF n \in D THEN "skipped"
                                      ELSE IF n \in {NextNumber} THEN "open"
                                      ELSE outcome[n]]
    BY <2>1 DEF Ask
  <2>5. \A m \in Numbers : m < NextNumber => Asked(m)
    BY <2>1, NumbersAssumption DEF Ask, Asked
  <2>6. \A n \in D : outcome[n] = "open"
    BY DEF Open
  <2>7. outcome[NextNumber] = "unasked"
    BY <2>1 DEF Ask
  <2>. HIDE DEF NextNumber
  <2>. QED
    BY <2>2, <2>3, <2>4, <2>5, <2>6, <2>7, ZenonT(30) DEF Evolves, TypeOK, Asked, Outcomes
<1>2. CASE ~linkUp
  BY <1>2, Stays DEF AskFor, AskNothing
<1>. QED BY <1>1, <1>2

LEMMA Skips ==
  ASSUME TypeOK, LinkSkips, NEW c PROVE Evolves(c)
<1>1. PICK D \in SUBSET Open : Ask({}, D)
  BY DEF LinkSkips
<1>2. outcome' = [n \in Numbers |-> IF n \in D THEN "skipped"
                                    ELSE IF n \in {} THEN "open"
                                    ELSE outcome[n]]
  BY <1>1 DEF Ask
<1>3. delivered' = delivered /\ kind' = kind
  BY <1>1 DEF Ask, LinkSkips
<1>4. \A n \in D : outcome[n] = "open"
  BY DEF Open
<1>. QED
  BY <1>2, <1>3, <1>4 DEF Evolves, TypeOK, Asked, Outcomes

LEMMA GivesUp ==
  ASSUME TypeOK, LinkGivesUp, NEW c PROVE Evolves(c)
<1>1. PICK m \in Open, first \in {"silent", "written"} :
        outcome' = [n \in Numbers |->
                     IF n \in UpTo(m)
                     THEN IF UpTo(n) = {n} THEN first ELSE "written"
                     ELSE outcome[n]]
  BY DEF LinkGivesUp, Advance
<1>2. delivered' = delivered /\ kind' = kind
  BY DEF LinkGivesUp, Advance
<1>3. \A n \in UpTo(m) : outcome[n] = "open"
  BY DEF UpTo, Open
<1>4. \A n \in Numbers :
        \/ outcome'[n] = outcome[n]
        \/ outcome[n] = "open" /\ outcome'[n] \in {"silent", "written"}
  BY <1>1, <1>3
<1>5. outcome' \in [Numbers -> Outcomes]
  <2>1. \A n \in Numbers :
          (IF n \in UpTo(m) THEN IF UpTo(n) = {n} THEN first ELSE "written"
           ELSE outcome[n]) \in Outcomes
    BY DEF TypeOK, Outcomes
  <2>. QED BY <1>1, <2>1
<1>. QED
  BY <1>2, <1>4, <1>5 DEF Evolves, TypeOK, Asked

LEMMA Reads ==
  ASSUME TypeOK, NEW n \in Numbers, ReadAnswer(n), NEW c PROVE Evolves(c)
<1>1. kind' = kind /\ delivered' = delivered /\ n \in delivered
  BY DEF ReadAnswer, Answer
<1>2. \/ outcome' = outcome
      \/ /\ outcome[n] = "open"
         /\ outcome' = [outcome EXCEPT ![n] = "answered"]
  BY DEF ReadAnswer, Answer, Open
<1>. QED
  BY <1>1, <1>2 DEF Evolves, TypeOK, Asked, Outcomes

LEMMA Receives ==
  ASSUME TypeOK, NEW n \in Numbers, PmuReceives(n), NEW c PROVE Evolves(c)
BY DEF PmuReceives, Deliver, Evolves, TypeOK, Asked

\* What any step does to the commands: the new one, if there is one, arms the
\* watchdog only if it was not switched off.
ServiceEvolves ==
  \E c \in NewCommands :
    /\ Evolves(c)
    /\ c = "watchdog60" => ~ctl.watchdogOff
    /\ c = "watchdog0" => ctl'.watchdogOff

LEMMA ServiceStep ==
  ASSUME TypeOK, [Next]_vars PROVE ServiceEvolves
<1>s. ASSUME Evolves("shutdown") PROVE ServiceEvolves
  BY <1>s DEF ServiceEvolves, NewCommands
<1>n. ASSUME AskNothing PROVE ServiceEvolves
  BY <1>n, <1>s, Stays
<1>a. ASSUME AskFor("shutdown") PROVE ServiceEvolves
  BY <1>a, <1>s, Asks DEF PowerCommands
<1>1. CASE ScheduledShutdown \/ PmuRequestsShutdown
  BY <1>1, <1>n DEF ScheduledShutdown, PmuRequestsShutdown
<1>2. CASE SigTerm
  <2>1. CASE SystemShutdown
    BY <2>1, <1>n, <1>a DEF SystemShutdown
  <2>2. CASE SystemReboot /\ ~ctl.watchdogOff
    <3>1. CASE AskNothing
      BY <3>1, <1>n
    <3>2. CASE AskFor("watchdog60")
      <4>1. Evolves("watchdog60")
        BY <3>2, Asks DEF PowerCommands, Watchdogs
      <4>. QED BY <4>1, <2>2 DEF ServiceEvolves, NewCommands
    <3>. QED BY <2>2, <3>1, <3>2 DEF SystemReboot
  <2>3. CASE AskNothing
    BY <2>3, <1>n
  <2>. QED BY <1>2, <2>1, <2>2, <2>3 DEF SigTerm
<1>3. CASE SigUsr1
  <2>1. Evolves("watchdog0")
    BY <1>3, Asks DEF SigUsr1, PowerCommands, Watchdogs
  <2>2. ctl'.watchdogOff
    BY <1>3 DEF SigUsr1, TypeOK
  <2>. QED BY <2>1, <2>2 DEF ServiceEvolves, NewCommands
<1>4. CASE ShutdownCheck \/ RebootCheck \/ LoopReturns \/ RequestFile
  BY <1>4, <1>n DEF ShutdownCheck, RebootCheck, Check, LoopReturns, RequestFile
<1>5. CASE \E n \in Numbers : ReadAnswer(n) \/ PmuReceives(n)
  BY <1>5, <1>s, Reads, Receives
<1>6. CASE LinkGivesUp \/ LinkSkips
  BY <1>6, <1>s, GivesUp, Skips
<1>7. CASE UNCHANGED vars
  BY <1>7, <1>n DEF vars, AskNothing
<1>. QED
  BY <1>1, <1>2, <1>3, <1>4, <1>5, <1>6, <1>7 DEF Next
----------------------------------------------------------------------------
(***************************************************************************)
(* Types.                                                                  *)
(***************************************************************************)
Ctls == [request: BOOLEAN, sendPmu: BOOLEAN, shutdown: BOOLEAN,
         reboot: BOOLEAN, waits: 0 .. WaitMax + 1, watchdogOff: BOOLEAN]
Pms == [shutdownReq: BOOLEAN, rebootReq: BOOLEAN, shutdownDone: BOOLEAN,
        rebootDone: BOOLEAN, planned: BOOLEAN]
Envs == [file: BOOLEAN, poweroff: BOOLEAN, pmuAsked: BOOLEAN,
         watchdog: Watchdogs]
Loops == {"running", "quit", "gone"}

ControlOK ==
  /\ ctl \in Ctls /\ pm \in Pms
  /\ timers \subseteq {"shutdown", "reboot"}
  /\ loop \in Loops /\ ran \subseteq Sources
  /\ linkUp \in BOOLEAN
  /\ env \in Envs

LEMMA ControlStep ==
  ASSUME TypeOK, [Next]_vars PROVE ControlOK'
<1>. USE DEF TypeOK, ControlOK, Ctls, Pms, Envs, Loops
<1>r. ASSUME NEW b \in BOOLEAN, RequestShutdown(b)
      PROVE ctl' \in Ctls /\ env' \in Envs
  BY <1>r DEF RequestShutdown
<1>d. ASSUME NEW s \in Sources, Dispatch(s) PROVE ran' \subseteq Sources
  BY <1>d DEF Dispatch
<1>1. CASE ScheduledShutdown
  BY <1>1, <1>r, <1>d DEF ScheduledShutdown, Sources
<1>2. CASE PmuRequestsShutdown
  BY <1>2, <1>r DEF PmuRequestsShutdown
<1>3. CASE SigTerm
  <2>1. ran' \subseteq Sources
    BY <1>3, <1>d DEF SigTerm, Sources
  <2>2. CASE SystemShutdown
    BY <1>3, <2>1, <2>2 DEF SigTerm, SystemShutdown, Quit
  <2>3. CASE SystemReboot
    BY <1>3, <2>1, <2>3 DEF SigTerm, SystemReboot, Quit
  <2>4. CASE Quit /\ UNCHANGED <<ctl, pm, timers>>
    BY <1>3, <2>1, <2>4 DEF SigTerm, Quit
  <2>. QED BY <1>3, <2>2, <2>3, <2>4 DEF SigTerm
<1>4. CASE SigUsr1
  <2>1. ran' \subseteq Sources
    BY <1>4, <1>d DEF SigUsr1, Sources
  <2>. QED BY <1>4, <2>1 DEF SigUsr1
<1>5. ASSUME NEW timer \in {"shutdown", "reboot"}, NEW done, Check(timer, done)
      PROVE ControlOK'
  <2>1. ran' \subseteq Sources
    BY <1>5, <1>d DEF Check, Sources
  <2>2. ctl' \in Ctls
    BY <1>5, WaitMaxAssumption DEF Check
  <2>. QED BY <1>5, <2>1, <2>2 DEF Check, Quit
<1>6. CASE LoopReturns
  BY <1>6 DEF LoopReturns
<1>7. ASSUME NEW n \in Numbers, ReadAnswer(n) PROVE ControlOK'
  <2>. DEFINE a == pm.shutdownDone \/ (kind[n] = "shutdown" /\ pm.shutdownReq)
              b == pm.rebootDone \/ (kind[n] \in Watchdogs /\ pm.rebootReq)
  <2>1. pm' = [pm EXCEPT !.shutdownDone = a, !.rebootDone = b]
    BY <1>7, Zenon DEF ReadAnswer
  <2>2. a \in BOOLEAN /\ b \in BOOLEAN
    BY Zenon
  <2>. HIDE DEF a, b
  <2>3. pm' \in Pms
    BY <2>1, <2>2
  <2>4. UNCHANGED <<ctl, timers, loop, ran, linkUp, env>>
    BY <1>7 DEF ReadAnswer
  <2>. QED BY <2>3, <2>4
<1>8. ASSUME NEW n \in Numbers, PmuReceives(n) PROVE ControlOK'
  BY <1>8 DEF PmuReceives
<1>9. CASE LinkGivesUp \/ LinkSkips
  BY <1>9 DEF LinkGivesUp, LinkSkips, mainVars
<1>10. CASE RequestFile
  <2>1. /\ env' = [env EXCEPT !.file = TRUE]
        /\ UNCHANGED <<ctl, pm, timers, loop, ran, linkUp>>
    BY <1>10 DEF RequestFile
  <2>2. ControlOK
    OBVIOUS
  <2>. HIDE DEF TypeOK, Ctls, Pms, Loops
  <2>. QED BY <2>1, <2>2
<1>11. CASE UNCHANGED vars
  BY <1>11 DEF vars, mainVars
<1>. QED
  BY <1>1, <1>2, <1>3, <1>4, <1>5, <1>6, <1>7, <1>8, <1>9, <1>10, <1>11
     DEF Next, ShutdownCheck, RebootCheck

LEMMA InitTypes == Init => TypeOK
<1>. SUFFICES ASSUME Init PROVE TypeOK
  OBVIOUS
<1>1. linkUp \in BOOLEAN
  BY LinkStatesAssumption DEF Init
<1>2. outcome \in [Numbers -> Outcomes] /\ delivered \subseteq Numbers
  BY DEF Init, Outcomes
<1>3. kind \in [Numbers -> PowerCommands]
  BY DEF Init, PowerCommands, Watchdogs
<1>4. ctl \in Ctls /\ pm \in Pms /\ env \in Envs
  BY WaitMaxAssumption DEF Init, Ctls, Pms, Envs, Watchdogs
<1>. QED
  BY <1>1, <1>2, <1>3, <1>4 DEF Init, TypeOK, Ctls, Pms, Envs

LEMMA TypeStep ==
  ASSUME TypeOK, [Next]_vars PROVE TypeOK'
<1>1. ControlOK'
  BY ControlStep
<1>2. /\ outcome' \in [Numbers -> Outcomes] /\ delivered' \subseteq Numbers
      /\ kind' \in [Numbers -> PowerCommands]
  BY ServiceStep DEF ServiceEvolves, Evolves
<1>. QED BY <1>1, <1>2 DEF TypeOK, ControlOK, Ctls, Pms, Envs, Loops

\* The state has its type; the wait counter the two check timers share never
\* passes its limit by more than one.
THEOREM TypeCorrect == Spec => []TypeOK
BY InitTypes, TypeStep, PTL DEF Spec
----------------------------------------------------------------------------
(***************************************************************************)
(* What one step does to the flags: most of them are set and never reset,  *)
(* and each that PmuKnows speaks of has few causes.                        *)
(***************************************************************************)
PmuHasShutdown == \E n \in delivered : kind[n] = "shutdown"

ShutdownMeant == ctl.request \/ env.file

\* Flags that stay, and the counter that only grows.
Latches ==
  /\ env.pmuAsked => env'.pmuAsked
  /\ ShutdownMeant => ShutdownMeant'
  /\ ctl.reboot => ctl'.reboot
  /\ ctl.watchdogOff => ctl'.watchdogOff
  /\ ctl'.waits >= ctl.waits

\* Causes of the flags that PmuKnows and ShutdownDoneIsReal are about.
Causes ==
  /\ ~ctl'.sendPmu => ~ctl.sendPmu \/ env'.pmuAsked
  /\ ctl'.shutdown => ctl.shutdown \/ (ShutdownMeant /\ Dispatch("sigterm"))
  /\ "reboot" \in timers' => "reboot" \in timers \/ ctl'.reboot
  /\ pm'.shutdownDone => pm.shutdownDone \/ PmuHasShutdown

\* Ways out of the main loop.
Leaves ==
  \/ ~ctl.sendPmu
  \/ ~ShutdownMeant /\ ctl'.shutdown = ctl.shutdown /\ "sigterm" \in ran'
  \/ pm.shutdownDone \/ ctl.waits > WaitMax
  \/ "reboot" \in timers

\* The loop, once told to quit, is not taken up again.
LoopEvolves ==
  /\ loop # "running" => loop' # "running" /\ ran \subseteq ran'
  /\ loop = "running" /\ loop' # "running" => Leaves

FlagsEvolve == Latches /\ Causes /\ LoopEvolves

LEMMA FlagsStep ==
  ASSUME TypeOK, [Next]_vars PROVE FlagsEvolve
<1>. USE DEF FlagsEvolve, Latches, Causes, LoopEvolves, ShutdownMeant,
             PmuHasShutdown, TypeOK
<1>1. CASE ScheduledShutdown
  <2>1. ctl' = [ctl EXCEPT !.request = TRUE, !.sendPmu = TRUE]
    BY <1>1 DEF ScheduledShutdown, RequestShutdown
  <2>2. env' = [env EXCEPT !.poweroff = TRUE, !.pmuAsked = @ \/ FALSE]
    BY <1>1 DEF ScheduledShutdown, RequestShutdown
  <2>3. pm' = [pm EXCEPT !.planned = TRUE] /\ UNCHANGED <<timers, loop>>
    BY <1>1 DEF ScheduledShutdown
  <2>4. ran \subseteq ran' \/ loop = "running"
    BY <1>1, <2>3 DEF ScheduledShutdown, Dispatch
  <2>5. env'.pmuAsked = env.pmuAsked /\ env'.file = env.file
    BY <2>2
  <2>. QED BY <2>1, <2>3, <2>4, <2>5
<1>2. CASE PmuRequestsShutdown
  <2>1. ctl' = [ctl EXCEPT !.request = TRUE, !.sendPmu = FALSE]
    BY <1>2 DEF PmuRequestsShutdown, RequestShutdown
  <2>2. env'.pmuAsked /\ env'.file = env.file
    BY <1>2 DEF PmuRequestsShutdown, RequestShutdown
  <2>. QED BY <1>2, <2>1, <2>2 DEF PmuRequestsShutdown
<1>3. CASE SigTerm
  <2>1. env' = env /\ Dispatch("sigterm")
    BY <1>3 DEF SigTerm
  <2>2. loop' # "running" => "sigterm" \in ran' /\ ran \subseteq ran'
    BY <2>1 DEF Dispatch
  <2>3. CASE ShutdownMeant /\ SystemShutdown
    BY <2>1, <2>2, <2>3 DEF SystemShutdown, Quit, Leaves
  <2>4. CASE SystemReboot
    BY <2>1, <2>2, <2>4 DEF SystemReboot
  <2>5. CASE ~ShutdownMeant /\ Quit /\ UNCHANGED <<ctl, pm, timers>>
    BY <2>1, <2>2, <2>5 DEF Quit, Leaves
  <2>. QED BY <1>3, <2>3, <2>4, <2>5 DEF SigTerm
<1>4. CASE SigUsr1
  <2>1. ctl' = [ctl EXCEPT !.watchdogOff = TRUE]
    BY <1>4 DEF SigUsr1
  <2>2. ran \subseteq ran' \/ loop = "running"
    BY <1>4 DEF SigUsr1, Dispatch
  <2>. QED BY <1>4, <2>1, <2>2 DEF SigUsr1
<1>5. ASSUME NEW timer \in {"shutdown", "reboot"}, NEW done,
             done => pm.shutdownDone \/ timer = "reboot",
             Check(timer, done)
      PROVE FlagsEvolve
  <2>1. pm' = pm /\ env' = env
    BY <1>5 DEF Check
  <2>2. CASE Quit /\ timers' = timers \ {timer} /\ ctl' = ctl
    <3>1. ran \subseteq ran'
      BY <1>5, <2>2 DEF Check, Dispatch, Quit
    <3>2. done \/ ctl.waits > WaitMax
      BY <1>5, <2>2, WaitMaxAssumption DEF Check, Quit
    <3>3. Leaves
      BY <1>5, <3>2 DEF Check, Leaves
    <3>. QED BY <2>1, <2>2, <3>1, <3>3 DEF Quit
  <2>3. CASE /\ ctl' = [ctl EXCEPT !.waits = @ + 1]
             /\ UNCHANGED <<timers, loop>>
    <3>1. ran \subseteq ran' \/ loop = "running"
      BY <1>5, <2>3 DEF Check, Dispatch
    <3>. QED BY <2>1, <2>3, <3>1
  <2>. QED BY <1>5, <2>2, <2>3 DEF Check
<1>6. CASE LoopReturns
  BY <1>6 DEF LoopReturns
<1>7. ASSUME NEW n \in Numbers, ReadAnswer(n) PROVE FlagsEvolve
  <2>1. UNCHANGED <<ctl, timers, loop, ran, env>>
    BY <1>7 DEF ReadAnswer
  <2>2. pm'.shutdownDone = (pm.shutdownDone
                              \/ (kind[n] = "shutdown" /\ pm.shutdownReq))
    BY <1>7 DEF ReadAnswer
  <2>3. n \in delivered
    BY <1>7 DEF ReadAnswer
  <2>. QED BY <2>1, <2>2, <2>3
<1>8. ASSUME NEW n \in Numbers, PmuReceives(n) PROVE FlagsEvolve
  BY <1>8 DEF PmuReceives
<1>9. CASE LinkGivesUp \/ LinkSkips
  BY <1>9 DEF LinkGivesUp, LinkSkips, mainVars
<1>10. CASE RequestFile
  BY <1>10 DEF RequestFile
<1>11. CASE UNCHANGED vars
  BY <1>11 DEF vars, mainVars
<1>12. CASE ShutdownCheck
  BY <1>12, <1>5 DEF ShutdownCheck
<1>13. CASE RebootCheck
  BY <1>13, <1>5 DEF RebootCheck
<1>. HIDE DEF FlagsEvolve
<1>. QED
  BY <1>1, <1>2, <1>3, <1>4, <1>6, <1>7, <1>8, <1>9, <1>10, <1>11, <1>12,
     <1>13 DEF Next
----------------------------------------------------------------------------
(***************************************************************************)
(* The inductive invariant.                                                *)
(***************************************************************************)
\* Commands are numbered in the order in which they are asked for, and only
\* what was asked for reaches the PMU, and only what reached it is answered.
CommandsOK ==
  /\ \A n, m \in Numbers : m < n /\ Asked(n) => Asked(m)
  /\ \A n \in delivered : Asked(n)
  /\ \A n \in Numbers : outcome[n] = "answered" => n \in delivered

\* The watchdog is not armed behind a command that switches it off, nor at the
\* PMU once it has that command.
WatchdogOK ==
  /\ \A n \in Numbers : Asked(n) /\ kind[n] = "watchdog0" => ctl.watchdogOff
  /\ \A n, m \in Numbers :
       n < m /\ Asked(n) /\ Asked(m) /\ kind[n] = "watchdog0" =>
         kind[m] \in {"watchdog0", "shutdown"}
  /\ (\E n \in delivered : kind[n] = "watchdog0") => env.watchdog = "watchdog0"

\* Why PmuKnows holds at the end: what is true as soon as the loop was told to
\* quit.
Told == env.pmuAsked \/ PmuHasShutdown \/ ctl.waits > WaitMax

EndOK ==
  /\ ~ctl.sendPmu => env.pmuAsked
  /\ ctl.shutdown => ShutdownMeant
  /\ "reboot" \in timers => ctl.reboot
  /\ loop # "running" =>
       ctl.reboot \/ Told \/ (~ctl.shutdown /\ "sigterm" \in ran)

IInv == TypeOK /\ CommandsOK /\ WatchdogOK /\ ShutdownDoneIsReal /\ EndOK

LEMMA InitIInv == Init => IInv
<1>. SUFFICES ASSUME Init PROVE IInv
  OBVIOUS
<1>1. \A n \in Numbers : Asked(n) => n = 0
  BY DEF Init, Asked
<1>2. \A n \in Numbers : outcome[n] # "answered"
  BY DEF Init
<1>3. \A n \in Numbers : kind[n] # "watchdog0"
  BY DEF Init
<1>4. CommandsOK /\ WatchdogOK
  BY <1>1, <1>2, <1>3, NumbersAssumption DEF Init, CommandsOK, WatchdogOK
<1>5. ShutdownDoneIsReal /\ EndOK
  BY DEF Init, ShutdownDoneIsReal, EndOK
<1>. QED BY <1>4, <1>5, InitTypes DEF IInv

LEMMA CommandsStep ==
  ASSUME CommandsOK, ServiceEvolves,
         \/ delivered' = delivered
         \/ \E n \in Numbers : Deliver(n)
  PROVE CommandsOK'
<1>1. PICK c \in NewCommands : Evolves(c)
  BY DEF ServiceEvolves
<1>2. ASSUME NEW n \in Numbers, NEW m \in Numbers, m < n, Asked(n)'
      PROVE Asked(m)'
  BY <1>1, <1>2 DEF Evolves, CommandsOK
<1>3. ASSUME NEW n \in delivered' PROVE Asked(n)'
  BY <1>1, <1>3 DEF Evolves, CommandsOK, Deliver, Asked
<1>4. ASSUME NEW n \in Numbers, outcome'[n] = "answered"
      PROVE n \in delivered'
  BY <1>1, <1>4 DEF Evolves, CommandsOK
<1>. QED BY <1>2, <1>3, <1>4 DEF CommandsOK

\* Only the PMU's receipt of a command changes what it has and its watchdog.
LEMMA WatchdogSteps ==
  ASSUME TypeOK, [Next]_vars
  PROVE \/ delivered' = delivered /\ env'.watchdog = env.watchdog
        \/ \E n \in Numbers : PmuReceives(n)
<1>. DEFINE Same == delivered' = delivered /\ env'.watchdog = env.watchdog
<1>a. ASSUME NEW c, AskFor(c) PROVE delivered' = delivered
  BY <1>a DEF AskFor, Ask
<1>r. ASSUME NEW b \in BOOLEAN, RequestShutdown(b)
      PROVE env'.watchdog = env.watchdog
  BY <1>r DEF RequestShutdown, TypeOK
<1>1. CASE ScheduledShutdown \/ PmuRequestsShutdown
  BY <1>1, <1>r DEF ScheduledShutdown, PmuRequestsShutdown, AskNothing
<1>2. CASE SigTerm
  BY <1>2, <1>a DEF SigTerm, SystemShutdown, SystemReboot, AskNothing
<1>3. CASE SigUsr1
  BY <1>3, <1>a DEF SigUsr1
<1>4. CASE ShutdownCheck \/ RebootCheck \/ LoopReturns
  BY <1>4 DEF ShutdownCheck, RebootCheck, Check, LoopReturns, AskNothing
<1>5. CASE \E n \in Numbers : ReadAnswer(n)
  BY <1>5 DEF ReadAnswer, Answer
<1>6. CASE LinkGivesUp \/ LinkSkips
  BY <1>6 DEF LinkGivesUp, LinkSkips, Advance, Ask, mainVars
<1>7. CASE RequestFile
  BY <1>7 DEF RequestFile, AskNothing, TypeOK
<1>8. CASE UNCHANGED vars
  BY <1>8 DEF vars, mainVars
<1>. QED
  BY <1>1, <1>2, <1>3, <1>4, <1>5, <1>6, <1>7, <1>8 DEF Next

LEMMA WatchdogStep ==
  ASSUME IInv, [Next]_vars PROVE WatchdogOK'
<1>1. PICK c \in NewCommands :
        /\ Evolves(c)
        /\ c = "watchdog60" => ~ctl.watchdogOff
        /\ c = "watchdog0" => ctl'.watchdogOff
  BY ServiceStep DEF IInv, ServiceEvolves
<1>2. ctl.watchdogOff => ctl'.watchdogOff
  BY FlagsStep DEF IInv, FlagsEvolve, Latches
<1>3. ASSUME NEW n \in Numbers, Asked(n)', kind'[n] = "watchdog0"
      PROVE ctl'.watchdogOff
  BY <1>1, <1>2, <1>3 DEF Evolves, IInv, WatchdogOK
<1>4. ASSUME NEW n \in Numbers, NEW m \in Numbers, n < m,
             Asked(n)', Asked(m)', kind'[n] = "watchdog0"
      PROVE kind'[m] \in {"watchdog0", "shutdown"}
  <2>1. CASE Asked(m)
    BY <1>1, <1>4, <2>1 DEF Evolves, IInv, CommandsOK, WatchdogOK
  <2>2. CASE ~Asked(m)
    <3>1. kind'[m] = c /\ Asked(n) /\ kind'[n] = kind[n]
      BY <1>1, <1>4, <2>2 DEF Evolves
    <3>2. ctl.watchdogOff
      BY <1>4, <3>1 DEF IInv, WatchdogOK
    <3>. QED BY <1>1, <3>1, <3>2 DEF NewCommands
  <2>. QED BY <2>1, <2>2
<1>5. ASSUME NEW n \in delivered', kind'[n] = "watchdog0"
      PROVE env'.watchdog = "watchdog0"
  <2>1. CASE delivered' = delivered /\ env'.watchdog = env.watchdog
    <3>1. kind[n] = "watchdog0"
      BY <1>1, <1>5, <2>1 DEF Evolves, IInv, CommandsOK, TypeOK
    <3>. QED BY <1>5, <2>1, <3>1 DEF IInv, WatchdogOK
  <2>2. ASSUME NEW r \in Numbers, PmuReceives(r)
        PROVE env'.watchdog = "watchdog0"
    <3>1. /\ kind' = kind /\ delivered' = delivered \cup {r}
          /\ Asked(r) /\ \A m \in delivered : m <= r
          /\ env' = IF kind[r] \in Watchdogs
                    THEN [env EXCEPT !.watchdog = kind[r]] ELSE env
      BY <2>2 DEF PmuReceives, Deliver, Asked
    <3>2. CASE n = r
      BY <1>5, <3>1, <3>2 DEF Watchdogs, IInv, TypeOK
    <3>3. CASE n # r
      <4>1. n \in delivered /\ n \in Numbers /\ Asked(n)
        BY <1>5, <3>1, <3>3 DEF IInv, TypeOK, CommandsOK
      <4>2. n < r
        BY <3>1, <3>3, <4>1, NumbersAssumption
      <4>3. kind[r] \in {"watchdog0", "shutdown"}
        BY <1>5, <3>1, <4>1, <4>2 DEF IInv, WatchdogOK
      <4>4. env.watchdog = "watchdog0"
        BY <1>5, <3>1, <4>1 DEF IInv, WatchdogOK
      <4>. QED BY <3>1, <4>3, <4>4 DEF Watchdogs, IInv, TypeOK
    <3>. QED BY <3>2, <3>3
  <2>. QED BY <2>1, <2>2, WatchdogSteps DEF IInv
<1>. QED BY <1>3, <1>4, <1>5 DEF WatchdogOK

\* What the PMU has been told is not forgotten.
LEMMA HasStep ==
  ASSUME IInv, [Next]_vars, PmuHasShutdown PROVE PmuHasShutdown'
<1>1. PICK c \in NewCommands : Evolves(c)
  BY ServiceStep DEF IInv, ServiceEvolves
<1>2. PICK n \in delivered : kind[n] = "shutdown"
  BY DEF PmuHasShutdown
<1>3. n \in delivered' /\ kind'[n] = "shutdown"
  BY <1>1, <1>2 DEF Evolves, IInv, CommandsOK, TypeOK
<1>. QED BY <1>3 DEF PmuHasShutdown

LEMMA EndStep ==
  ASSUME IInv, [Next]_vars PROVE EndOK'
<1>1. Latches /\ Causes /\ LoopEvolves
  BY FlagsStep DEF IInv, FlagsEvolve
<1>2. ~ctl'.sendPmu => env'.pmuAsked
  BY <1>1 DEF IInv, EndOK, Causes, Latches
<1>3. ctl'.shutdown => ShutdownMeant'
  BY <1>1 DEF IInv, EndOK, Causes, Latches
<1>4. "reboot" \in timers' => ctl'.reboot
  BY <1>1 DEF IInv, EndOK, Causes, Latches
<1>5. Told => Told'
  <2>1. ctl.waits > WaitMax => ctl'.waits > WaitMax
    <3>1. ctl.waits \in Int /\ ctl'.waits \in Int /\ WaitMax \in Int
      <4>1. ctl' \in Ctls
        BY ControlStep DEF IInv, ControlOK
      <4>. QED BY <4>1, WaitMaxAssumption DEF IInv, TypeOK, Ctls
    <3>. QED BY <1>1, <3>1 DEF Latches
  <2>. QED BY <1>1, <2>1, HasStep DEF Told, Latches
<1>6. ASSUME loop' # "running"
      PROVE ctl'.reboot \/ Told' \/ (~ctl'.shutdown /\ "sigterm" \in ran')
  <2>1. CASE loop # "running"
    <3>1. CASE ~ctl.shutdown /\ "sigterm" \in ran
      BY <1>1, <2>1, <3>1 DEF Causes, Dispatch, LoopEvolves
    <3>. QED BY <1>1, <1>5, <2>1, <3>1 DEF IInv, EndOK, Latches
  <2>2. CASE loop = "running"
    <3>1. Leaves
      BY <1>1, <1>6, <2>2 DEF LoopEvolves
    <3>2. CASE ~ctl.sendPmu \/ pm.shutdownDone \/ ctl.waits > WaitMax
      <4>1. Told
        BY <3>2 DEF IInv, EndOK, Told, ShutdownDoneIsReal, PmuHasShutdown
      <4>. QED BY <4>1, <1>5
    <3>3. CASE "reboot" \in timers
      BY <1>1, <3>3 DEF IInv, EndOK, Latches
    <3>4. CASE /\ ~ShutdownMeant /\ ctl'.shutdown = ctl.shutdown
               /\ "sigterm" \in ran'
      BY <3>4 DEF IInv, EndOK
    <3>. QED BY <3>1, <3>2, <3>3, <3>4 DEF Leaves
  <2>. QED BY <2>1, <2>2
<1>. QED BY <1>2, <1>3, <1>4, <1>5, <1>6 DEF EndOK

LEMMA IInvStep ==
  ASSUME IInv, [Next]_vars PROVE IInv'
<1>1. TypeOK'
  BY TypeStep DEF IInv
<1>2. CommandsOK'
  BY CommandsStep, ServiceStep, WatchdogSteps DEF IInv, PmuReceives
<1>3. ShutdownDoneIsReal'
  <2>1. pm'.shutdownDone => pm.shutdownDone \/ PmuHasShutdown
    BY FlagsStep DEF IInv, FlagsEvolve, Causes
  <2>. QED BY <2>1, HasStep DEF IInv, ShutdownDoneIsReal, PmuHasShutdown
<1>. QED BY <1>1, <1>2, <1>3, WatchdogStep, EndStep DEF IInv

THEOREM Invariant == Spec => []IInv
BY InitIInv, IInvStep, PTL DEF Spec

\* A manager that reports the shutdown as completed has told the PMU: the
\* answer it read is one to a shutdown request that the PMU has seen.
THEOREM CompletedIsReal == Spec => []ShutdownDoneIsReal
<1>1. IInv => ShutdownDoneIsReal
  BY DEF IInv
<1>. QED BY <1>1, Invariant, PTL

\* Once the PMU has confirmed that the watchdog is off it stays off, however
\* often commands are repeated, dropped or given up, and whatever stops the
\* manager.
THEOREM OffStaysOff == Spec => []DisabledStaysOff
<1>1. IInv => DisabledStaysOff
  BY DEF IInv, CommandsOK, WatchdogOK, DisabledStaysOff
<1>. QED BY <1>1, Invariant, PTL

\* The manager does not end a shutdown behind the back of the PMU.
THEOREM PmuIsTold == Spec => []PmuKnows
<1>1. IInv => PmuKnows
  BY DEF IInv, EndOK, Told, PmuHasShutdown, PmuKnows
<1>. QED BY <1>1, Invariant, PTL

----------------------------------------------------------------------------
(***************************************************************************)
(* The service of the link, of which the commands above are a use,         *)
(* implements LatestWins, the view UserSettings is built on: of the        *)
(* settings sent over the link the youngest one delivered stays in force,  *)
(* whatever is lost, repeated, skipped or answered late.                   *)
(***************************************************************************)
\* The refinement mapping: the commands asked for, and the youngest the PMU
\* has seen.
Requested == {n \in Numbers : outcome[n] # "unasked"}

Youngest(S, n) == n \in S /\ \A m \in S : m <= n

FloorOf(S) == IF S = {} THEN -1 ELSE CHOOSE n \in S : Youngest(S, n)

Floor == FloorOf(delivered)

L == INSTANCE LatestWins WITH asked <- Requested, floor <- Floor

\* What the mapping rests on: the types, and that there is a youngest
\* delivered command once there is one at all.
SInv ==
  /\ outcome \in [Numbers -> Outcomes]
  /\ delivered \subseteq Numbers
  /\ delivered # {} => \E n \in delivered : Youngest(delivered, n)

\* The floor is the youngest delivered command.
LEMMA FloorIs ==
  ASSUME NEW S \in SUBSET Nat, NEW n \in S, Youngest(S, n)
  PROVE  FloorOf(S) = n
<1>1. PICK k \in S : FloorOf(S) = k /\ Youngest(S, k)
  BY DEF FloorOf
<1>2. k <= n /\ n <= k
  BY <1>1 DEF Youngest
<1> QED BY <1>1, <1>2

\* Commands that are asked for (Ask).
LEMMA AskStep ==
  ASSUME SInv, NEW S \in SUBSET Numbers, NEW D \in SUBSET Numbers, Ask(S, D)
  PROVE  SInv' /\ L!LAsk(S)
<1>1. SInv'
  BY DEF SInv, Ask, Outcomes, Youngest
<1>2. Requested' = Requested \cup S
  <2>1. \A n \in Numbers : n \in Requested' <=> outcome'[n] # "unasked"
    BY DEF Requested
  <2>2. \A n \in Numbers : outcome'[n] # "unasked" <=> n \in Requested \cup S
    BY DEF Ask, Requested, Open, SInv
  <2> QED BY <2>1, <2>2 DEF Requested
<1>3. S \cap Requested = {}
  BY DEF Ask, Requested
<1>4. \A n \in S, m \in Numbers : m < n => m \in S \cup Requested
  BY DEF Ask, Requested
<1>5. Floor' = Floor
  BY DEF Floor, Ask
<1> QED BY <1>1, <1>2, <1>3, <1>4, <1>5 DEF L!LAsk

\* A command that is answered, given up or written changes neither what was
\* asked for nor the floor.
LEMMA OutcomeStep ==
  ASSUME SInv, Advance \/ \E n \in Numbers : Answer(n)
  PROVE  SInv' /\ Requested' = Requested /\ Floor' = Floor
<1>1. CASE Advance
  <2>1. PICK m \in Open, first \in {"silent", "written"} :
          outcome' = [n \in Numbers |->
                        IF n \in UpTo(m)
                        THEN IF UpTo(n) = {n} THEN first ELSE "written"
                        ELSE outcome[n]]
    BY <1>1 DEF Advance
  <2>2. delivered' = delivered
    BY <1>1 DEF Advance
  <2>3. SInv'
    BY <2>1, <2>2 DEF SInv, Outcomes, Youngest
  <2>4. \A n \in Numbers : outcome'[n] # "unasked" <=> outcome[n] # "unasked"
    BY <2>1 DEF UpTo, Open, SInv
  <2> QED BY <2>2, <2>3, <2>4 DEF Requested, Floor
<1>2. ASSUME NEW n \in Numbers, Answer(n)
      PROVE  SInv' /\ Requested' = Requested /\ Floor' = Floor
  <2>1. outcome' = [outcome EXCEPT ![n] = "answered"] /\ delivered' = delivered
    BY <1>2 DEF Answer
  <2>2. SInv'
    BY <2>1 DEF SInv, Outcomes, Youngest
  <2>3. outcome[n] # "unasked"
    BY <1>2 DEF Answer, Open
  <2>4. \A k \in Numbers : outcome'[k] # "unasked" <=> outcome[k] # "unasked"
    BY <2>1, <2>3 DEF SInv
  <2> QED BY <2>1, <2>2, <2>4 DEF Requested, Floor
<1> QED BY <1>1, <1>2

\* A delivery is the first of a younger command, which raises the floor, or a
\* repetition, which changes nothing.
LEMMA DeliverStep ==
  ASSUME SInv, NEW n \in Numbers, Deliver(n)
  PROVE  SInv' /\ (L!LReach(n) \/ UNCHANGED <<Requested, Floor>>)
<1>1. delivered' = delivered \cup {n} /\ outcome' = outcome
  BY DEF Deliver
<1>2. Requested' = Requested
  BY <1>1 DEF Requested
<1>3. n \in Nat /\ delivered \subseteq Nat
  BY NumbersAssumption DEF SInv
<1>4. Youngest(delivered', n)
  BY <1>1, <1>3 DEF Deliver, Youngest
<1>5. SInv'
  BY <1>1, <1>4 DEF SInv, Youngest
<1>6. CASE n \in delivered
  <2>1. delivered' = delivered
    BY <1>1, <1>6
  <2> QED BY <1>2, <1>5, <2>1 DEF Floor
<1>7. CASE n \notin delivered
  <2>1. Floor' = n
    BY <1>1, <1>3, <1>4, FloorIs DEF Floor
  <2>2. Floor < n
    <3>1. CASE delivered = {}
      BY <1>3, <3>1 DEF Floor, FloorOf
    <3>2. CASE delivered # {}
      <4>1. PICK k \in delivered : Youngest(delivered, k)
        BY <3>2 DEF SInv
      <4>2. Floor = k
        BY <1>3, <4>1, FloorIs DEF Floor
      <4>3. k <= n /\ k # n
        BY <1>7 DEF Deliver
      <4> QED BY <1>3, <4>2, <4>3
    <3> QED BY <3>1, <3>2
  <2>3. n \in Requested
    BY DEF Deliver, Requested
  <2> QED BY <1>2, <1>5, <2>1, <2>2, <2>3 DEF L!LReach
<1> QED BY <1>6, <1>7

\* The mapping's invariant holds, and so the link's service is LatestWins: a
\* setting that is in force gives way to a younger one only.
THEOREM ServiceIsLatestWins == SSpec => []SInv /\ L!LSpec
<1>1. SInit => SInv /\ L!LInit
  BY DEF SInit, SInv, Outcomes, Youngest, L!LInit, Requested, Floor, FloorOf
<1>2. SInv /\ [SNext]_svars => SInv' /\ [L!LNext]_(L!lvars)
  <2> SUFFICES ASSUME SInv, [SNext]_svars
               PROVE  SInv' /\ [L!LNext]_(L!lvars)
    OBVIOUS
  <2>1. ASSUME NEW S \in SUBSET Numbers, NEW D \in SUBSET Numbers, Ask(S, D)
        PROVE  SInv' /\ L!LNext
    BY <2>1, AskStep DEF L!LNext
  <2>2. CASE Advance \/ \E n \in Numbers : Answer(n)
    BY <2>2, OutcomeStep DEF L!lvars
  <2>3. ASSUME NEW n \in Numbers, Deliver(n)
        PROVE  SInv' /\ [L!LNext]_(L!lvars)
    BY <2>3, DeliverStep DEF L!LNext, L!lvars
  <2>4. CASE UNCHANGED svars
    <3>1. SInv'
      BY <2>4 DEF SInv, svars, Youngest
    <3>2. Requested' = Requested /\ Floor' = Floor
      BY <2>4 DEF svars, Requested, Floor
    <3> QED BY <3>1, <3>2 DEF L!lvars
  <2> QED BY <2>1, <2>2, <2>3, <2>4 DEF SNext
<1> QED BY <1>1, <1>2, PTL DEF SSpec, L!LSpec
=============================================================================
