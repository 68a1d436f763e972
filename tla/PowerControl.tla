---------------------------- MODULE PowerControl ----------------------------
(***************************************************************************)
(* How the manager ends: signals, requests to power off, the two check     *)
(* timers and the main loop of src/src/main.c, with the request flags of   *)
(* src/src/pmu-manager.c, over the service the link to the PMU gives       *)
(* (OrderedService, which PmuLink implements).  Only the commands that     *)
(* concern power are numbered here; the others do not change what the      *)
(* service promises about these.                                           *)
(***************************************************************************)
EXTENDS OrderedService

CONSTANTS WaitMax,      \* g_pcat_main_shutdown_wait_max, 30
          LinkStates    \* may the serial port be open: a subset of BOOLEAN

ASSUME WaitMaxAssumption == WaitMax \in Nat
ASSUME LinkStatesAssumption == LinkStates \subseteq BOOLEAN
ASSUME FirstNumberAssumption == 0 \in Numbers

VARIABLES
  kind,      \* the command each number stands for
  ctl,       \* the flags and the counter of main.c
  pm,        \* the request and completion flags of pmu-manager.c
  timers,    \* which of the two one second check timers is attached
  loop,      \* the main loop runs, was told to quit, or has returned
  ran,       \* sources dispatched in the iteration that was told to quit
  linkUp,    \* pcat_pmu_serial_open succeeded
  env        \* the world: request file, poweroff running, PMU's own state

mainVars == <<ctl, pm, timers, loop, ran, linkUp, env>>
vars == <<outcome, delivered, kind, mainVars>>

\* Watchdog commands by their last timeout byte, and the shutdown request.
Watchdogs == {"watchdog5", "watchdog60", "watchdog0"}
PowerCommands == Watchdogs \cup {"shutdown"}

Unasked == {n \in Numbers : outcome[n] = "unasked"}

\* The number the next command takes.
NextNumber == CHOOSE n \in Unasked : \A m \in Unasked : n <= m

\* pcat_pmu_serial_write_data_request; with the port closed it does nothing.
AskFor(command) ==
  IF linkUp
  THEN /\ Unasked # {}
       /\ \E D \in SUBSET Open : Ask({NextNumber}, D)
       /\ kind' = [kind EXCEPT ![NextNumber] = command]
  ELSE UNCHANGED <<outcome, delivered, kind>>

AskNothing == UNCHANGED <<outcome, delivered, kind>>

\* The loop dispatches a source: again and again while it runs, and at most
\* once more in the iteration in which it was told to quit.
Sources == {"sigterm", "sigusr1", "pmu_timer", "shutdown", "reboot"}

Dispatch(source) ==
  /\ loop = "running" \/ (loop = "quit" /\ source \notin ran)
  /\ ran' = IF loop' = "running" THEN {} ELSE ran \cup {source}
----------------------------------------------------------------------------
(***************************************************************************)
(* Requests to power off.  pcat_main_request_shutdown remembers that the   *)
(* next SIGTERM is a shutdown and starts poweroff, which will send it; the *)
(* last caller decides whether the PMU is to be told.                      *)
(***************************************************************************)
RequestShutdown(sendPmu) ==
  /\ ctl' = [ctl EXCEPT !.request = TRUE, !.sendPmu = sendPmu]
  /\ env' = [env EXCEPT !.poweroff = TRUE,
                        !.pmuAsked = @ \/ ~sendPmu]

\* The one second timer of pmu-manager.c: the charger has been away for too
\* long (again every second), or a scheduled event is due (once).
ScheduledShutdown ==
  /\ linkUp
  /\ ~pm.rebootReq /\ ~pm.shutdownReq
  /\ \E byCharger \in BOOLEAN : byCharger \/ ~pm.planned
  /\ RequestShutdown(TRUE)
  /\ pm' = [pm EXCEPT !.planned = TRUE]
  /\ AskNothing /\ UNCHANGED <<timers, loop, linkUp>>
  /\ Dispatch("pmu_timer")

\* PMU_REQUEST_SHUTDOWN arrives.
PmuRequestsShutdown ==
  /\ loop # "gone" /\ linkUp
  /\ RequestShutdown(FALSE)
  /\ AskNothing /\ UNCHANGED <<pm, timers, loop, ran, linkUp>>
----------------------------------------------------------------------------
(***************************************************************************)
(* Signals.                                                                *)
(***************************************************************************)
Quit == loop' = "quit"

\* Mutant: the test of the send flag is swapped.
SystemShutdownSwapped ==
  \/ /\ ctl.shutdown
     /\ AskNothing /\ UNCHANGED <<ctl, pm, timers, loop>>
  \/ /\ ~ctl.shutdown /\ ~ctl.sendPmu
     /\ AskFor("shutdown")
     /\ pm' = [pm EXCEPT !.shutdownReq = TRUE]
     /\ timers' = timers \cup {"shutdown"}
     /\ ctl' = [ctl EXCEPT !.shutdown = TRUE]
     /\ UNCHANGED loop
  \/ /\ ~ctl.shutdown /\ ctl.sendPmu
     /\ Quit
     /\ ctl' = [ctl EXCEPT !.shutdown = TRUE]
     /\ AskNothing /\ UNCHANGED <<pm, timers>>

SystemShutdown ==
  \/ /\ ctl.shutdown
     /\ AskNothing /\ UNCHANGED <<ctl, pm, timers, loop>>
  \/ /\ ~ctl.shutdown /\ ctl.sendPmu
     /\ AskFor("shutdown")
     /\ pm' = [pm EXCEPT !.shutdownReq = TRUE]
     /\ timers' = timers \cup {"shutdown"}
     /\ ctl' = [ctl EXCEPT !.shutdown = TRUE]
     /\ UNCHANGED loop
  \/ /\ ~ctl.shutdown /\ ~ctl.sendPmu
     /\ Quit
     /\ ctl' = [ctl EXCEPT !.shutdown = TRUE]
     /\ AskNothing /\ UNCHANGED <<pm, timers>>

SystemReboot ==
  \/ /\ ctl.reboot
     /\ AskNothing /\ UNCHANGED <<ctl, pm, timers, loop>>
  \/ /\ ~ctl.reboot
     /\ AskFor("watchdog60")
     /\ pm' = [pm EXCEPT !.rebootReq = TRUE]
     /\ timers' = timers \cup {"reboot"}
     /\ ctl' = [ctl EXCEPT !.reboot = TRUE]
     /\ UNCHANGED loop

\* Mutant: SIGTERM does not look whether the watchdog was switched off.
SigTermReboots ==
  /\ LET shutdown == ctl.request \/ env.file
     IN  \/ shutdown /\ SystemShutdown
         \/ ~shutdown /\ SystemReboot
  /\ UNCHANGED <<linkUp, env>>
  /\ Dispatch("sigterm")

SigTerm ==
  /\ LET shutdown == ctl.request \/ env.file
     IN  \/ shutdown /\ SystemShutdown
         \/ ~shutdown /\ ~ctl.watchdogOff /\ SystemReboot
         \/ /\ ~shutdown /\ ctl.watchdogOff
            /\ Quit
            /\ AskNothing /\ UNCHANGED <<ctl, pm, timers>>
  /\ UNCHANGED <<linkUp, env>>
  /\ Dispatch("sigterm")

\* Two numbers stay free for the commands of SigTerm: a bound of the model.
SigUsr1 ==
  /\ Cardinality(Unasked) > 2
  /\ ctl' = [ctl EXCEPT !.watchdogOff = TRUE]
  /\ AskFor("watchdog0")
  /\ UNCHANGED <<pm, timers, loop, linkUp, env>>
  /\ Dispatch("sigusr1")
----------------------------------------------------------------------------
(***************************************************************************)
(* The check timers share one wait counter.                                *)
(***************************************************************************)
\* Mutant: one wait more than the limit.
CheckTooLong(timer, completed) ==
  /\ timer \in timers
  /\ \/ /\ completed \/ ctl.waits > WaitMax + 1
        /\ Quit
        /\ timers' = timers \ {timer}
        /\ UNCHANGED ctl
     \/ /\ ~completed /\ ctl.waits <= WaitMax + 1
        /\ ctl' = [ctl EXCEPT !.waits = @ + 1]
        /\ UNCHANGED <<timers, loop>>
  /\ AskNothing /\ UNCHANGED <<pm, linkUp, env>>
  /\ Dispatch(timer)

\* Mutant: the waits are not counted.
CheckForever(timer, completed) ==
  /\ timer \in timers
  /\ \/ /\ completed
        /\ Quit
        /\ timers' = timers \ {timer}
     \/ /\ ~completed
        /\ UNCHANGED <<timers, loop>>
  /\ AskNothing /\ UNCHANGED <<ctl, pm, linkUp, env>>
  /\ Dispatch(timer)

Check(timer, completed) ==
  /\ timer \in timers
  /\ \/ /\ completed \/ ctl.waits > WaitMax
        /\ Quit
        /\ timers' = timers \ {timer}
        /\ UNCHANGED ctl
     \/ /\ ~completed /\ ctl.waits <= WaitMax
        /\ ctl' = [ctl EXCEPT !.waits = @ + 1]
        /\ UNCHANGED <<timers, loop>>
  /\ AskNothing /\ UNCHANGED <<pm, linkUp, env>>
  /\ Dispatch(timer)

ShutdownCheck == Check("shutdown", pm.shutdownDone)
RebootCheck == Check("reboot", pm.rebootDone)

\* g_main_loop_run returns after the iteration in which it was told to quit.
LoopReturns ==
  /\ loop = "quit"
  /\ loop' = "gone"
  /\ timers' = {}
  /\ AskNothing /\ UNCHANGED <<ctl, pm, ran, linkUp, env>>
----------------------------------------------------------------------------
(***************************************************************************)
(* The link and the PMU.  An answer may have been sent long ago, and may   *)
(* come more than once: the PMU answers every transmission.                *)
(***************************************************************************)
\* Mutant: any answer completes a requested shutdown.
ReadAnyAnswer(n) ==
  /\ loop # "gone" /\ n \in delivered
  /\ IF n \in Open THEN Answer(n) ELSE UNCHANGED <<outcome, delivered>>
  /\ pm' = [pm EXCEPT
              !.shutdownDone = @ \/ pm.shutdownReq,
              !.rebootDone = @ \/ (kind[n] \in Watchdogs /\ pm.rebootReq)]
  /\ UNCHANGED <<kind, ctl, timers, loop, ran, linkUp, env>>

ReadAnswer(n) ==
  /\ loop # "gone" /\ n \in delivered
  /\ IF n \in Open THEN Answer(n) ELSE UNCHANGED <<outcome, delivered>>
  /\ pm' = [pm EXCEPT
              !.shutdownDone = @ \/ (kind[n] = "shutdown" /\ pm.shutdownReq),
              !.rebootDone = @ \/ (kind[n] \in Watchdogs /\ pm.rebootReq)]
  /\ UNCHANGED <<kind, ctl, timers, loop, ran, linkUp, env>>

PmuReceives(n) ==
  /\ loop # "gone"
  /\ Deliver(n)
  /\ env' = IF kind[n] \in Watchdogs
            THEN [env EXCEPT !.watchdog = kind[n]] ELSE env
  /\ UNCHANGED <<kind, ctl, pm, timers, loop, ran, linkUp>>

\* The oldest open command has had its transmissions.
LinkGivesUp ==
  /\ loop # "gone"
  /\ Advance
  /\ \A n \in Numbers : outcome'[n] # "written"
  /\ UNCHANGED kind /\ UNCHANGED mainVars

\* Commands that are not numbered here push D out of the full queue.
LinkSkips ==
  /\ loop # "gone"
  /\ \E D \in SUBSET Open : D # {} /\ Ask({}, D)
  /\ UNCHANGED kind /\ UNCHANGED mainVars

\* Somebody asks for a shutdown through the request file.
RequestFile ==
  /\ ~env.file
  /\ env' = [env EXCEPT !.file = TRUE]
  /\ AskNothing /\ UNCHANGED <<ctl, pm, timers, loop, ran, linkUp>>
----------------------------------------------------------------------------
\* After pcat_pmu_manager_init, whose last command sets the watchdog.
Init ==
  /\ linkUp \in LinkStates
  /\ outcome = [n \in Numbers |->
                  IF linkUp /\ n = 0 THEN "open" ELSE "unasked"]
  /\ kind = [n \in Numbers |-> IF n = 0 THEN "watchdog5" ELSE "shutdown"]
  /\ delivered = {}
  /\ ctl = [request |-> FALSE, sendPmu |-> TRUE, shutdown |-> FALSE,
            reboot |-> FALSE, waits |-> 0, watchdogOff |-> FALSE]
  /\ pm = [shutdownReq |-> FALSE, rebootReq |-> FALSE, shutdownDone |-> FALSE,
           rebootDone |-> FALSE, planned |-> FALSE]
  /\ timers = {}
  /\ loop = "running" /\ ran = {}
  /\ env = [file |-> FALSE, poweroff |-> FALSE, pmuAsked |-> FALSE,
            watchdog |-> "watchdog60"]

Next ==
  \/ ScheduledShutdown \/ PmuRequestsShutdown
  \/ SigTerm \/ SigUsr1
  \/ ShutdownCheck \/ RebootCheck \/ LoopReturns
  \/ \E n \in Numbers : ReadAnswer(n) \/ PmuReceives(n)
  \/ LinkGivesUp \/ LinkSkips
  \/ RequestFile

Spec == Init /\ [][Next]_vars

\* Timers fire, the loop returns, and a running poweroff sends SIGTERM.
\* Nothing is assumed of the PMU.
FairSpec ==
  /\ Spec
  /\ WF_vars(ShutdownCheck) /\ WF_vars(RebootCheck) /\ WF_vars(LoopReturns)
  /\ WF_vars(env.poweroff /\ SigTerm)
----------------------------------------------------------------------------
(***************************************************************************)
(* Properties.                                                             *)
(***************************************************************************)

\* The state has its type; the shared counter stops one above its limit.
TypeOK ==
  /\ outcome \in [Numbers -> Outcomes]
  /\ delivered \subseteq Numbers
  /\ kind \in [Numbers -> PowerCommands]
  /\ ctl \in [request: BOOLEAN, sendPmu: BOOLEAN, shutdown: BOOLEAN,
              reboot: BOOLEAN, waits: 0 .. WaitMax + 1, watchdogOff: BOOLEAN]
  /\ pm \in [shutdownReq: BOOLEAN, rebootReq: BOOLEAN, shutdownDone: BOOLEAN,
             rebootDone: BOOLEAN, planned: BOOLEAN]
  /\ timers \subseteq {"shutdown", "reboot"}
  /\ loop \in {"running", "quit", "gone"} /\ ran \subseteq Sources
  /\ linkUp \in BOOLEAN
  /\ env \in [file: BOOLEAN, poweroff: BOOLEAN, pmuAsked: BOOLEAN,
              watchdog: Watchdogs]

\* The manager never ends a shutdown behind the PMU's back: the PMU asked
\* for it, or it has the request, or the manager waited for it to the limit.
\* (A reboot that is under way at the same time may end it earlier.)
PmuKnows ==
  loop = "gone" /\ ctl.shutdown /\ ~ctl.reboot =>
    \/ env.pmuAsked
    \/ \E n \in delivered : kind[n] = "shutdown"
    \/ ctl.waits > WaitMax

\* A manager that reports the shutdown as completed has told the PMU.
ShutdownDoneIsReal ==
  pm.shutdownDone => \E n \in delivered : kind[n] = "shutdown"

\* Once the PMU has confirmed that the watchdog is off it stays off: no older
\* watchdog command arrives late, and no reboot sets it again.
DisabledStaysOff ==
  (\E n \in Numbers : kind[n] = "watchdog0" /\ outcome[n] = "answered")
    => env.watchdog = "watchdog0"

\* A manager that was told to stop, or has started poweroff, stops, whether
\* or not the PMU ever answers and whatever else is asked meanwhile.
Stops ==
  (env.poweroff \/ ctl.shutdown \/ ctl.reboot) ~> (loop = "gone")

\* A reboot reported as completed has armed the PMU's watchdog for it.
RebootDoneIsReal ==
  pm.rebootDone => \E n \in delivered : kind[n] = "watchdog60"
=============================================================================
