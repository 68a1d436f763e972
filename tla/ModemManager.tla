---------------------------- MODULE ModemManager ----------------------------
(***************************************************************************)
(* src/src/modem-manager.c: a worker thread powers the modem on, looks for *)
(* it on the USB and keeps one external dial program (quectel-cm) running; *)
(* the main loop reads the program's output, reaps it when it ends, resets *)
(* the radio when 5G stays away, and blocks the radio on request.  The two *)
(* threads share PCatModemManagerData without a lock.                      *)
(***************************************************************************)
EXTENDS Naturals, Sequences, FiniteSets, SequencesExt

CONSTANTS Processes,    \* names of dial programs, used again and again
          FailTimeout,  \* modem_5g_fail_timeout, in ticks of the model
          MovesMax      \* bound: how often the stdout buffer is moved

NoProcess == "none"     \* the NULL pointer

ASSUME ProcessesAssumption == NoProcess \notin Processes
ASSUME FailTimeoutAssumption == FailTimeout \in Nat /\ MovesMax \in Nat

VARIABLES
  worker,    \* where the worker thread stands
  main,      \* where the main thread stands
  exec,      \* external_control_exec_process and _stdout_read_source
  child,     \* what each process is: unborn, live, dead or freed
  piece,     \* the unfinished line in the buffer: none, the program's own,
             \* or one that begins with what is not its own
  moves,     \* times the buffer was moved
  modem,     \* mode, modem_have_5g_connected, age of the timestamp
  rfkill,    \* modem_rfkill_state and the rfkill line
  user,      \* history: what the user asked for since power-on began, and
             \* whether the rfkill line must follow it
  begun,     \* history: the program has finished a line, and the buffer has
             \* not been emptied since
  quiet,     \* history: ticks since a line said 5G that nothing can spoil
  world      \* USB device there, programs can be started

modemVars == <<modem, rfkill, user, quiet>>
bufferVars == <<piece, moves, begun>>
execVars == <<exec, child, bufferVars>>
vars == <<worker, main, execVars, modemVars, world>>

WorkerPCs == {"start", "off", "on", "ready", "spawned", "watched", "kill",
              "unref", "release", "done"}
ModemModes == {"below", "5g"}              \* below 5G, or not known
LineKinds == ModemModes \cup {"other"}      \* other: not about the signal
Ages == 0 .. FailTimeout + 1

workFlag == main \in {"loop", "reap"}

\* Mutant: a program that has ended is not started again.
FreeUnborn == {p \in Processes : child[p] = "unborn"}

Free == {p \in Processes : child[p] \in {"unborn", "freed"}}
----------------------------------------------------------------------------
(***************************************************************************)
(* The worker thread.  Powering on is a sequence of waits, each of which   *)
(* ends early when the work flag is cleared; the state becomes READY even  *)
(* then, and when the GPIO lines are not configured.                       *)
(***************************************************************************)
WorkerAt(pc) == worker' = pc

\* Requests made before are forgotten.  A chip or line that cannot be had
\* ends the power-on here, perhaps with the rfkill line already killed.
PowerOff ==
  /\ worker = "start" /\ workFlag
  /\ \E line \in {"absent", "killed"}, ok \in BOOLEAN :
       /\ rfkill' = [state |-> FALSE, line |-> line]
       /\ user' = [block |-> FALSE, sure |-> ok]
       /\ WorkerAt(IF ok THEN "off" ELSE "ready")
  /\ UNCHANGED <<main, execVars, modem, quiet, world>>

PowerOn ==
  /\ worker = "off"
  /\ IF workFlag /\ rfkill.line # "absent"
     THEN rfkill' = [rfkill EXCEPT !.line = "open"]
     ELSE UNCHANGED rfkill
  /\ WorkerAt(IF workFlag THEN "on" ELSE "ready")
  /\ UNCHANGED <<main, execVars, modem, user, quiet, world>>

Reset ==
  /\ worker = "on"
  /\ WorkerAt("ready")
  /\ UNCHANGED <<main, execVars, modemVars, world>>

\* Mutant: the scan does not look whether a program is on record.
SpawnAlways ==
  /\ worker = "ready" /\ workFlag
  /\ world.device /\ world.starts
  /\ \E p \in Free :
       /\ exec' = [exec EXCEPT !.process = p]
       /\ child' = [child EXCEPT ![p] = "live"]
  /\ WorkerAt("spawned")
  /\ UNCHANGED <<main, bufferVars, modemVars, world>>

\* The scan finds the device and starts the program if none is on record.
Spawn ==
  /\ worker = "ready" /\ workFlag
  /\ world.device /\ world.starts /\ exec.process = NoProcess
  /\ \E p \in Free :
       /\ exec' = [exec EXCEPT !.process = p]
       /\ child' = [child EXCEPT ![p] = "live"]
  /\ WorkerAt("spawned")
  /\ UNCHANGED <<main, bufferVars, modemVars, world>>

\* What the program before left in the buffer stays there.
Watch ==
  /\ worker = "spawned"
  /\ exec' = [exec EXCEPT !.source = exec.process]
  /\ piece' = IF piece = "none" THEN "none" ELSE "other"
  /\ begun' = FALSE
  /\ WorkerAt("watched")
  /\ UNCHANGED <<main, child, moves, modemVars, world>>

\* g_subprocess_wait_async; from here on the main loop reaps the program.
WaitAsync ==
  /\ worker = "watched"
  /\ WorkerAt("ready")
  /\ UNCHANGED <<main, execVars, modemVars, world>>

\* Mutant: the thread waits until the program on record has been reaped.
LeaveWhenReaped ==
  /\ worker \in {"start", "ready"} /\ ~workFlag
  /\ exec.process = NoProcess
  /\ WorkerAt("release")
  /\ UNCHANGED <<main, execVars, modemVars, world>>

\* The end of the thread: the program on record is killed and awaited, then
\* freed; then the radio is killed and the lines are released.
Leave ==
  /\ worker \in {"start", "ready"} /\ ~workFlag
  /\ WorkerAt(IF exec.process = NoProcess THEN "release" ELSE "kill")
  /\ UNCHANGED <<main, execVars, modemVars, world>>

Kill ==
  /\ worker = "kill"
  /\ child' = [child EXCEPT ![exec.process] = "dead"]
  /\ WorkerAt("unref")
  /\ UNCHANGED <<main, exec, bufferVars, modemVars, world>>

Unref ==
  /\ worker = "unref"
  /\ child' = [child EXCEPT ![exec.process] = "freed"]
  /\ exec' = [exec EXCEPT !.process = NoProcess]
  /\ WorkerAt("release")
  /\ UNCHANGED <<main, bufferVars, modemVars, world>>

Release ==
  /\ worker = "release"
  /\ rfkill' = [rfkill EXCEPT !.line = "absent"]
  /\ WorkerAt("done")
  /\ UNCHANGED <<main, execVars, modem, user, quiet, world>>
----------------------------------------------------------------------------
(***************************************************************************)
(* The main loop: output and end of the program.                           *)
(***************************************************************************)

\* Mutant: the timestamp is taken only when the mode goes up to 5G.
ParseLineUp(state, kind) ==
  LET m == state.modem
      up == kind = "5g" /\ m.mode # "5g"
  IN  IF kind = "other" THEN state
      ELSE [up |-> up,
            modem |-> [mode |-> kind,
                       had5g |-> m.had5g \/ kind = "5g",
                       age |-> IF up THEN 0 ELSE m.age]]

\* One line.  up is downgrade_from_5g, a local of the parser: an earlier line
\* of the same read went up to 5G, or this one does.
ParseLine(state, kind) ==
  LET m == state.modem
      up == state.up \/ (kind = "5g" /\ m.mode # "5g")
  IN  IF kind = "other" THEN state
      ELSE [up |-> up,
            modem |-> [mode |-> kind,
                       had5g |-> m.had5g \/ kind = "5g",
                       age |-> IF kind = "5g" \/ (m.had5g /\ up)
                               THEN 0 ELSE m.age]]

Parse(m, lines) ==
  FoldLeft(ParseLine, [modem |-> m, up |-> FALSE], lines).modem

\* What a read gives: whole lines, and perhaps the beginning of the next.
Lines == UNION {[1 .. n -> LineKinds] : n \in 0 .. 2}

\* What the parser makes of the lines.  The first is glued to what is in the
\* buffer; and where it begins is taken before the append, which may enlarge
\* and move the buffer, so that freed memory is read in its place.  Spoiled,
\* it may be understood as any line or as none.
Heard(lines, moved) ==
  IF lines # <<>> /\ (moved \/ piece = "other")
  THEN {[lines EXCEPT ![1] = kind] : kind \in LineKinds}
  ELSE {lines}

ReadLines(lines, rest) ==
  /\ \E moved \in BOOLEAN :
       /\ moved => lines # <<>> /\ moves < MovesMax
       /\ moves' = IF moved THEN moves + 1 ELSE moves
       /\ \E heard \in Heard(lines, moved) : modem' = Parse(modem, heard)
       /\ quiet' = IF \E i \in DOMAIN lines :
                        lines[i] = "5g" /\ (i > 1 \/ (begun /\ ~moved))
                     THEN 0 ELSE quiet
  /\ piece' = IF lines # <<>> THEN IF rest THEN "own" ELSE "none"
              ELSE IF rest /\ piece = "none" THEN "own" ELSE piece
  /\ begun' = (begun \/ lines # <<>>)

\* An unfinished line of more than 1 MiB: the buffer is emptied before it is
\* parsed, with the whole lines this read brought.
Overflow(rest) ==
  /\ piece # "none"
  /\ piece' = IF rest THEN "other" ELSE "none"
  /\ begun' = FALSE
  /\ UNCHANGED <<moves, modem, quiet>>

ReadStdout ==
  /\ main = "loop" /\ exec.source # NoProcess
  /\ child[exec.source] \in {"live", "dead"}
  /\ \E rest \in BOOLEAN :
       (\E lines \in Lines : ReadLines(lines, rest)) \/ Overflow(rest)
  /\ UNCHANGED <<worker, main, exec, child, rfkill, user, world>>

\* The callback of g_subprocess_wait_async, in two parts: the read source
\* and the stream first, then the process.
ReapSource ==
  /\ main = "loop"
  /\ exec.process # NoProcess /\ child[exec.process] = "dead"
  /\ worker \notin {"spawned", "watched"}
  /\ exec' = [exec EXCEPT !.source = NoProcess]
  /\ main' = "reap"
  /\ UNCHANGED <<worker, child, bufferVars, modemVars, world>>

\* Mutant: the pointer to the freed process is kept.
ReapKeptPointer ==
  /\ main = "reap"
  /\ child' = [child EXCEPT ![exec.process] = "freed"]
  /\ main' = "loop"
  /\ UNCHANGED <<worker, exec, bufferVars, modemVars, world>>

ReapProcess ==
  /\ main = "reap"
  /\ child' = [child EXCEPT ![exec.process] = "freed"]
  /\ exec' = [exec EXCEPT !.process = NoProcess]
  /\ main' = "loop"
  /\ UNCHANGED <<worker, bufferVars, modemVars, world>>
----------------------------------------------------------------------------
(***************************************************************************)
(* The radio.                                                              *)
(***************************************************************************)

\* Mutant: a line that is not configured is driven.
RfkillSetLine(r, block) ==
  IF r.state = block THEN r
  ELSE [state |-> block, line |-> IF block THEN "killed" ELSE "open"]

\* pcat_modem_manager_device_rfkill_mode_set; nothing is done twice.
RfkillSet(r, block) ==
  IF r.state = block THEN r
  ELSE [state |-> block,
        line |-> IF r.line = "absent" THEN r.line
                 ELSE IF block THEN "killed" ELSE "open"]

\* Mutant: the timer does not look whether the radio is blocked.
ScanTimeoutBlocked ==
  /\ main = "loop"
  /\ modem.had5g /\ modem.age > FailTimeout
  /\ rfkill' = RfkillSet(RfkillSet(rfkill, TRUE), FALSE)
  /\ modem' = [modem EXCEPT !.had5g = FALSE]
  /\ UNCHANGED <<worker, main, execVars, user, quiet, world>>

\* The five second timer: 5G was there and has been away for too long.
ScanTimeout ==
  /\ main = "loop"
  /\ modem.had5g /\ ~rfkill.state /\ modem.age > FailTimeout
  /\ rfkill' = RfkillSet(RfkillSet(rfkill, TRUE), FALSE)
  /\ modem' = [modem EXCEPT !.had5g = FALSE]
  /\ UNCHANGED <<worker, main, execVars, user, quiet, world>>

\* While the worker powers the modem on the line need not follow, and not
\* afterwards until the user asks for the opposite.
UserRfkill(block) ==
  /\ main = "loop"
  /\ rfkill' = RfkillSet(rfkill, block)
  /\ user' = [block |-> block,
              sure |-> worker # "off" /\ (user.sure \/ block # user.block)]
  /\ UNCHANGED <<worker, main, execVars, modem, quiet, world>>

Tick ==
  /\ modem.age <= FailTimeout \/ quiet <= FailTimeout
  /\ modem' = [modem EXCEPT !.age = IF @ <= FailTimeout THEN @ + 1 ELSE @]
  /\ quiet' = IF quiet <= FailTimeout THEN quiet + 1 ELSE quiet
  /\ UNCHANGED <<worker, main, execVars, rfkill, user, world>>
----------------------------------------------------------------------------
\* The main loop has returned: the flag is cleared, the thread joined.
Uninit ==
  /\ main = "loop"
  /\ main' = "join"
  /\ UNCHANGED <<worker, execVars, modemVars, world>>

Joined ==
  /\ main = "join" /\ worker = "done"
  /\ main' = "done"
  /\ UNCHANGED <<worker, execVars, modemVars, world>>

\* The program ends, the modem comes and goes, starting programs fails.
World ==
  /\ \/ /\ \E p \in Processes : /\ child[p] = "live"
                                /\ child' = [child EXCEPT ![p] = "dead"]
        /\ UNCHANGED world
     \/ /\ \E device, starts \in BOOLEAN :
             world' = [device |-> device, starts |-> starts]
        /\ UNCHANGED child
  /\ UNCHANGED <<worker, main, exec, bufferVars, modemVars>>

Init ==
  /\ worker = "start" /\ main = "loop"
  /\ exec = [process |-> NoProcess, source |-> NoProcess]
  /\ child = [p \in Processes |-> "unborn"]
  /\ piece = "none" /\ moves = 0 /\ begun = FALSE
  /\ modem = [mode |-> "below", had5g |-> FALSE, age |-> FailTimeout + 1]
  /\ rfkill = [state |-> FALSE, line |-> "absent"]
  /\ user = [block |-> FALSE, sure |-> TRUE] /\ quiet = FailTimeout + 1
  /\ world = [device |-> FALSE, starts |-> TRUE]

Worker ==
  \/ PowerOff \/ PowerOn \/ Reset
  \/ Spawn \/ Watch \/ WaitAsync
  \/ Leave \/ Kill \/ Unref \/ Release

Reap == ReapSource \/ ReapProcess

Next ==
  \/ Worker \/ Reap
  \/ ReadStdout
  \/ ScanTimeout \/ \E block \in BOOLEAN : UserRfkill(block)
  \/ Tick
  \/ Uninit \/ Joined
  \/ World

Spec == Init /\ [][Next]_vars

FairSpec == Spec /\ WF_vars(Worker) /\ WF_vars(Reap) /\ WF_vars(Joined)
----------------------------------------------------------------------------
(***************************************************************************)
(* Properties.                                                             *)
(***************************************************************************)
TypeOK ==
  /\ worker \in WorkerPCs
  /\ main \in {"loop", "reap", "join", "done"}
  /\ exec \in [process: Processes \cup {NoProcess},
               source: Processes \cup {NoProcess}]
  /\ child \in [Processes -> {"unborn", "live", "dead", "freed"}]
  /\ piece \in {"none", "own", "other"} /\ moves \in 0 .. MovesMax
  /\ begun \in BOOLEAN
  /\ modem \in [mode: ModemModes, had5g: BOOLEAN, age: Ages]
  /\ rfkill \in [state: BOOLEAN, line: {"absent", "killed", "open"}]
  /\ worker \in {"start", "done"} => rfkill.line = "absent"
  /\ user \in [block: BOOLEAN, sure: BOOLEAN] /\ quiet \in Ages
  /\ world \in [device: BOOLEAN, starts: BOOLEAN]

\* A dial program that runs is the one on record, so it is watched, reaped or
\* killed: none is left alone, two never run at once, and none survives.
NoOrphan == \A p \in Processes : child[p] = "live" => exec.process = p

\* The process on record was not freed, and the main loop does not read the
\* output of another one, although two threads free it.
RecordIsValid ==
  /\ exec.process # NoProcess => child[exec.process] \in {"live", "dead"}
  /\ main \in {"loop", "reap"} /\ exec.source # NoProcess
       => exec.source = exec.process

\* From the end of power-on the rfkill line is what the user asked for, and
\* open as long as nothing was asked: resets for a lost 5G connection, which
\* also switch it, leave no block loosened and no radio killed.  This holds
\* for a power-on that was complete and that no request interrupted, and
\* otherwise from the first request for the opposite of the one before: a
\* block asked for while the worker waits is overrun by line 247, and asking
\* again returns early (1087), so that until then the radio is recorded as
\* blocked and its line is open.  What is recorded is always what was asked.
RadioAsAsked ==
  /\ rfkill.state = user.block
  /\ workFlag /\ worker # "off" /\ user.sure =>
       rfkill.line \in {"absent", IF user.block THEN "killed" ELSE "open"}

\* A reset of the radio comes at the earliest one timeout after a line that
\* said 5G and that nothing can spoil: it is not the first line of its
\* program or after an emptied buffer, not the first of a read that moves the
\* buffer, and not read with the end of an overlong line.  So a spoiled line
\* costs itself only, and other lines never bring a reset forward.
ResetIsDue ==
  [][modem.had5g /\ ~modem'.had5g => quiet > FailTimeout]_vars

\* While the modem is there and programs can be started, a dial program runs
\* again and again, however often one ends.
Redials ==
  <>[](world.device /\ world.starts /\ workFlag)
    => []<>(\E p \in Processes : child[p] = "live")

\* The shutdown of the modem manager comes to its end.
Ends == main = "join" ~> main = "done"
=============================================================================
