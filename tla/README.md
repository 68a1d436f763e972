# rockchip_rk3568_pcat_manager: specifications, model checking and proofs

The program is a daemon of a battery-powered 5G router. It talks to a
power-management unit (PMU, a microcontroller) over a serial line, drives the
5G modem and its dial program, watches which way the network traffic goes, and
serves a local control socket. All of it is C on GLib, in `src/src/`.

This directory holds TLA+ modules that model it, TLC configurations that check
the modules on small instances, and proofs for TLAPS.

    tlc -workers 2 -config PmuLink_safety.cfg MCPmuLink.tla
    tlapm PmuLinkProofs.tla

## 1. Inventory

### Threads

| thread | code | what it does |
|---|---|---|
| main loop | `main.c` 1313-1433 | all sources and timers of `pmu-manager.c`, `controller.c`, the output and the end of the dial program, signals, check timers, LED timer |
| modem worker | `modem-manager.c` 803-893 | powers the modem on, scans the USB every second, starts the dial program |
| mwan3 thread | `main.c` 754-1109 | asks ubus and mwan3 every 5 s, writes the route mode |
| connection thread | `main.c` 1111-1175 | pings when mwan3 gives no route, writes the same mode |

The threads share plain variables; the mutexes that exist protect none of what
is named below.

### Components

**PMU link, writing** (`pmu-manager.c` 165-380, 906-917, 1212-1402). State: one
current command, a queue, the write source, frame counter, retry count and
timestamp of the current command. Operations: a command is queued (with a trim
of the oldest), written, written again after one second, answered, given up;
the one second timer sends a heartbeat and starts the write source again if it
has to. Everything else in the manager talks to the PMU through it.
*Correct means*: each command gets exactly one outcome, justified by what
happened; an answer frees only the command it belongs to; order is kept; no
torn frame is caused by a timeout; the queue is bounded; it never stalls.

**PMU link, reading** (821-1058). State: a byte buffer. Operations: append what
`read()` gives, trim, parse, dispatch.
*Correct means*: the frames found do not depend on how the bytes were cut, all
sent frames are found, noise does not stop the parser, the buffer is bounded.

**End of the manager** (`main.c` 628-752, 1406-1450; `pmu-manager.c` 941-969,
1237-1345, 1555-1597). State: flags for a request, shutdown, reboot, disabled
watchdog, whether the PMU is to be told, one wait counter, two check timers;
request and completion flags of the PMU manager. Operations: SIGTERM, SIGUSR1,
requests by the schedule, the charger timer and the PMU, answers, check timers.
*Correct means*: the program ends once told to, does not end behind the PMU's
back, reports a completion only if the PMU has the command, and leaves a
disabled watchdog off.

**Route detection and LED** (`main.c` 754-1231). State: the shared mode, the
mode applied to the LED. *Correct means*: the mode converges to what mwan3 or
the pings say although two threads overwrite each other; the LED shows it.

**Modem manager** (`modem-manager.c`). State: phase, process record, read
source, output buffer, mode, 5G flag and timestamp, rfkill state and line.
*Correct means*: at most one dial program, always on record, reaped, killed at
the end and running again as long as the modem is there; a 5G reset only when 5G
was away long enough and never while the user blocks the radio; the rfkill line
is what was asked for; a spoiled line of output costs itself only; the end does
not hang.

**Status of the PMU** (`pmu-manager.c` 591-819, 1353-1371, 1434-1504). State:
whether the host's clock was set, battery percentage and its cap, charger flag,
the shutdown voltage sent last. Operations: a status report of the PMU; the
timer's check of the modem.
*Correct means*: the percentage stays in its range for every voltage and every
configured table and never rises on battery; host and PMU end up with one time.

**Power schedule and charger auto start** (`pmu-manager.c` 409-481, 1235-1345).
State: timestamp of the charger, power-on event, `shutdown_planned`.
Operations: the one second timer compares times and asks to power off; the
list of start-up events and the auto start are sent to the PMU.
*Correct means*: power off is asked for when the user's settings call for it
(for the schedule once in the life of the program, `shutdown_planned`) and never
else; the PMU never keeps settings older than those it was told last.

**Controller** (`controller.c`). State: the table of connections; of each an
input buffer, an output buffer and an output source. Operations: accept, read,
run a command, push a reply, write, close, a timer that attaches lost sources.
*Correct means*: each client gets the replies to its own commands, in order and
each piece after those before it; commands run once; a client that sends broken
commands, is slow or never reads costs no other its answers; both buffers are
bounded. Two things the code does not promise: a client that leaves more than
2 MiB unread loses replies, and the end of one that was partly written (188-191),
so that what it reads then is not whole; and a client that sends without a pause
keeps the input handler in its loop (302-313), so that nobody else is served.

**User configuration** (`main.c` 379-626, the setters in `controller.c`).
State: the configuration, its dirty flag, the file. Operations: load at the
start, change by a command, save. There is no save by a timer or at the end:
each command that changes a setting saves, and a failed save is tried again only
by the next one.
*Correct means*: what the user set is in force, and still is after a restart.

**Main configuration**, **options**, **logging**, **serial port
set-up** and **`tinywatchdog.c`** (a loop that writes a heartbeat) have no state
that a run could bring into trouble.

### How they interact

The controller and the timers call setters of the link; the link calls back
into `main.c` (`pcat_main_request_shutdown`); `main.c` polls completion flags of
the link; the modem manager's device type decides a threshold command; the
user's schedule and auto start, changed by the controller and loaded at the
start, decide what the one second timer asks for; threads and timers share the
route mode.

## 2. Modules

| module | models |
|---|---|
| `OrderedService` | abstract: numbered commands, each with one outcome, in order |
| `PmuLink` | queue, writing, retransmission, answers, a lossy wire, the PMU |
| `LatestWins` | abstract: commands may be lost, none is overtaken by an older one |
| `FrameStream` | the incremental parser, its buffer, noise |
| `PowerControl` | the end of the manager, on top of `OrderedService` |
| `UserSettings` | settings, their file, restarts, and what the PMU knows of them, on top of `LatestWins` |
| `PmuStatus` | clocks, battery, charger, the decisions of the one second timer |
| `ControlSocket` | connections, buffers and sources of the control socket |
| `RouteLed` | the two route threads and the LED timer |
| `ModemManager` | modem worker thread against main loop |
| `MC...` | constants of the runs |
| `...Proofs` | theorems and proofs about the module of that name |

The link is described at three levels. `PmuLink` implements `OrderedService`
(property `ServiceSpec`, a refinement mapping from `link.fate` and `seen`;
checked by `PmuLink_safety`, proved as `LinkIsService`), and `OrderedService`
implements `LatestWins` (theorem `ServiceIsLatestWins`).
`PowerControl` EXTENDS `OrderedService`, using its actions for the link, because
it needs answers and outcomes; `UserSettings` EXTENDS `LatestWins`, because its
commands are never answered to anyone. Both see every order of losses, retries
and overflows `PmuLink` allows, without the queue.

### PmuLink

`link` is the part of `PCatPMUManagerData` that concerns writing. `link.cur`
(zero or one command) is `serial_write_current_command_data`; `link.queue` the
command queue; `link.source` tells that `serial_write_source` is set;
`link.late` that more than `COMMAND_TIMEOUT` passed since the timestamp. A
command has its `retry_count`, `firstrun`, and `part` (`written_size` inside the
frame). `link.fate` and `link.sends` are history. A frame is its kind and its
number; the model numbers without bound and compares modulo `FrameModulus` as
the code does with 16 bits.

The write handler is one action in the code, so each of its outcomes is one
action here: nothing written (`WriteNothing`), all written and nothing to wait
for (`WriteAll`), written up to a command that asks for an answer
(`WriteAwait`), and `write()` failing after some frames and perhaps part of one
(`WriteShort`). `wsize` is uninitialised when the loop ends before a write; then
the source is kept or removed at random, as the compiled code may do either.

### PowerControl

`ctl` holds the flags of `main.c`, `pm` those of `pmu-manager.c`, `timers` the
attached check timers, `loop` the main loop, `ran` the sources dispatched in the
iteration in which `g_main_loop_quit` was called (other sources of that
iteration still run). `kind` says which power command a number of the service
stands for; all other commands are unnumbered and appear as `LinkSkips` and in
the freedom of the service.

### RouteLed

Each read or write of the shared mode is a step. Policies are sequences of
rules, read by `RouteOf` as the code does: first rule with a share and a known
interface, IPv4 before IPv6. The LED timer is three steps because it reads the
mode three times. The work mode of the LED is constantly on, as in the code.

### ModemManager

`worker` and `main` are program counters of the two threads; the steps are cut
where the other thread can see a difference (process pointer, source pointer,
flag). `child` is what each process object is; names are used again after an
object is freed. Lines are their mode; the local `downgrade_from_5g`, which keeps
its value over the lines of one read, is `up`.

The output buffer is never emptied when a program ends. `piece` tells what its
unfinished line begins with: the running program's own output, or something else
(what an earlier program left, or the middle of a line). The first line of a
read can be spoiled in two ways (`Heard`): it is glued to something else, or the
append moves the buffer after `start` was taken from it (line 299), so that freed
memory is parsed. A spoiled line may be understood as any line or as none; that
the read of freed memory may also crash the program is left out. `Overflow` is the
emptying of the buffer above 1 MiB, with whole lines in it. `begun` and `quiet`
are history: whether the program has finished a line since the buffer was last
cut, and how long ago a line said 5G that none of this can touch.

Power-on forgets earlier requests (line 96) and fails if a chip or line cannot be
had; at line 212 the rfkill line is killed already and stays so (`PowerOff`).
`user` is history: what was asked for last, and whether the line must follow it.
It need not while the worker waits before it drives the line open (`worker` is
"off") and after a power-on that failed, and from then until the user asks for
the opposite, because a second equal request returns early.

### FrameStream

A frame has one byte of length and one of checksum instead of two, a sum
instead of a CRC and no addresses; `Overhead` is 4 instead of 10. All decisions
of the loop are there in the code's order, with the code's used counts:
too short, bad length, incomplete, no end byte, bad sum, accepted. `Waits` are
the places where the loop stops for more bytes, `Whole` those where a frame with
its end byte lies; at any other byte the loop goes on with the next one.
`TrimAssumption` relates the trim to what a pass can leave behind and a read can
add; the code's numbers (a body of 65532, 10 bytes around it, reads of 4096, a
trim above 131072) satisfy it.

### LatestWins and UserSettings

`asked` are the numbers of all commands, `floor` the youngest that reached the
PMU; none up to it will still come. When the manager
ends, `floor` rises above all of them. `Selected` builds a list as the loops
over events do, by appending those that pass. `Tell` queues one or two commands at
once, as the load at the start does. A user's event list is a sequence of nodes,
each with or without an action: in the code the variable `action` keeps its
value over the loop (`controller.c` 501-522), so an event without an action has that
of the event before, and the first one what the stack held (`stack`, a choice).
`file` is what `g_file_set_contents` replaces as a whole. `Written` and `Loaded`
are the conversion: the file has no key for `enabled`, the load takes it from
ENABLE_MINUTE, which the command sets for enabled events but takes from the
client for others. `wish` is history: what the user asked for; if the manager
ends right after a save that failed it becomes what the file holds, because then
the loss is the file system's. `reached` tells that the PMU has the newest
command of a kind.

### PmuStatus

A report checks the clock, takes the battery's voltage through the table of its
situation (charging, normal, 5G modem) and sets the charger flag, in one action
as in the code. Percentages are in hundredths, rounded down, as the code's
integer arithmetic has them. Clocks are values more than a minute apart; a
command that sets the PMU's clock is on `line`, where it may be lost or pushed
out. `age` is the time since `charger_on_auto_start_last_timestamp`, in seconds and
one past the largest timeout at most; `unseen` is its history twin, which no
setting resets. `did` tells what the last step asked for, `asked` what any step
asked for so far; `RequestsAreExact` is stated with these and not with
`shutdown_planned`. A request only starts the program `poweroff`; ticks go on
until its signal arrives, or for ever if it fails, and pass over every event.

### ControlSocket

Bytes are counted in pieces, the unit of one `read()`. `Last[c][n]` is the piece
that holds the NUL of command `n`. The input handler reads until nothing is
left; `reading` names the connection whose handler has not returned, so a client
can go on sending under it, and no other handler runs. `Known` are the commands
`command_table` has. `executed` and `dropped` are history. A trim of the input
buffer may cut a command; it is then not understood but still ends at its NUL.
`RepliesInOrder` looks at all a client has got and will get: what is missing
after an overflow of the output buffer are whole replies and the end of one,
never a beginning or a middle.

## 3. Runs

| run | shows |
|---|---|
| `PmuLink_safety` | one justified fate per command, in order, no torn frame by a timeout; the link implements `OrderedService` |
| `PmuLink_live` | the queue drains |
| `PowerControl` | the manager ends, and properly |
| `PowerControl_reboot` | violation: an old watchdog answer completes a reboot |
| `RouteLed` | convergence of the route mode |
| `RouteLed_applied` | violation: the LED timer remembers a mode it did not show |
| `ModemManager` | one dial program, running again and again; resets in time; the radio as asked for after power-on |
| `FrameStream` | frames do not depend on the cuts, recovery; the buffer is bounded (in `TypeOK`) |
| `ControlSocket` | commands once and in order, replies in order and without holes, bounded buffers, every client that stays and reads is answered if all pause at times |
| `UserSettings` | settings outlive restarts and failed saves; the PMU follows them |
| `UserSettings_restart` | violation: a disabled event comes back enabled |
| `PmuStatus` | percentage, requests to power off, clocks that agree |

### Bounds and why they suffice

* `PmuLink_safety`: queue limit 1 (the queue holds 2, then overflows), numbers
  modulo 2, so the third frame has the number of the first; wire of 2 frames in
  each direction, so an old answer and a newer frame are under way together;
  3 retries as in the code. A property relates at most two commands, so more of
  them add nothing.
* `PmuLink_live`: two commands, one frame on the wire in each direction; the
  full retry sequence happens.
* `PowerControl`: 4 numbered commands (start, SIGUSR1, reboot, shutdown: a
  shutdown and a reboot are asked for at most once each), 2 waits instead of 30.
* `RouteLed`: a policy without a live rule, a wired one and a mobile one; two
  rounds of pings instead of five.
* `ModemManager`: two names for process objects (one on record, one freed),
  timeout of one tick, reads of at most two whole lines (a first one, which may
  be spoiled, and one behind it), one move of the buffer (`MovesMax`: a move costs
  one line and leaves nothing behind).
* `FrameStream`: lines of up to 14 bytes, 4 of them noise, reads of up to 3:
  two frames and a false start of the largest size fit.
* `ControlSocket`: two clients; one sends a command, one that does not fit, and
  two more, the other one that is not known and one that just fits. Replies of 3
  pieces against a socket of 2 (every write is partial), limits of 2 (both
  buffers overflow).
* `UserSettings`: 2 events kept of each action instead of 6 and 2 sent, with a
  list of 3; 4 settings, 7 numbers of commands, any number of restarts that
  these allow.
* `PmuStatus`: tables of two intervals instead of ten, one of them not
  decreasing in the configuration; voltages below, inside and above them; a
  timeout of 2 ticks; two clocks; one event that counts (weekly) and one that
  switches on, which the manager must ignore.

Deadlock is not checked: the manager ends (PowerControl, RouteLed,
ModemManager), the bounded history is used up (PmuLink, FrameStream,
UserSettings) or all clients have gone (ControlSocket).

### Fairness

* `PmuLink`: GLib's timer fires and an attached source runs (weak fairness); the
  serial port has no flow control, so a frame on the wire leaves it, received or
  lost; a handler that can again and again complete a frame does so at some time
  (strong fairness): `write()` to a tty does not fail for ever. Nothing is
  assumed of the PMU: it may never answer.
* `PowerControl`: check timers and the loop's return (weak); a running
  `poweroff` sends SIGTERM. Nothing of the PMU.
* `RouteLed`: the threads and the timer run; what mwan3 reports and whether pings
  succeed is free, and the properties say what holds once it is steady.
* `ModemManager`: worker thread, reaping and join run; reading, timers and the
  user are free.
* `ControlSocket`: GLib dispatches a source that stays ready, and the timer
  fires. Nothing makes the input handler return, which a client that goes on
  sending keeps in its loop, and nothing makes a client read. `Answered` names
  both as its conditions: the handler is not kept for ever, and the client that is
  to be answered reads; whether the others do is free.
* `PmuStatus`: status reports keep coming (weak), and of the commands that set
  the PMU's clock not all are lost (strong).

### What the violations show

* `RebootDoneIsReal`: `pcat_pmu_serial_read_data_parse` sets
  `reboot_process_completed` at any answer to a watchdog command once a reboot
  was requested (962-969). The answer to the command of
  `pcat_pmu_manager_init` that is still under way completes the request: the
  loop quits although the PMU does not have the 60 second watchdog.
* `LedShowsApplied`: the LED timer compares, chooses and remembers with three
  reads of a variable two threads write (1179, 1182, 1226).
* `EnabledAsAsked`: the file has no `enabled` of an event; a restart takes it
  from ENABLE_MINUTE, so an event the user left disabled with that bit set is
  in force after a restart.

Another disagreement is stated inside a property that holds: the worker's
power-on drives the rfkill line open (245-249) whatever was asked for while it
waited (234). A block of that time stays recorded and is reported to the clients
as `rfkill-state`, while the line is open, and asking again returns early (1087).
`RadioAsAsked` says that this happens in no other way and ends with the next
request for the opposite; an invariant `rfkill.state => rfkill.line # "open"` would
fail in three steps (power-on begins, the user blocks, the line is opened).

## 4. Proofs

Assumptions are the named ASSUMEs of the modules only; TLC evaluates them on
the constants of each run.

### 4.1 PmuLinkProofs

`TypeCorrect` is `Spec => []TypeOK` for every queue limit, modulus, wire size
and bound. `TypeOK` is itself inductive: besides types it says that at most one
command is current, the queue holds at most `QueueMax + 1` commands, nothing of
a queued command was written, and a command to be written has a transmission
left. The last two carry each other: a command enters with all its
transmissions, only the current one is written, and one that has none left is
freed before the next write. Lemmas say what each operator does to a link that
is `LinkOK`, and one lemma per group of actions puts them together.

`Invariant` is `Spec => [](TypeOK /\ IInv)`; from it follow `AllAccounted`
(`EveryCommandAccounted`), `AllJustified` (`FatesJustified`), `AllInOrder`
(`InOrder`) and `AllAckedReceived` (`AckedWasReceived`). None of the first three
is inductive. `IInv` looks at the current command and the queue as one sequence,
the pending commands:

* `LinkSound`: a number is pending exactly if its fate is open; the pending
  numbers increase and stay below the next one; the transmissions made and those
  left of a pending command add up to what it is due, so that the fate it meets
  is justified; a fate that was met agrees with the transmissions;
* `WireSound`: the frames on the wire and those the PMU saw are in order, and no
  pending command is older than any of them, so that a retransmission cannot go
  behind a younger command;
* `AckedWasReceived`, with every answer on its way belonging to a frame that was
  seen. It needs that an answer which the code takes for the current command's,
  comparing 16 bits, is an answer to this command: the lemma `SameRemainder`, two
  numbers less than one modulus apart with the same remainder are equal. That
  they are that close is the environment's part (`Recent`): no answer stays on
  the wire while 65536 commands are sent.

The proof looks at the actions once. Removing the first pending commands
(`RemovalSound`), adding one (`AdditionSound`) and changing how far the first
one is written (`HeadSound`) are all that any of them does to the sequence; a
write is described by how many commands leave and how many frames go out
(`WroteOut`).

`FramesFinished` (`FrameFinished`) is the action property: a frame of which a
part went out is continued by the next write or given up by an answer, never
torn by a timeout or by a full queue.

`LinkIsService` is the refinement, step by step: queueing is `Ask`
(`AskImplemented`), a frame that reaches the PMU is `Deliver`
(`DeliverImplemented`), an answer that is read is `Answer`
(`AnswerImplemented`), and the write handler, which may send several commands
that want no answer and give one up on the way, is `Advance`
(`AdvanceImplemented`): the commands that leave are those up to some number,
because the pending ones are in order. All other steps stutter.

### 4.2 PowerControlProofs

For every set of numbers, every wait limit and a port that may be open or not:
`TypeCorrect`, `CompletedIsReal` (`ShutdownDoneIsReal`), `OffStaysOff`
(`DisabledStaysOff`), `PmuIsTold` (`PmuKnows`), all from `Invariant`,
`Spec => []IInv`. The proof does not look at the actions once per property. Two
lemmas look at them and the rest uses only what these say of a step:

* `ServiceStep`: commands keep their kind, answers need a command the PMU has,
  and a new command is the next one in order, of a kind `c` that is
  `"watchdog60"` only if the watchdog was not switched off before;
* `FlagsStep`: which flags are never reset (`Latches`), where the others come
  from (`Causes`), and how the main loop is left (`LoopEvolves`, `Leaves`).

None of the properties is inductive. `IInv` adds to them:

* `CommandsOK`: order of the numbers, delivered commands were asked for,
  answered ones were delivered;
* `WatchdogOK`: no command behind a `watchdog0` arms the watchdog again (this is
  where SIGTERM's test of `watchdogOff` is needed), and the PMU's own state
  follows because the service never delivers an older command after a younger;
* `EndOK`: what `PmuKnows` says of the end already holds from the moment the
  loop is told to quit, with one case more: SIGTERM left the loop without a
  shutdown, and then `"sigterm"` is in `ran`, so no second SIGTERM can begin one
  in the same iteration.

The proof rests on `OrderedService` as the link's behaviour; that `PmuLink`
implements it is `LinkIsService`.

### 4.3 The service, seen by settings

The last section of `PowerControlProofs` is about `OrderedService` alone.
`ServiceIsLatestWins`: `OrderedService` implements `LatestWins`, with `asked`
and `floor` mapped to the commands with an outcome other than "unasked" and to
the youngest delivered one. The invariant needed (`SInv`) is small: types, and
that there is such a youngest command; the order itself is in the guard of
`Deliver`.

### 4.4 UserSettingsProofs

`TypeCorrect`, `SettingsAreKept` (`SettingsKept`) and `PmuFollowsSettings`
(`PmuFollows`), for all event lists, limits and numbers of commands. `TypeOK`
says more than types: no schedule outgrows what is kept of an action, and the
PMU's list leaves none of its events out. Its invariant `TInv` needs the same of
the file and of the commands under way. The work is in `SelectedIs`: what a loop
appends comes from increasing places, so the last event kept of an action bounds
their number (`ScheduleFits`), and the start-up list, being no longer than what
is kept, fits the PMU's 48 bytes (`ListTypes`, from `KeptMax <= SentMax`).
`SettingsAreKept` needs `KInv`: unless
the last save failed, the file holds what is in memory, up to what a file can
hold (`Written`), and `dirty` is set exactly if it failed. `PmuFollowsSettings`
needs `FInv`: of the commands of a kind that may still reach the PMU the newest
one carries what memory holds, and once it has got there none of its kind is
left and the PMU holds the same. So an old command that reaches the PMU late
does no harm: a younger one is due.

### 4.5 PmuStatusProofs

`TypeCorrect`, `PercentageFalls` (`FallsOnBattery`) and `RequestsExact`
(`RequestsAreExact`) for all tables, timeouts, schedules and times. The lemma on
`Percentage` is what takes work: for a decreasing table the interval exists for
every voltage between the ends, and what the interpolation adds stays below one
step. A table that is not decreasing is never used (`Table`). `BatteryOK` says
that on battery the cap is what is shown; `TimerOK` that the timestamp is
exactly as old as the charger has been away, whatever the user turned on and
off, and that `shutdown_planned` is set exactly if power off was requested, for
whichever reason. `RequestsExact` therefore says that no event is passed over
before the first request, and that all are after it.

### 4.6 RouteLedProofs

`TypeCorrect` and `RoutesAreReported` (`RouteIsReported`). The inductive
invariant adds to them only what the counter of pings needs.

### 4.7 ModemManagerProofs

`TypeCorrect`, `OneDialProgram` (`NoOrphan`), `RecordStaysValid`
(`RecordIsValid`), `RadioFollows` (`RadioAsAsked`) and `ResetsAreDue`
(`ResetIsDue`) for every timeout, any number of moves of the buffer and any set of
process names.
What makes the first two inductive is `HandOver`: where each thread stands
between taking a process from the record, killing or freeing it and entering a
new one. `RadioFollows` needs `Interrupted`: a block that was asked for is not
relied on while the worker may still drive the line open. `ResetsAreDue` is an
action property: a reset only when the 5G signal was away for the whole timeout.
It needs `SignalInv`: once the program has finished a line the buffer holds
nothing but its own output, so that only what `Heard` says can spoil a line; and
the manager's timestamp is never older than the last line that said 5G and could
not be spoiled (`modem.age <= quiet`): other lines, spoiled ones and the user may
only make it younger. A read gives at most two lines, of which only the first may
be heard as another (`HeardLines`), and the fold over them is unrolled
(`LinesSignal`).

### 4.8 ControlSocketProofs

All four safety properties for any clients, commands and limits. A step is
first reduced to what it does to one connection (`StepShape`): it `Rests`, which
includes that pieces move from the buffer to the socket, it `Closes`, or it
reads a chunk. Then:

* `OutputWatched` needs that a connection that is not open has no output;
* `CommandsExecuted` needs `HeldExact`, that the buffer holds all of a command
  that fits and is partly read (this is where the trim must come before the
  append and take at least one read), and `Behind`, that what ran was read;
* `RepliesInOrder` needs both, since a reply may follow only those of smaller
  numbers, and `Complete`, that nothing of a stream is missing unless something
  was dropped. That no reply has a hole holds because a reply is appended as a
  whole and only the end of a stream is ever cut off (`PrefixOrdered`,
  `ReplyOrdered`).

### 4.9 FrameStreamProofs

`TypeCorrect`, `SplitsDontMatter` (`SplitIndependent`), `AllDelivered`
(`Delivered`) and `AllRecover` (`Recovers`), for every set of bytes, size of
frames and reads, and every line. The parser is a recursive function of the
position, so its facts are inductions over the buffer. They are made without an
induction principle that takes an operator: `Downwards` says that a set of
positions which contains each one behind which it contains all others contains
all of them (a smallest counterexample, from the well-foundedness of `<`).

* `LoopExists`, `LoopIs`: the recursive definition has a value, and it obeys one
  equation: where the loop waits it stops, else it goes on behind what it has
  looked at.
* `Window(b, c, k)`: buffer `b` is a part of `c` from place `k` on. Then what is
  decided at a place of `b` is decided at that place of `c` (`WindowTells`);
  hence more bytes at the end change nothing of what was found (`LoopExtends`),
  dropping what was used changes nothing of what will be (`LoopShifts`), and a
  pass over what one left behind with more bytes is the rest of a pass over
  everything (`PassResumes`).
* `SplitInvariant`: the frames found and the rest in the buffer are those of one
  pass over all that was read, the used bytes are the rest of it, and what is
  left is shorter than the longest frame. The last part needs no trim: under
  `TrimAssumption` no buffer ever reaches it. `SplitIndependent` and the bound in
  `TypeOK` follow.
* `LayoutInv`: the line is made of the sent frames, apart from each other, and
  of noise. A sent frame at a place where the loop arrives is accepted
  (`DueIsFound`), an unfinished one is waited for (`PartIsAwaited`). If
  no byte of noise is a start byte the loop arrives at each of them, and only
  there at a start (`LoopDelivers`), which is `Delivered`. Else a false frame may
  begin in the noise and swallow real ones, but it reaches no further than
  `MaxLen + Overhead` bytes, and from there on the loop arrives at the frames
  again, if they have no start byte inside (`LoopRecovers`), which is `Recovers`.

### What is only model-checked

Liveness (`Drains`, `Stops`, `RouteShown`, `PingsShown`, `Redials`, `Ends`,
`Answered`, `ClocksAgree`): fairness and ENABLED are outside the prover's reach.
Every invariant and every action property of the passing runs is also a
theorem.

## 5. Not modelled

The contents of commands that only read state, and of the part of the status
report that is only stored and shown (battery voltage, temperature, GPIO
states), JSON, logging, GPIO lines other than rfkill, options, memory
management (above all that the read of freed memory in the line parser may
crash). The PMU's own program is not in the repository; it is modelled by
what the code expects of it: it sees frames in order, answers those that ask for
it, and may say nothing. Signal strength, SIM and operator data. The programs
`rfkill block` and `rfkill unblock` a reset starts. Torn frames on the wire (an
answer that frees a command that is partly written again) count as not written.

## 6. Plan

1. (done) `OrderedService`, `PmuLink`, `PowerControl`, `RouteLed`,
   `ModemManager`, `FrameStream`.
2. (done) `LatestWins`, `UserSettings`, `PmuStatus`, `ControlSocket`; safety of
   these and of `RouteLed` and `ModemManager` proved.
3. (done) Safety of `PmuLink`, `FrameStream`, `ModemManager` and `UserSettings`
   proved; `PmuLink` implements `OrderedService`.
4. (done) `ModemManager`: the rfkill line against the request and the recorded
   state, with the block a worker that powers the modem on overruns; spoiled
   lines and the emptied buffer.
5. `ModemManager`: the two rfkill programs of a reset, which may run in either
   order, and the kernel's state.
6. `PmuLink`: the rest of a frame whose command an answer frees while it is
   partly written again.
7. `PmuStatus` on top of `LatestWins`, so that its lossy line is the link too.
