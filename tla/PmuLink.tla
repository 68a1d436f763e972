------------------------------ MODULE PmuLink ------------------------------
(***************************************************************************)
(* The serial link from the manager to the power-management unit (PMU),    *)
(* src/src/pmu-manager.c: one command is current, the others wait in a     *)
(* queue; the current command is written, written again every second until *)
(* the PMU answers it, and given up after Retries transmissions.  All      *)
(* handlers run on the one GLib main loop, so a handler is one action; the *)
(* wire in both directions may lose any frame, and the PMU is external.    *)
(*                                                                         *)
(* A frame carries a 16 bit number.  The model numbers frames without      *)
(* bound (seq) and the code sees seq % FrameModulus.                       *)
(***************************************************************************)
EXTENDS Integers, Sequences, FiniteSets, Functions

CONSTANTS Requests,      \* kinds of command that ask for an answer
          QueueMax,      \* PCAT_PMU_MANAGER_COMMAND_QUEUE_MAX, 128
          FrameModulus,  \* frame numbers are guint16: 2^16
          WireMax,       \* frames the serial buffers of one direction hold
          MaxFrames,     \* bound: numbered frames of one behaviour
          MaxNotices     \* bound: frames the PMU sends of its own accord

ASSUME RequestsAssumption ==
  /\ {"time_sync", "threshold"} \subseteq Requests
  /\ {"heartbeat", "reply"} \cap Requests = {}

ASSUME SizesAssumption ==
  /\ QueueMax \in Nat
  /\ FrameModulus \in Nat \ {0}
  /\ WireMax \in Nat \ {0}
  /\ MaxFrames \in Nat
  /\ MaxNotices \in Nat

Retries == 3             \* retry_count of a command that asks for an answer

VARIABLES
  link,      \* the fields of PCatPMUManagerData that concern writing
  toPmu,     \* frames written to the serial port and not yet at the PMU
  toHost,    \* frames of the PMU not yet read
  timeSet,   \* system_time_set_flag
  notices,   \* number of notices the PMU has sent (bound only)
  seen       \* history: the numbered frames that reached the PMU

vars == <<link, toPmu, toHost, timeSet, notices, seen>>
----------------------------------------------------------------------------
(***************************************************************************)
(* Commands and the link record.  link.cur has at most one element;        *)
(* link.late says that more than COMMAND_TIMEOUT has passed since the last *)
(* bytes of the current command were written.  Two history fields:         *)
(* link.fate, what became of each numbered command, and link.sends, how    *)
(* often it was written out completely.                                    *)
(***************************************************************************)
Numbers == 0 .. MaxFrames - 1

Kinds == Requests \cup {"heartbeat", "reply"}

NeedsAck(c) == c.kind \in Requests

\* A command with no transmission left has just been written out.
Commands ==
  {c \in [kind: Kinds, seq: Nat, retry: 0 .. Retries,
          part: BOOLEAN,       \* written_size lies inside the frame
          firstrun: BOOLEAN] : \* nothing of it was ever written
     NeedsAck(c) /\ c.retry = 0 => ~c.part /\ ~c.firstrun}

\* Answers to the PMU repeat the PMU's number and take none of the link's.
Numbered(c) == c.kind # "reply"

Fates == {"none", "open", "sent", "acked", "gaveup", "dropped"}

NoticeKinds == {"status", "shutdown", "factory_reset"}

Acks == [type: {"ack"}, kind: Requests, seq: Nat]
Notices == [type: {"notice"}, kind: NoticeKinds, wants: BOOLEAN]

FreshCommand(kind, n) ==
  [kind |-> kind, seq |-> n, part |-> FALSE, firstrun |-> TRUE,
   retry |-> IF kind \in Requests THEN Retries ELSE 1]

\* A command some bytes of which were written, and one written to its end.
Begun(c) == [c EXCEPT !.part = TRUE, !.firstrun = FALSE]
Transmitted(c) ==
  [c EXCEPT !.retry = @ - 1, !.part = FALSE, !.firstrun = FALSE]

Pending(l) == l.cur \o l.queue

\* The fate map after the commands of S met the fate how.
Settle(fate, S, how) ==
  [n \in DOMAIN fate |->
     IF \E c \in S : Numbered(c) /\ c.seq = n THEN how ELSE fate[n]]

\* One more complete transmission of every command of S.
Count(sends, S) ==
  [n \in DOMAIN sends |->
     IF \E c \in S : Numbered(c) /\ c.seq = n THEN sends[n] + 1 ELSE sends[n]]

Frame(c) == [kind |-> c.kind, seq |-> c.seq]
Frames(s) == [i \in DOMAIN s |-> Frame(s[i])]
----------------------------------------------------------------------------
(***************************************************************************)
(* Queueing a command.  The trim runs before the push, so the queue may    *)
(* hold QueueMax + 1 commands; the oldest queued one is thrown away.       *)
(***************************************************************************)
\* Mutant: the trim tolerates one command more.
ExcessTooLate(l) ==
  IF Len(l.queue) > QueueMax + 1 THEN Len(l.queue) - QueueMax - 1 ELSE 0

Excess(l) == IF Len(l.queue) > QueueMax THEN Len(l.queue) - QueueMax ELSE 0

\* Mutant: the oldest command of all is thrown away, the current one.
TrimmedCurrent(l) ==
  IF Excess(l) = 0 THEN l
  ELSE [l EXCEPT !.cur = <<Head(l.queue)>>, !.queue = Tail(@),
                 !.fate = Settle(@, Range(l.cur), "dropped")]

Trimmed(l) ==
  [l EXCEPT
     !.queue = SubSeq(@, Excess(l) + 1, Len(@)),
     !.fate  = Settle(@, {l.queue[i] : i \in 1 .. Excess(l)}, "dropped")]

\* Mutant: the current command is taken with a peek, not with a pop.
PutPeeked(l, c) ==
  LET t == Trimmed(l)
      q == Append(t.queue, c)
  IN  [t EXCEPT
         !.cur    = IF @ = <<>> THEN <<Head(q)>> ELSE @,
         !.queue  = q,
         !.source = TRUE,
         !.fate   = IF Numbered(c) THEN Settle(@, {c}, "open") ELSE @]

\* Mutant: a command is queued at the head.
PutAtHead(l, c) ==
  LET t == Trimmed(l)
      q == <<c>> \o t.queue
  IN  [t EXCEPT
         !.cur    = IF @ = <<>> THEN <<Head(q)>> ELSE @,
         !.queue  = IF t.cur = <<>> THEN Tail(q) ELSE q,
         !.source = TRUE,
         !.fate   = IF Numbered(c) THEN Settle(@, {c}, "open") ELSE @]

Put(l, c) ==
  LET t == Trimmed(l)
      q == Append(t.queue, c)
  IN  [t EXCEPT
         !.cur    = IF @ = <<>> THEN <<Head(q)>> ELSE @,
         !.queue  = IF t.cur = <<>> THEN Tail(q) ELSE q,
         !.source = TRUE,
         !.fate   = IF Numbered(c) THEN Settle(@, {c}, "open") ELSE @]

\* A command of the manager's own: it takes the next frame number.
Enqueue(l, kind) ==
  Put([l EXCEPT !.next = @ + 1], FreshCommand(kind, l.next))

\* An answer to a notice of the PMU.
Reply(l) == Put(l, FreshCommand("reply", 0))
----------------------------------------------------------------------------
(***************************************************************************)
(* The write handler.  It runs whenever its source is attached and the     *)
(* port is writable.                                                       *)
(***************************************************************************)

\* The current command was written out and waits for its answer or timeout.
Waiting(l) == \E c \in Range(l.cur) : ~c.firstrun /\ ~c.part

\* Mutant: the last transmission is not made.
ExhaustedEarly(l) == Waiting(l) /\ l.late /\ l.cur[1].retry <= 1

Exhausted(l) == Waiting(l) /\ l.late /\ l.cur[1].retry = 0

Blocked(l) == Waiting(l) /\ ~l.late

\* Mutant: a late command is freed wherever the writing of it stands.
AfterTimeoutAlways(l) ==
  IF l.late
  THEN [l EXCEPT !.cur = <<>>, !.late = FALSE,
                 !.fate = Settle(@, Range(l.cur), "gaveup")]
  ELSE l

\* A command that is late and has no transmission left is freed.
AfterTimeout(l) ==
  IF Exhausted(l)
  THEN [l EXCEPT !.cur = <<>>, !.late = FALSE,
                 !.fate = Settle(@, Range(l.cur), "gaveup")]
  ELSE l

\* The first n commands of s ask for no answer: the loop runs through them.
Flows(s, n) == \A i \in 1 .. n : ~NeedsAck(s[i])

\* The first n commands are written and freed.
Flushed(l, n) ==
  LET done == {Pending(l)[i] : i \in 1 .. n}
  IN  [l EXCEPT !.fate = Settle(@, done, "sent"), !.sends = Count(@, done)]

\* They are, and the next one, which is now c, becomes the current one.
StoppedAt(l, n, c) ==
  [Flushed(l, n) EXCEPT
     !.cur = <<c>>, !.queue = SubSeq(Pending(l), n + 2, Len(Pending(l)))]

\* Nothing is written.  wsize is then read uninitialised, so the source may
\* be kept or removed.
WriteNothing ==
  /\ link.source
  /\ Blocked(link) \/ Pending(AfterTimeout(link)) = <<>>
  /\ \E keep \in BOOLEAN :
       link' = [AfterTimeout(link) EXCEPT !.source = keep]
  /\ UNCHANGED <<toPmu, toHost, timeSet, notices, seen>>

\* Everything pending is written, and nothing of it asks for an answer.
WriteAll ==
  LET l == AfterTimeout(link)
      todo == Pending(l)
  IN  /\ link.source /\ ~Blocked(link) /\ todo # <<>>
      /\ Flows(todo, Len(todo))
      /\ Len(toPmu) + Len(todo) <= WireMax
      /\ link' = [Flushed(l, Len(todo)) EXCEPT
                    !.cur = <<>>, !.queue = <<>>, !.late = FALSE,
                    !.source = FALSE]
      /\ toPmu' = toPmu \o Frames(todo)
      /\ UNCHANGED <<toHost, timeSet, notices, seen>>

\* The handler writes up to the first command that asks for an answer.
WriteAwait ==
  LET l == AfterTimeout(link)
      todo == Pending(l)
  IN  /\ link.source /\ ~Blocked(link)
      /\ \E n \in 0 .. Len(todo) - 1 :
           LET c == todo[n + 1]
           IN  /\ Flows(todo, n) /\ NeedsAck(c)
               /\ Len(toPmu) + n + 1 <= WireMax
               /\ link' = [StoppedAt(l, n, Transmitted(c)) EXCEPT
                             !.late = FALSE, !.source = FALSE,
                             !.sends = Count(@, {c})]
               /\ toPmu' = toPmu \o Frames(SubSeq(todo, 1, n + 1))
      /\ UNCHANGED <<toHost, timeSet, notices, seen>>

\* write() fails before all is out, with EAGAIN (the source stays) or with
\* another error; some tells whether bytes of the next frame went out first.
WriteShort ==
  LET l == AfterTimeout(link)
      todo == Pending(l)
  IN  /\ link.source /\ ~Blocked(link)
      /\ \E n \in 0 .. Len(todo) - 1, some \in BOOLEAN, again \in BOOLEAN :
           /\ Flows(todo, n)
           /\ Len(toPmu) + n <= WireMax
           /\ LET c == todo[n + 1]
              IN  link' = [StoppedAt(l, n, IF some THEN Begun(c) ELSE c) EXCEPT
                             !.late = @ /\ n = 0 /\ ~some, !.source = again]
           /\ toPmu' = toPmu \o Frames(SubSeq(todo, 1, n))
      /\ UNCHANGED <<toHost, timeSet, notices, seen>>
----------------------------------------------------------------------------
(***************************************************************************)
(* Reading.  A frame whose command and number answer the current command   *)
(* frees it, wherever the writing of it stands; then the frame is          *)
(* dispatched.                                                             *)
(***************************************************************************)
\* Mutant: the number of an answer is not compared.
AnswersAny(f, c) == f.kind = c.kind

Answers(f, c) ==
  /\ f.kind = c.kind
  /\ f.seq % FrameModulus = c.seq % FrameModulus

Answered(l, f) ==
  IF \E c \in Range(l.cur) : Numbered(c) /\ Answers(f, c)
  THEN [l EXCEPT !.cur = <<>>, !.late = FALSE,
                 !.fate = Settle(@, Range(l.cur), "acked")]
  ELSE l

\* Environment: no answer stays on the wire while the numbers go round once.
Recent(f) == link.next - f.seq <= FrameModulus

ReadAck(f) ==
  /\ f.type = "ack" /\ Recent(f)
  /\ link' = Answered(link, f)
  /\ UNCHANGED timeSet

\* A status report sets the system time the first time; later, if the two
\* clocks differ by more than a minute (drift), the PMU's clock is set.
ReadNotice(f) ==
  /\ f.type = "notice"
  /\ \E drift \in BOOLEAN :
       /\ drift => f.kind = "status" /\ timeSet /\ link.next < MaxFrames
       /\ LET l == IF drift THEN Enqueue(link, "time_sync") ELSE link
          IN  link' = IF f.wants THEN Reply(l) ELSE l
  /\ timeSet' = (timeSet \/ f.kind = "status")

ReadFrame ==
  /\ toHost # <<>>
  /\ ReadAck(Head(toHost)) \/ ReadNotice(Head(toHost))
  /\ toHost' = Tail(toHost)
  /\ UNCHANGED <<toPmu, notices, seen>>
----------------------------------------------------------------------------
(***************************************************************************)
(* The one second timer, the passing of COMMAND_TIMEOUT, and the commands  *)
(* the rest of the manager asks for.                                       *)
(***************************************************************************)
\* Mutant: the timer does not look at the age of the current command.
NeedsRearmFirst(l) ==
  IF l.cur = <<>> THEN l.queue # <<>> ELSE l.cur[1].firstrun

NeedsRearm(l) ==
  IF l.cur = <<>> THEN l.queue # <<>> ELSE l.cur[1].firstrun \/ l.late

\* stopping: a shutdown or a reboot was requested, so no heartbeat is sent;
\* retyped: the modem found by the modem manager has changed.
CheckTimeout(stopping, retyped) ==
  LET l == IF stopping THEN link ELSE Enqueue(link, "heartbeat")
      m == IF retyped THEN Enqueue(l, "threshold") ELSE l
  IN  /\ m.next <= MaxFrames
      /\ link' = [m EXCEPT !.source = @ \/ NeedsRearm(m)]
      /\ UNCHANGED <<toPmu, toHost, timeSet, notices, seen>>

Expire ==
  /\ ~link.late
  /\ \E c \in Range(link.cur) : ~c.firstrun
  /\ link' = [link EXCEPT !.late = TRUE]
  /\ UNCHANGED <<toPmu, toHost, timeSet, notices, seen>>

Request(kind) ==
  /\ link.next < MaxFrames
  /\ link' = Enqueue(link, kind)
  /\ UNCHANGED <<toPmu, toHost, timeSet, notices, seen>>
----------------------------------------------------------------------------
(***************************************************************************)
(* The environment: the PMU and the two lossy directions of the wire.      *)
(***************************************************************************)
PmuReceive ==
  /\ toPmu # <<>>
  /\ LET f == Head(toPmu)
     IN  /\ seen' = IF Numbered(f) THEN seen \cup {f} ELSE seen
         /\ IF NeedsAck(f)
            THEN /\ Len(toHost) < WireMax
                 /\ toHost' = Append(toHost, [type |-> "ack", kind |-> f.kind,
                                              seq |-> f.seq])
            ELSE UNCHANGED toHost
  /\ toPmu' = Tail(toPmu)
  /\ UNCHANGED <<link, timeSet, notices>>

PmuNotify ==
  /\ notices < MaxNotices /\ Len(toHost) < WireMax
  /\ \E f \in Notices : toHost' = Append(toHost, f)
  /\ notices' = notices + 1
  /\ UNCHANGED <<link, toPmu, timeSet, seen>>

LoseToPmu ==
  /\ toPmu # <<>>
  /\ toPmu' = Tail(toPmu)
  /\ UNCHANGED <<link, toHost, timeSet, notices, seen>>

LoseToHost ==
  /\ toHost # <<>>
  /\ toHost' = Tail(toHost)
  /\ UNCHANGED <<link, toPmu, timeSet, notices, seen>>
----------------------------------------------------------------------------
\* The state pcat_pmu_serial_open leaves; what pcat_pmu_manager_init then
\* asks for are Request steps.
Init ==
  /\ link = [cur |-> <<>>, queue |-> <<>>, source |-> FALSE, late |-> FALSE,
             next |-> 0,
             fate |-> [n \in Numbers |-> "none"],
             sends |-> [n \in Numbers |-> 0]]
  /\ toPmu = <<>> /\ toHost = <<>>
  /\ timeSet = FALSE
  /\ notices = 0
  /\ seen = {}

Next ==
  \/ WriteNothing \/ WriteAll \/ WriteAwait \/ WriteShort
  \/ ReadFrame
  \/ \E stopping, retyped \in BOOLEAN : CheckTimeout(stopping, retyped)
  \/ Expire
  \/ \E kind \in Requests : Request(kind)
  \/ PmuReceive \/ PmuNotify \/ LoseToPmu \/ LoseToHost

Spec == Init /\ [][Next]_vars

(***************************************************************************)
(* The timer and the source run again and again, time passes, and the port *)
(* has no flow control, so the wire drains by itself; a handler that could *)
(* complete a frame again and again completes one at some time.            *)
(***************************************************************************)
WriteFrame ==
  /\ WriteAll \/ WriteAwait \/ WriteShort
  /\ Len(toPmu') > Len(toPmu)

Fairness ==
  /\ WF_vars(\E stopping, retyped \in BOOLEAN : CheckTimeout(stopping, retyped))
  /\ WF_vars(Expire)
  /\ WF_vars(WriteNothing)
  /\ SF_vars(WriteFrame)
  /\ WF_vars(PmuReceive \/ LoseToPmu)
  /\ WF_vars(ReadFrame \/ LoseToHost)

FairSpec == Spec /\ Fairness
----------------------------------------------------------------------------
(***************************************************************************)
(* Properties.                                                             *)
(***************************************************************************)

Links == [cur: Seq(Commands), queue: Seq(Commands), source: BOOLEAN,
          late: BOOLEAN, next: Nat,
          fate: [Numbers -> Fates], sends: [Numbers -> Nat]]

Untried(s) == \A i \in DOMAIN s : s[i].firstrun

\* At most one command is current, the queue holds at most one more than
\* QueueMax, of which nothing was written, and only a current command is late.
LinkOK(l) ==
  /\ l \in Links
  /\ Len(l.cur) <= 1
  /\ Len(l.queue) <= QueueMax + 1
  /\ Untried(l.queue)
  /\ l.cur = <<>> => ~l.late

\* The state has its type, the queue its bound, and a command that is still
\* to be written has a transmission left.
TypeOK ==
  /\ LinkOK(link) /\ link.next <= MaxFrames
  /\ toPmu \in Seq([kind: Kinds, seq: Nat])
  /\ toHost \in Seq(Acks \cup Notices)
  /\ timeSet \in BOOLEAN
  /\ notices \in 0 .. MaxNotices
  /\ seen \subseteq [kind: Kinds, seq: Nat]

IsPending(n) == \E c \in Range(Pending(link)) : Numbered(c) /\ c.seq = n

\* No command is lost or kept twice: each numbered command is in the link
\* exactly while its fate is open, whatever the order of writes, answers,
\* timeouts and overflows.
EveryCommandAccounted ==
  /\ \A n \in Numbers :
       /\ link.fate[n] = "none" <=> n >= link.next
       /\ link.fate[n] = "open" <=> IsPending(n)
  /\ \A i, j \in DOMAIN Pending(link) :
       LET c == Pending(link)[i]
           d == Pending(link)[j]
       IN  i # j /\ Numbered(c) /\ Numbered(d) => c.seq # d.seq

\* A command that left the link as acknowledged was received by the PMU: a
\* late answer to an earlier command, or a repeated one, never completes a
\* command the PMU has not seen, although the numbers wrap around.
AckedWasReceived ==
  /\ \A n \in Numbers :
       link.fate[n] = "acked" => \E f \in seen : f.seq = n
  /\ \A f \in Range(toHost) :
       f.type = "ack" => [kind |-> f.kind, seq |-> f.seq] \in seen

\* A command is given up only after Retries complete transmissions, thrown
\* away by the overflow only if it was never transmitted, and never written
\* out more often than that.
FatesJustified ==
  \A n \in Numbers :
    /\ link.fate[n] = "gaveup" => link.sends[n] = Retries
    /\ link.fate[n] \in {"none", "dropped"} => link.sends[n] = 0
    /\ link.fate[n] = "sent" => link.sends[n] = 1

\* The pending commands are in the order they were asked for.
PendingInOrder(l) ==
  LET p == Pending(l)
  IN  \A i \in DOMAIN p : Numbered(p[i]) =>
        /\ p[i].seq < l.next
        /\ \A j \in DOMAIN p :
             i < j /\ Numbered(p[j]) => p[i].seq < p[j].seq

\* Nothing that waits in the link is older than frame f, which left it.
NotOvertaken(l, f) ==
  Numbered(f) =>
    /\ f.seq < l.next
    /\ \A j \in DOMAIN Pending(l) :
         Numbered(Pending(l)[j]) => f.seq <= Pending(l)[j].seq

WireInOrder(wire, got) ==
  \A i \in DOMAIN wire : Numbered(wire[i]) =>
    /\ \A f \in got : f.seq <= wire[i].seq
    /\ \A j \in DOMAIN wire :
         i < j /\ Numbered(wire[j]) => wire[i].seq <= wire[j].seq

\* Commands reach the PMU in the order they were asked for, whatever is
\* repeated, lost or dropped: the PMU has nothing younger than what is on the
\* wire, and the wire has nothing younger than what waits in the link.
InOrder ==
  /\ PendingInOrder(link)
  /\ \A f \in seen : Numbered(f) /\ NotOvertaken(link, f)
  /\ \A i \in DOMAIN toPmu : NotOvertaken(link, toPmu[i])
  /\ WireInOrder(toPmu, seen)

\* A frame of which some bytes are on the wire is written to its end before
\* anything else of the link is, unless its answer comes in the middle (the
\* answer to an earlier transmission: the PMU then gets a torn frame).
FrameFinished ==
  [][\A c \in Range(link.cur) :
       c.part /\ Numbered(c) =>
         \/ \E d \in Range(link'.cur) : d.part /\ d.seq = c.seq
         \/ link'.sends[c.seq] = link.sends[c.seq] + 1
         \/ link'.fate[c.seq] = "acked"]_vars

\* The names the ordered service has for the fates.
OutcomeOf ==
  [f \in Fates |-> CASE f = "none" -> "unasked"   [] f = "open" -> "open"
                     [] f = "acked" -> "answered" [] f = "gaveup" -> "silent"
                     [] f = "sent" -> "written"   [] f = "dropped" -> "skipped"]

\* Every command gets a fate: it is written, answered, given up or thrown
\* away, however many frames the wire loses.
Drains ==
  \A n \in Numbers : (link.fate[n] = "open") ~> (link.fate[n] # "open")

\* The link implements the ordered service: see OrderedService.tla.
Service == INSTANCE OrderedService WITH
  Numbers   <- Numbers,
  outcome   <- [n \in Numbers |-> OutcomeOf[link.fate[n]]],
  delivered <- {f.seq : f \in seen}

ServiceSpec == Service!SSpec
=============================================================================
