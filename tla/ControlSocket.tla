---------------------------- MODULE ControlSocket ----------------------------
(***************************************************************************)
(* src/src/controller.c: clients connect to a Unix socket, send commands   *)
(* that end with a NUL byte and read replies that end with one.  All       *)
(* handlers run on the main loop.  The input handler reads until nothing   *)
(* is left, so a client may go on sending while the loop is in it;         *)
(* `reading' names the connection whose handler has not returned.          *)
(*                                                                         *)
(* Bytes are counted in pieces, the unit of one read() or write().  What a *)
(* client sends is a stream of pieces, Last[c][n] the number of the piece  *)
(* that holds the NUL of its command n.  A read that holds several         *)
(* commands is modelled as several reads, one per command: nothing else    *)
(* runs between them, and a buffer that is empty after a command is not    *)
(* trimmed.                                                                *)
(***************************************************************************)
EXTENDS Integers, Sequences, FiniteSets

CONSTANTS Clients,     \* programs that may connect, once each
          Last,        \* where the commands of each client end
          Known,       \* commands of each client found in command_table
          ReplySize,   \* pieces of a reply
          ChunkMax,    \* pieces of one read, 4096 bytes
          InputMax,    \* pieces kept before the input is trimmed, 2 MiB
          InputTrim,   \* pieces removed then, 1 MiB
          OutputMax,   \* pieces kept before the output is dropped, 2 MiB
          SocketRoom   \* pieces the kernel holds in one direction

ASSUME ScriptAssumption ==
  /\ Last \in [Clients -> Seq(Nat \ {0})]
  /\ \A c \in Clients : \A i, j \in DOMAIN Last[c] :
       i < j => Last[c][i] < Last[c][j]
  /\ Known \in [Clients -> SUBSET Nat]

ASSUME BuffersAssumption ==
  /\ ReplySize \in Nat \ {0}
  /\ SocketRoom \in Nat \ {0}
  /\ InputMax \in Nat /\ OutputMax \in Nat
  /\ ChunkMax \in Nat \ {0} /\ InputTrim \in ChunkMax .. InputMax

Nobody == "nobody"
ASSUME ClientsAssumption == Nobody \notin Clients

VARIABLES
  serving,    \* control_socket_service listens
  phase,      \* of a connection: idle, backlog, open (in the table), closed
  held,       \* pieces in input_buffer: the last ones read
  output,     \* output_buffer
  watched,    \* output_stream_source is attached
  reading,    \* whose input handler is in its loop
  sent, read, \* pieces the client has sent, the manager has read
  written,    \* pieces the manager has written, in order
  taken,      \* how many of them the client has read
  ended,      \* no, half (it sends no more) or gone (it closed the socket)
  executed,   \* history: commands whose callback ran, in order
  dropped     \* history: replies were thrown away because there were too many

connVars == <<phase, held, output, watched>>
sockVars == <<sent, read, written, taken, ended>>
histVars == <<executed, dropped>>
vars == <<serving, reading, connVars, sockVars, histVars>>

Numbers(c) == DOMAIN Last[c]
First(c, n) == IF n = 1 THEN 1 ELSE Last[c][n - 1] + 1
Size(c, n) == Last[c][n] - First(c, n) + 1
StreamEnd(c) == IF Last[c] = <<>> THEN 0 ELSE Last[c][Len(Last[c])]

\* The pieces of the reply to command n.
Reply(n) == [k \in 1 .. ReplySize |-> <<n, k>>]

Init ==
  /\ serving = TRUE /\ reading = Nobody
  /\ phase = [c \in Clients |-> "idle"]
  /\ held = [c \in Clients |-> 0]
  /\ output = [c \in Clients |-> <<>>]
  /\ watched = [c \in Clients |-> FALSE]
  /\ sent = [c \in Clients |-> 0] /\ read = [c \in Clients |-> 0]
  /\ written = [c \in Clients |-> <<>>] /\ taken = [c \in Clients |-> 0]
  /\ ended = [c \in Clients |-> "no"]
  /\ executed = [c \in Clients |-> <<>>]
  /\ dropped = [c \in Clients |-> FALSE]
----------------------------------------------------------------------------
(***************************************************************************)
(* The clients.                                                            *)
(***************************************************************************)
Connect(c) ==
  /\ serving /\ phase[c] = "idle"
  /\ phase' = [phase EXCEPT ![c] = "backlog"]
  /\ UNCHANGED <<serving, reading, held, output, watched, sockVars, histVars>>

Send(c) ==
  /\ phase[c] \in {"backlog", "open"} /\ ended[c] = "no"
  /\ sent[c] < StreamEnd(c) /\ sent[c] - read[c] < SocketRoom
  /\ sent' = [sent EXCEPT ![c] = @ + 1]
  /\ UNCHANGED <<serving, reading, connVars, read, written, taken, ended, histVars>>

Receive(c) ==
  /\ ended[c] # "gone" /\ taken[c] < Len(written[c])
  /\ taken' = [taken EXCEPT ![c] = @ + 1]
  /\ UNCHANGED <<serving, reading, connVars, sent, read, written, ended, histVars>>

HangUp(c) ==
  /\ phase[c] # "idle" /\ ended[c] # "gone"
  /\ \E how \in {"half", "gone"} \ {ended[c]} :
       ended' = [ended EXCEPT ![c] = how]
  /\ UNCHANGED <<serving, reading, connVars, sent, read, written, taken, histVars>>
----------------------------------------------------------------------------
(***************************************************************************)
(* The manager.  A connection that is removed from the table is freed with *)
(* its buffers and sources.                                                *)
(***************************************************************************)
Accept(c) ==
  /\ reading = Nobody /\ serving /\ phase[c] = "backlog"
  /\ phase' = [phase EXCEPT ![c] = "open"]
  /\ UNCHANGED <<serving, reading, held, output, watched, sockVars, histVars>>

Remove(S) ==
  /\ phase' = [c \in Clients |-> IF c \in S THEN "closed" ELSE phase[c]]
  /\ held' = [c \in Clients |-> IF c \in S THEN 0 ELSE held[c]]
  /\ output' = [c \in Clients |-> IF c \in S THEN <<>> ELSE output[c]]
  /\ watched' = [c \in Clients |-> watched[c] /\ c \notin S]

\* Mutant: room for a reply is taken for granted.
FullTooLate(c) == Len(output[c]) > OutputMax + ReplySize

Full(c) == Len(output[c]) > OutputMax

\* Mutant: attaching the source is left to the timer.
PushUnwatched(c, n) ==
  /\ output' = [output EXCEPT ![c] = (IF Full(c) THEN <<>> ELSE @) \o Reply(n)]
  /\ dropped' = [dropped EXCEPT ![c] = @ \/ Full(c)]
  /\ UNCHANGED watched

\* Mutant: one reply at a time.
PushWhenIdle(c, n) ==
  /\ output' = [output EXCEPT ![c] = IF watched[c] THEN @ ELSE Reply(n)]
  /\ watched' = [watched EXCEPT ![c] = TRUE]
  /\ UNCHANGED dropped

\* The callback of command n pushes its reply and attaches the source.
Push(c, n) ==
  /\ output' = [output EXCEPT ![c] = (IF Full(c) THEN <<>> ELSE @) \o Reply(n)]
  /\ watched' = [watched EXCEPT ![c] = TRUE]
  /\ dropped' = [dropped EXCEPT ![c] = @ \/ Full(c)]

Run(c, n) ==
  /\ executed' = [executed EXCEPT ![c] = Append(@, n)]
  /\ Push(c, n)

\* Mutant: trimmed one piece too early.
TrimmedAtLimit(h) == IF h >= InputMax THEN h - InputTrim ELSE h

Trimmed(h) == IF h > InputMax THEN h - InputTrim ELSE h

\* A chunk is appended; if it ends a command, the command is parsed and
\* leaves the buffer.  It is understood if its first piece is still there.
ReadChunk(c) ==
  /\ phase[c] = "open" /\ reading \in {Nobody, c}
  /\ \E n \in Numbers(c), k \in 1 .. ChunkMax :
       LET pos == read[c] + k
           now == Trimmed(held[c]) + k
       IN  /\ First(c, n) <= read[c] + 1 /\ pos <= Last[c][n] /\ pos <= sent[c]
           /\ read' = [read EXCEPT ![c] = pos]
           /\ held' = [held EXCEPT ![c] = IF pos = Last[c][n] THEN 0 ELSE now]
           /\ IF pos = Last[c][n] /\ now = Size(c, n) /\ n \in Known[c]
              THEN Run(c, n)
              ELSE UNCHANGED <<output, watched, histVars>>
  /\ reading' = c
  /\ UNCHANGED <<serving, phase, sent, written, taken, ended>>

\* Nothing is left to read: the handler returns, or finds the end of the
\* stream and removes the connection, whatever its output buffer holds.
ReadStops(c) ==
  /\ phase[c] = "open" /\ read[c] = sent[c]
  /\ reading = c \/ (reading = Nobody /\ ended[c] # "no")
  /\ reading' = Nobody
  /\ IF ended[c] = "no" THEN UNCHANGED connVars ELSE Remove({c})
  /\ UNCHANGED <<serving, sockVars, histVars>>

Room(c) == SocketRoom - (Len(written[c]) - taken[c])

\* Mutant: what was written stays in the buffer.
UnwrittenAll(c, k) == output[c]

Unwritten(c, k) == SubSeq(output[c], k + 1, Len(output[c]))

\* The output handler writes until the socket is full, which keeps the
\* source, or the buffer is empty, which destroys it.
WriteReplies(c) ==
  /\ reading = Nobody /\ phase[c] = "open" /\ watched[c]
  /\ ended[c] # "gone" /\ Room(c) > 0
  /\ LET len == Len(output[c])
         k == IF Room(c) < len THEN Room(c) ELSE len
     IN  /\ written' = [written EXCEPT ![c] = @ \o SubSeq(output[c], 1, k)]
         /\ output' = [output EXCEPT ![c] = Unwritten(c, k)]
         /\ watched' = [watched EXCEPT ![c] = k < len]
  /\ UNCHANGED <<serving, reading, phase, held, sent, read, taken, ended, histVars>>

\* Writing to a client that is gone fails and removes the connection, with
\* what is still unread in the socket.
WriteFails(c) ==
  /\ reading = Nobody /\ phase[c] = "open" /\ watched[c]
  /\ ended[c] = "gone"
  /\ Remove({c})
  /\ UNCHANGED <<serving, reading, sockVars, histVars>>

CheckConnections ==
  /\ serving /\ reading = Nobody
  /\ watched' = [c \in Clients |->
                   watched[c] \/ (phase[c] = "open" /\ output[c] # <<>>)]
  /\ UNCHANGED <<serving, reading, phase, held, output, sockVars, histVars>>

Uninit ==
  /\ serving /\ reading = Nobody
  /\ serving' = FALSE
  /\ Remove({c \in Clients : phase[c] # "idle"})
  /\ UNCHANGED <<reading, sockVars, histVars>>

Serve(c) == \/ Accept(c) \/ ReadChunk(c) \/ ReadStops(c)
            \/ WriteReplies(c) \/ WriteFails(c)

Next ==
  \/ \E c \in Clients : \/ Connect(c) \/ Send(c) \/ Receive(c) \/ HangUp(c)
                        \/ Serve(c)
  \/ CheckConnections \/ Uninit

Spec == Init /\ [][Next]_vars

\* GLib dispatches a source that stays ready.  Nothing makes the input handler
\* return: it stays in its loop as long as its client goes on sending.  Nor
\* does anything make a client read.
Fairness ==
  /\ \A c \in Clients : /\ WF_vars(Accept(c))
                        /\ WF_vars(ReadChunk(c))
                        /\ WF_vars(WriteReplies(c) \/ WriteFails(c))
  /\ WF_vars(CheckConnections)

FairSpec == Spec /\ Fairness
----------------------------------------------------------------------------
Pieces == Nat \X (1 .. ReplySize)

\* The state is well formed and both buffers stay bounded however much a
\* client sends or leaves unread (lines 188-191 and 305-309).
TypeOK ==
  /\ serving \in BOOLEAN /\ reading \in Clients \cup {Nobody}
  /\ phase \in [Clients -> {"idle", "backlog", "open", "closed"}]
  /\ held \in [Clients -> 0 .. InputMax + ChunkMax]
  /\ output \in [Clients -> Seq(Pieces)]
  /\ \A c \in Clients : Len(output[c]) <= OutputMax + ReplySize
  /\ watched \in [Clients -> BOOLEAN]
  /\ sent \in [Clients -> Nat] /\ read \in [Clients -> Nat]
  /\ written \in [Clients -> Seq(Pieces)] /\ taken \in [Clients -> Nat]
  /\ \A c \in Clients : read[c] <= sent[c] /\ taken[c] <= Len(written[c])
  /\ ended \in [Clients -> {"no", "half", "gone"}]
  /\ executed \in [Clients -> Seq(Nat)]
  /\ dropped \in [Clients -> BOOLEAN]

\* The output source is attached exactly while an open connection has
\* output: no reply is left without a handler that writes it, and the
\* handler never runs with nothing to write, where it would test a wsize it
\* never set (lines 81-156).
OutputWatched ==
  \A c \in Clients : watched[c] <=> (phase[c] = "open" /\ output[c] # <<>>)

Earlier(p, q) == p[1] < q[1] \/ (p[1] = q[1] /\ p[2] < q[2])

\* Everything on its way to the client, and what it has got.
Stream(c) == written[c] \o output[c]

\* A client gets the replies to the commands it sent, in the order it sent
\* them, no piece twice, none of another client's, and none without those
\* before it; and all of them, unless it left so many unread that the manager
\* dropped some (lines 168-231).  Then it misses whole replies, and perhaps
\* the end of one that was partly written, which a later reply follows
\* without a mark; but never the beginning or the middle of one.
RepliesInOrder ==
  \A c \in Clients :
    LET s == Stream(c)
        ran == {executed[c][i] : i \in DOMAIN executed[c]}
    IN  /\ \A i, j \in DOMAIN s : i < j => Earlier(s[i], s[j])
        /\ \A i \in DOMAIN s :
             s[i][2] = 1 \/ (i > 1 /\ s[i - 1] = <<s[i][1], s[i][2] - 1>>)
        /\ \A i \in DOMAIN s : s[i][1] \in ran
        /\ phase[c] = "open" /\ ~dropped[c] =>
             Len(s) = ReplySize * Len(executed[c])

Fits(c, n) == Size(c, n) <= InputMax + 1

\* Commands run in the order they were sent, each once; and a known command
\* that was read and fits the buffer has run, whatever an oversized or
\* unknown command before it did to the buffer.  A connection closed at the
\* end of the stream was read to its end: only a client that closes both
\* directions, or the end of the manager, makes it lose commands.
CommandsExecuted ==
  \A c \in Clients :
    LET ran == {executed[c][i] : i \in DOMAIN executed[c]}
    IN  /\ \A i, j \in DOMAIN executed[c] : i < j => executed[c][i] < executed[c][j]
        /\ \A n \in Numbers(c) :
             n \in Known[c] /\ Fits(c, n) /\ Last[c][n] <= read[c] => n \in ran
        /\ phase[c] = "closed" /\ serving /\ ended[c] # "gone" =>
             read[c] = sent[c]

\* The client has the whole reply to command n.
Heard(c, n) ==
  \E i \in 1 .. taken[c] :
    /\ i >= ReplySize /\ SubSeq(written[c], i - ReplySize + 1, i) = Reply(n)
    /\ i > ReplySize => written[c][i - ReplySize][2] = ReplySize

\* A client that has not hung up misses the reply to a command it has sent.
Waiting(c) ==
  /\ serving /\ ended[c] = "no" /\ ~dropped[c]
  /\ \E n \in Numbers(c) :
       n \in Known[c] /\ Fits(c, n) /\ Last[c][n] <= sent[c] /\ ~Heard(c, n)

\* A client that stays and reads gets the reply to every known command it
\* has sent, unless it let replies pile up until they were dropped, and unless
\* some client sends without a pause, so that the input handler never returns
\* (lines 302-313) and serves nobody else.  Clients that are slow, never
\* read, go away or stop in the middle of a command hold nobody up.
Answered ==
  []<>(reading = Nobody) =>
    \A c \in Clients : WF_vars(Receive(c)) => (Waiting(c) ~> ~Waiting(c))
=============================================================================
