------------------------- MODULE ControlSocketProofs -------------------------
(***************************************************************************)
(* The safety properties of ControlSocket, for any clients, any commands   *)
(* and any limits.                                                         *)
(***************************************************************************)
EXTENDS ControlSocket, SequenceTheorems, TLAPS

LEMMA Set ==
  ASSUME NEW S, NEW f \in [Clients -> S], NEW c \in Clients, NEW v \in S
  PROVE  /\ [f EXCEPT ![c] = v] \in [Clients -> S]
         /\ [f EXCEPT ![c] = v][c] = v
         /\ \A d \in Clients \ {c} : [f EXCEPT ![c] = v][d] = f[d]
OBVIOUS

\* Moving the first k elements of t to the end of s.
LEMMA Move ==
  ASSUME NEW S, NEW s \in Seq(S), NEW t \in Seq(S), NEW k \in 0 .. Len(t)
  PROVE  /\ s \o SubSeq(t, 1, k) \in Seq(S)
         /\ Len(s \o SubSeq(t, 1, k)) = Len(s) + k
         /\ SubSeq(t, k + 1, Len(t)) \in Seq(S)
         /\ Len(SubSeq(t, k + 1, Len(t))) = Len(t) - k
         /\ (s \o SubSeq(t, 1, k)) \o SubSeq(t, k + 1, Len(t)) = s \o t
<1> DEFINE front == SubSeq(t, 1, k)
           rest == SubSeq(t, k + 1, Len(t))
<1>1. Len(s) \in Nat /\ Len(t) \in Nat /\ k \in Nat /\ k <= Len(t)
  OBVIOUS
<1>2. /\ front \in Seq(S) /\ Len(front) = k
      /\ rest \in Seq(S) /\ Len(rest) = Len(t) - k
  BY <1>1
<1>3. front \o rest = t
  <2>1. /\ 1 \in 1 .. Len(t) + 1 /\ k \in 1 - 1 .. Len(t)
        /\ Len(t) \in k .. Len(t)
    BY <1>1
  <2>2. SubSeq(t, 1, k) \o SubSeq(t, k + 1, Len(t)) = SubSeq(t, 1, Len(t))
    BY <2>1, ConcatAdjacentSubSeq, Zenon
  <2>3. SubSeq(t, 1, Len(t)) = t
    BY SubSeqFull, Zenon
  <2> QED BY <2>2, <2>3
<1> HIDE DEF front, rest
<1>4. /\ s \o front \in Seq(S) /\ Len(s \o front) = Len(s) + k
  BY <1>2, ConcatProperties, Zenon
<1>5. (s \o front) \o rest = s \o t
  <2>1. (s \o front) \o rest = s \o (front \o rest)
    <3>1. s \in Seq(S) /\ front \in Seq(S) /\ rest \in Seq(S)
      BY <1>2
    <3> HIDE DEF front, rest
    <3> QED BY <3>1, ConcatAssociative, SMTT(20)
  <2> QED BY <2>1, <1>3
<1> QED BY <1>2, <1>4, <1>5 DEF front, rest

LEMMA ReplyPieces ==
  ASSUME NEW n \in Nat
  PROVE  /\ Reply(n) \in Seq(Pieces) /\ Len(Reply(n)) = ReplySize
         /\ \A k \in 1 .. ReplySize : Reply(n)[k] = <<n, k>>
<1>1. ReplySize \in Nat
  BY BuffersAssumption
<1>2. \A k \in 1 .. ReplySize : <<n, k>> \in Pieces
  BY DEF Pieces
<1> QED BY <1>1, <1>2 DEF Reply

LEMMA NumberTypes ==
  ASSUME NEW c \in Clients
  PROVE  /\ Last[c] \in Seq(Nat \ {0}) /\ Numbers(c) = 1 .. Len(Last[c])
         /\ \A n \in Numbers(c) : /\ n \in Nat \ {0} /\ Last[c][n] \in Nat \ {0}
                                  /\ First(c, n) \in Nat \ {0}
                                  /\ Size(c, n) \in Int
<1>1. Last[c] \in Seq(Nat \ {0})
  BY ScriptAssumption
<1>2. Numbers(c) = 1 .. Len(Last[c])
  BY <1>1 DEF Numbers
<1>3. ASSUME NEW n \in Numbers(c)
      PROVE  /\ n \in Nat \ {0} /\ Last[c][n] \in Nat \ {0}
             /\ First(c, n) \in Nat \ {0} /\ Size(c, n) \in Int
  <2>1. n \in 1 .. Len(Last[c]) /\ Len(Last[c]) \in Nat
    BY <1>1, <1>2
  <2>2. Last[c][n] \in Nat \ {0}
    BY <1>1, <2>1
  <2>3. n # 1 => Last[c][n - 1] \in Nat \ {0}
    <3>1. n # 1 => n - 1 \in 1 .. Len(Last[c])
      BY <2>1
    <3> QED BY <1>1, <3>1
  <2> QED BY <2>1, <2>2, <2>3 DEF First, Size
<1> QED BY <1>1, <1>2, <1>3

----------------------------------------------------------------------------
(***************************************************************************)
(* Types.                                                                  *)
(***************************************************************************)
LEMMA TypeInit == Init => TypeOK
<1> SUFFICES ASSUME Init PROVE TypeOK
  OBVIOUS
<1>1. 0 \in 0 .. InputMax + ChunkMax /\ 0 <= OutputMax + ReplySize
  BY BuffersAssumption
<1>2. <<>> \in Seq(Pieces) /\ Len(<<>>) = 0 /\ <<>> \in Seq(Nat)
  OBVIOUS
<1> QED BY <1>1, <1>2 DEF Init, TypeOK

LEMMA TypeClients ==
  ASSUME TypeOK, NEW c \in Clients,
         Connect(c) \/ Send(c) \/ Receive(c) \/ HangUp(c) \/ Accept(c)
  PROVE  TypeOK'
<1> USE DEF TypeOK, connVars, sockVars, histVars
<1>1. CASE Connect(c)
  BY <1>1 DEF Connect
<1>2. CASE Send(c)
  <2>1. /\ sent' = [sent EXCEPT ![c] = @ + 1]
        /\ UNCHANGED <<serving, reading, connVars, read, written, taken, ended, histVars>>
    BY <1>2 DEF Send
  <2>2. sent[c] + 1 \in Nat /\ read[c] <= sent[c] + 1
    <3>1. sent[c] \in Nat /\ read[c] \in Nat /\ read[c] <= sent[c]
      OBVIOUS
    <3> QED BY <3>1
  <2>3. sent' \in [Clients -> Nat] /\ \A d \in Clients : read[d] <= sent'[d]
    BY <2>1, <2>2
  <2> QED BY <2>1, <2>3
<1>3. CASE Receive(c)
  <2>1. /\ taken' = [taken EXCEPT ![c] = @ + 1] /\ taken[c] < Len(written[c])
        /\ UNCHANGED <<serving, reading, connVars, sent, read, written, ended, histVars>>
    BY <1>3 DEF Receive
  <2>2. Len(written[c]) \in Nat /\ taken[c] \in Nat
    OBVIOUS
  <2>3. /\ taken \in [Clients -> Nat]
        /\ \A d \in Clients : taken[d] <= Len(written[d])
    OBVIOUS
  <2> HIDE DEF TypeOK
  <2>4. taken[c] + 1 \in Nat /\ taken[c] + 1 <= Len(written[c])
    BY <2>1, <2>2
  <2>5. taken' \in [Clients -> Nat]
    BY <2>1, <2>3, <2>4
  <2>6. ASSUME NEW d \in Clients PROVE taken'[d] <= Len(written[d])
    <3>1. taken'[d] = taken[d] \/ (d = c /\ taken'[d] = taken[c] + 1)
      BY <2>1, <2>4
    <3> QED BY <2>3, <2>4, <3>1
  <2> QED BY <2>1, <2>5, <2>6 DEF TypeOK
<1>4. CASE HangUp(c)
  <2>1. PICK how \in {"half", "gone"} : ended' = [ended EXCEPT ![c] = how]
    BY <1>4 DEF HangUp
  <2> QED BY <1>4, <2>1 DEF HangUp
<1>5. CASE Accept(c)
  BY <1>5 DEF Accept
<1> QED BY <1>1, <1>2, <1>3, <1>4, <1>5

LEMMA RemoveTypes ==
  ASSUME TypeOK, NEW S, Remove(S)
  PROVE  /\ phase' \in [Clients -> {"idle", "backlog", "open", "closed"}]
         /\ held' \in [Clients -> 0 .. InputMax + ChunkMax]
         /\ output' \in [Clients -> Seq(Pieces)]
         /\ \A c \in Clients : Len(output'[c]) <= OutputMax + ReplySize
         /\ watched' \in [Clients -> BOOLEAN]
<1>1. 0 \in 0 .. InputMax + ChunkMax /\ 0 <= OutputMax + ReplySize
  BY BuffersAssumption
<1>2. <<>> \in Seq(Pieces) /\ Len(<<>>) = 0
  OBVIOUS
<1> QED BY <1>1, <1>2 DEF Remove, TypeOK

LEMMA PushTypes ==
  ASSUME TypeOK, NEW c \in Clients, NEW n \in Nat, Push(c, n)
  PROVE  /\ output' \in [Clients -> Seq(Pieces)]
         /\ \A d \in Clients : Len(output'[d]) <= OutputMax + ReplySize
         /\ watched' \in [Clients -> BOOLEAN]
         /\ dropped' \in [Clients -> BOOLEAN]
<1> DEFINE base == IF Full(c) THEN <<>> ELSE output[c]
<1>1. base \in Seq(Pieces) /\ Len(base) <= OutputMax
  BY BuffersAssumption DEF Full, TypeOK
<1>2. /\ base \o Reply(n) \in Seq(Pieces)
      /\ Len(base \o Reply(n)) <= OutputMax + ReplySize
  <2> HIDE DEF base
  <2> QED BY <1>1, ReplyPieces, BuffersAssumption
<1>3. output' = [output EXCEPT ![c] = base \o Reply(n)]
  BY DEF Push
<1>4. (dropped[c] \/ Full(c)) \in BOOLEAN
  BY DEF Full
<1>5. dropped' = [dropped EXCEPT ![c] = @ \/ Full(c)]
  BY DEF Push
<1>6. dropped' \in [Clients -> BOOLEAN]
  BY <1>4, <1>5, Zenon DEF TypeOK
<1> HIDE DEF base
<1>7. /\ output' \in [Clients -> Seq(Pieces)]
      /\ \A d \in Clients : Len(output'[d]) <= OutputMax + ReplySize
  <2> DEFINE new == base \o Reply(n)
  <2>1. new \in Seq(Pieces) /\ Len(new) <= OutputMax + ReplySize
    BY <1>2
  <2>2. output' = [output EXCEPT ![c] = new]
    BY <1>3
  <2> HIDE DEF new
  <2> QED BY <2>1, <2>2 DEF TypeOK
<1>8. watched' \in [Clients -> BOOLEAN]
  BY DEF Push, TypeOK
<1> QED BY <1>6, <1>7, <1>8

LEMMA TypeReads ==
  ASSUME TypeOK, NEW c \in Clients, ReadChunk(c)
  PROVE  TypeOK'
<1>1. PICK n \in Numbers(c), k \in 1 .. ChunkMax :
        LET pos == read[c] + k
            now == Trimmed(held[c]) + k
        IN  /\ pos <= sent[c]
            /\ read' = [read EXCEPT ![c] = pos]
            /\ held' = [held EXCEPT ![c] = IF pos = Last[c][n] THEN 0 ELSE now]
            /\ IF pos = Last[c][n] /\ now = Size(c, n) /\ n \in Known[c]
               THEN Run(c, n)
               ELSE UNCHANGED <<output, watched, histVars>>
  BY DEF ReadChunk
<1>2. n \in Nat
  BY NumberTypes
<1>3. Trimmed(held[c]) + k \in 0 .. InputMax + ChunkMax
  <2>1. held[c] \in 0 .. InputMax + ChunkMax
    BY DEF TypeOK
  <2>2. /\ InputMax \in Nat /\ ChunkMax \in Nat /\ InputTrim \in Nat
        /\ ChunkMax <= InputTrim /\ InputTrim <= InputMax
    BY BuffersAssumption
  <2>3. Trimmed(held[c]) \in 0 .. InputMax
    BY <2>1, <2>2 DEF Trimmed
  <2> QED BY <2>2, <2>3
<1>4. 0 \in 0 .. InputMax + ChunkMax
  BY BuffersAssumption
<1>5. held' \in [Clients -> 0 .. InputMax + ChunkMax]
  BY <1>1, <1>3, <1>4 DEF TypeOK
<1>6. /\ read' \in [Clients -> Nat]
      /\ \A d \in Clients : read'[d] <= sent[d]
  <2>1. read[c] \in Nat /\ k \in Nat
    BY BuffersAssumption DEF TypeOK
  <2>2. read[c] + k \in Nat
    BY <2>1
  <2> QED BY <1>1, <2>2 DEF TypeOK
<1>7. /\ output' \in [Clients -> Seq(Pieces)]
      /\ \A d \in Clients : Len(output'[d]) <= OutputMax + ReplySize
      /\ watched' \in [Clients -> BOOLEAN]
      /\ dropped' \in [Clients -> BOOLEAN]
      /\ executed' \in [Clients -> Seq(Nat)]
  <2>1. CASE Run(c, n)
    <3>1. executed' \in [Clients -> Seq(Nat)]
      BY <1>2, <2>1 DEF Run, TypeOK
    <3> QED BY <1>2, <2>1, <3>1, PushTypes DEF Run
  <2>2. CASE UNCHANGED <<output, watched, histVars>>
    BY <2>2 DEF TypeOK, histVars
  <2> QED BY <1>1, <2>1, <2>2
<1>8. UNCHANGED <<serving, phase, sent, written, taken, ended>> /\ reading' = c
  BY DEF ReadChunk
<1> QED BY <1>5, <1>6, <1>7, <1>8 DEF TypeOK

\* What a run of the output handler does: k pieces move to the socket.
Moved(c, k, more, rest) ==
  /\ written' = [written EXCEPT ![c] = more]
  /\ output' = [output EXCEPT ![c] = rest]
  /\ watched' = [watched EXCEPT ![c] = k < Len(output[c])]
  /\ Len(more) = Len(written[c]) + k /\ Len(rest) = Len(output[c]) - k
  /\ more \o rest = written[c] \o output[c]

LEMMA WriteShape ==
  ASSUME TypeOK, NEW c \in Clients, WriteReplies(c)
  PROVE  \E k \in 0 .. Len(output[c]), more \in Seq(Pieces), rest \in Seq(Pieces) :
           Moved(c, k, more, rest)
<1>1. output[c] \in Seq(Pieces) /\ written[c] \in Seq(Pieces)
  BY DEF TypeOK
<1>2. PICK k \in Nat :
        /\ k = (IF Room(c) < Len(output[c]) THEN Room(c) ELSE Len(output[c]))
        /\ written' = [written EXCEPT ![c] = @ \o SubSeq(output[c], 1, k)]
        /\ output' = [output EXCEPT ![c] = SubSeq(output[c], k + 1, Len(output[c]))]
        /\ watched' = [watched EXCEPT ![c] = k < Len(output[c])]
  <2>1. Room(c) \in Nat /\ Len(output[c]) \in Nat
    BY <1>1, BuffersAssumption DEF WriteReplies, Room, TypeOK
  <2> QED BY <2>1 DEF WriteReplies, Unwritten
<1>3. k \in 0 .. Len(output[c])
  BY <1>1, <1>2, BuffersAssumption DEF Room, TypeOK
<1> DEFINE more == written[c] \o SubSeq(output[c], 1, k)
           rest == SubSeq(output[c], k + 1, Len(output[c]))
<1>4. /\ more \in Seq(Pieces) /\ Len(more) = Len(written[c]) + k
      /\ rest \in Seq(Pieces) /\ Len(rest) = Len(output[c]) - k
      /\ more \o rest = written[c] \o output[c]
  <2>1. \A s, t \in Seq(Pieces) : \A j \in 0 .. Len(t) :
          /\ s \o SubSeq(t, 1, j) \in Seq(Pieces)
          /\ Len(s \o SubSeq(t, 1, j)) = Len(s) + j
          /\ SubSeq(t, j + 1, Len(t)) \in Seq(Pieces)
          /\ Len(SubSeq(t, j + 1, Len(t))) = Len(t) - j
          /\ (s \o SubSeq(t, 1, j)) \o SubSeq(t, j + 1, Len(t)) = s \o t
    BY Move
  <2> QED BY <1>1, <1>3, <2>1, Zenon
<1>5. Moved(c, k, more, rest)
  BY <1>2, <1>4 DEF Moved
<1> QED BY <1>3, <1>4, <1>5

LEMMA TypeRest ==
  ASSUME TypeOK,
         \/ \E c \in Clients : ReadStops(c) \/ WriteReplies(c) \/ WriteFails(c)
         \/ CheckConnections \/ Uninit \/ UNCHANGED vars
  PROVE  TypeOK'
<1> USE DEF sockVars, histVars
<1>1. ASSUME NEW c \in Clients, ReadStops(c) PROVE TypeOK'
  BY <1>1, RemoveTypes DEF ReadStops, TypeOK, connVars
<1>2. ASSUME NEW c \in Clients, WriteFails(c) PROVE TypeOK'
  BY <1>2, RemoveTypes DEF WriteFails, TypeOK
<1>3. ASSUME NEW c \in Clients, WriteReplies(c) PROVE TypeOK'
  <2>1. PICK k \in 0 .. Len(output[c]), more \in Seq(Pieces), rest \in Seq(Pieces) :
          Moved(c, k, more, rest)
    BY <1>3, WriteShape
  <2>2. /\ written' = [written EXCEPT ![c] = more]
        /\ output' = [output EXCEPT ![c] = rest]
        /\ watched' = [watched EXCEPT ![c] = k < Len(output[c])]
        /\ Len(more) = Len(written[c]) + k /\ Len(rest) = Len(output[c]) - k
    BY <2>1 DEF Moved
  <2>3. \A d \in Clients : /\ Len(written[d]) \in Nat /\ Len(output[d]) \in Nat
                           /\ taken[d] \in Nat /\ taken[d] <= Len(written[d])
                           /\ Len(output[d]) <= OutputMax + ReplySize
    <3> SUFFICES ASSUME NEW d \in Clients
                 PROVE  /\ Len(written[d]) \in Nat /\ Len(output[d]) \in Nat
                        /\ taken[d] \in Nat /\ taken[d] <= Len(written[d])
                        /\ Len(output[d]) <= OutputMax + ReplySize
      OBVIOUS
    <3>1. written[d] \in Seq(Pieces) /\ output[d] \in Seq(Pieces)
      BY DEF TypeOK
    <3>2. /\ taken[d] \in Nat /\ taken[d] <= Len(written[d])
          /\ Len(output[d]) <= OutputMax + ReplySize
      BY DEF TypeOK
    <3> QED BY <3>1, <3>2
  <2>4. taken[c] <= Len(more) /\ Len(rest) <= OutputMax + ReplySize
    BY <2>2, <2>3, BuffersAssumption
  <2>5. /\ written' \in [Clients -> Seq(Pieces)] /\ output' \in [Clients -> Seq(Pieces)]
        /\ \A d \in Clients : /\ taken[d] <= Len(written'[d])
                              /\ Len(output'[d]) <= OutputMax + ReplySize
    BY <2>2, <2>3, <2>4 DEF TypeOK
  <2>6. watched' \in [Clients -> BOOLEAN]
    BY <2>2 DEF TypeOK
  <2> QED BY <1>3, <2>5, <2>6 DEF WriteReplies, TypeOK
<1>4. CASE CheckConnections
  <2>1. watched' \in [Clients -> BOOLEAN]
    BY <1>4, Zenon DEF CheckConnections, TypeOK
  <2> QED BY <1>4, <2>1 DEF CheckConnections, TypeOK
<1>5. CASE Uninit
  BY <1>5, RemoveTypes DEF Uninit, TypeOK
<1>6. CASE UNCHANGED vars
  BY <1>6 DEF vars, TypeOK, connVars
<1> QED BY <1>1, <1>2, <1>3, <1>4, <1>5, <1>6

\* The state is well formed, and both buffers stay bounded whatever a client
\* sends and leaves unread: the trim happens before the append, and takes at
\* least as much as one read brings.
THEOREM TypeCorrect == Spec => []TypeOK
<1>1. TypeOK /\ [Next]_vars => TypeOK'
  BY TypeClients, TypeReads, TypeRest DEF Next, Serve
<1> QED BY <1>1, TypeInit, PTL DEF Spec
----------------------------------------------------------------------------
(***************************************************************************)
(* What a step does to one connection.                                     *)
(***************************************************************************)
Keeps(d) ==
  /\ phase'[d] = "closed" => phase[d] = "closed"
  /\ phase[d] = "closed" => phase'[d] = "closed"
  /\ held'[d] = held[d] /\ read'[d] = read[d]
  /\ executed'[d] = executed[d] /\ dropped'[d] = dropped[d]

\* Its pieces stay, or move to the socket.
Rests(d) ==
  /\ Keeps(d)
  /\ \/ written'[d] = written[d] /\ output'[d] = output[d]
     \/ /\ written'[d] \in Seq(Pieces) /\ output'[d] \in Seq(Pieces)
        /\ written'[d] \o output'[d] = written[d] \o output[d]

Closes(d) ==
  /\ phase'[d] = "closed" /\ output'[d] = <<>> /\ written'[d] = written[d]
  /\ read'[d] = read[d] /\ executed'[d] = executed[d] /\ dropped'[d] = dropped[d]

LEMMA RemoveShape ==
  ASSUME TypeOK, NEW S, Remove(S), UNCHANGED <<sockVars, histVars>>,
         NEW d \in Clients
  PROVE  Rests(d) \/ Closes(d)
<1> USE DEF sockVars, histVars
<1>1. CASE d \in S
  BY <1>1 DEF Remove, Closes
<1>2. CASE d \notin S
  BY <1>2 DEF Remove, Rests, Keeps
<1> QED BY <1>1, <1>2

LEMMA ReadElsewhere ==
  ASSUME TypeOK, NEW c \in Clients, ReadChunk(c), NEW d \in Clients, d # c
  PROVE  Rests(d)
<1>1. PICK n \in Numbers(c), k \in 1 .. ChunkMax :
        LET pos == read[c] + k
            now == Trimmed(held[c]) + k
        IN  /\ read' = [read EXCEPT ![c] = pos]
            /\ held' = [held EXCEPT ![c] = IF pos = Last[c][n] THEN 0 ELSE now]
            /\ \/ Run(c, n)
               \/ UNCHANGED <<output, watched, histVars>>
  BY DEF ReadChunk
<1>2. /\ read'[d] = read[d] /\ held'[d] = held[d]
  BY <1>1 DEF TypeOK
<1>3. output'[d] = output[d] /\ executed'[d] = executed[d] /\ dropped'[d] = dropped[d]
  <2>1. CASE Run(c, n)
    BY <2>1 DEF Run, Push, TypeOK
  <2>2. CASE UNCHANGED <<output, watched, histVars>>
    BY <2>2 DEF histVars
  <2> QED BY <1>1, <2>1, <2>2
<1>4. phase' = phase /\ written' = written
  BY DEF ReadChunk
<1> QED BY <1>2, <1>3, <1>4 DEF Rests, Keeps

LEMMA WriteRests ==
  ASSUME TypeOK, NEW c \in Clients, WriteReplies(c), NEW d \in Clients
  PROVE  Rests(d)
<1>1. PICK k \in 0 .. Len(output[c]), more \in Seq(Pieces), rest \in Seq(Pieces) :
        Moved(c, k, more, rest)
  BY WriteShape
<1>2. UNCHANGED <<phase, held, read, histVars>>
  BY DEF WriteReplies
<1>3. Keeps(d)
  BY <1>2 DEF Keeps, histVars
<1>4. CASE d = c
  <2>1. written'[d] = more /\ output'[d] = rest
    BY <1>1, <1>4 DEF Moved, TypeOK
  <2> QED BY <1>1, <1>3, <1>4, <2>1 DEF Moved, Rests
<1>5. CASE d # c
  <2>1. written'[d] = written[d] /\ output'[d] = output[d]
    BY <1>1, <1>5 DEF Moved, TypeOK
  <2> QED BY <1>3, <2>1 DEF Rests
<1> QED BY <1>4, <1>5

LEMMA StepShape ==
  ASSUME TypeOK, [Next]_vars, NEW d \in Clients
  PROVE  Rests(d) \/ Closes(d) \/ ReadChunk(d)
<1> USE DEF connVars, sockVars, histVars
<1>1. ASSUME NEW c \in Clients, Connect(c) \/ Accept(c) PROVE Rests(d)
  <2>1. /\ phase[c] \in {"idle", "backlog"}
        /\ \E p \in {"backlog", "open"} : phase' = [phase EXCEPT ![c] = p]
        /\ UNCHANGED <<held, output, written, read, executed, dropped>>
    BY <1>1 DEF Connect, Accept
  <2> QED BY <2>1 DEF Rests, Keeps, TypeOK
<1>2. ASSUME NEW c \in Clients, Send(c) \/ Receive(c) \/ HangUp(c) PROVE Rests(d)
  <2>1. UNCHANGED <<phase, held, output, written, read, executed, dropped>>
    BY <1>2 DEF Send, Receive, HangUp
  <2> QED BY <2>1 DEF Rests, Keeps
<1>3. ASSUME NEW c \in Clients, ReadChunk(c) PROVE Rests(d) \/ ReadChunk(d)
  BY <1>3, ReadElsewhere
<1>4. ASSUME NEW c \in Clients, ReadStops(c) PROVE Rests(d) \/ Closes(d)
  <2>1. CASE UNCHANGED connVars
    BY <1>4, <2>1 DEF ReadStops, Rests, Keeps
  <2>2. CASE Remove({c})
    BY <1>4, <2>2, RemoveShape DEF ReadStops
  <2> QED BY <1>4, <2>1, <2>2 DEF ReadStops
<1>5. ASSUME NEW c \in Clients, WriteReplies(c) PROVE Rests(d)
  BY <1>5, WriteRests
<1>6. ASSUME NEW c \in Clients, WriteFails(c) PROVE Rests(d) \/ Closes(d)
  BY <1>6, RemoveShape DEF WriteFails
<1>7. CASE CheckConnections
  BY <1>7 DEF CheckConnections, Rests, Keeps
<1>8. CASE Uninit
  BY <1>8, RemoveShape DEF Uninit
<1>9. CASE UNCHANGED vars
  BY <1>9 DEF vars, Rests, Keeps
<1> QED BY <1>1, <1>2, <1>3, <1>4, <1>5, <1>6, <1>7, <1>8, <1>9 DEF Next, Serve

----------------------------------------------------------------------------
(***************************************************************************)
(* The output source.                                                      *)
(***************************************************************************)
Quiet == \A c \in Clients : phase[c] # "open" => output[c] = <<>>

WInv == TypeOK /\ Quiet /\ OutputWatched

LEMMA WatchRead ==
  ASSUME WInv, NEW c \in Clients, ReadChunk(c)
  PROVE  (Quiet /\ OutputWatched)'
<1> SUFFICES ASSUME NEW d \in Clients
             PROVE  /\ phase'[d] # "open" => output'[d] = <<>>
                    /\ watched'[d] <=> (phase'[d] = "open" /\ output'[d] # <<>>)
  BY DEF Quiet, OutputWatched
<1>1. phase' = phase /\ phase[c] = "open"
  BY DEF ReadChunk
<1>2. PICK n \in Numbers(c) : Run(c, n) \/ UNCHANGED <<output, watched, histVars>>
  BY DEF ReadChunk
<1>3. /\ phase[d] # "open" => output[d] = <<>>
      /\ watched[d] <=> (phase[d] = "open" /\ output[d] # <<>>)
  BY DEF WInv, Quiet, OutputWatched
<1>4. CASE Run(c, n) /\ d = c
  <2> DEFINE base == IF Full(c) THEN <<>> ELSE output[c]
  <2>1. base \in Seq(Pieces)
    BY DEF WInv, TypeOK
  <2>2. output'[c] = base \o Reply(n) /\ watched'[c] = TRUE
    BY <1>4 DEF Run, Push, WInv, TypeOK
  <2>3. n \in Nat
    BY NumberTypes
  <2> HIDE DEF base
  <2>4. Len(base \o Reply(n)) # 0
    BY <2>1, <2>3, ReplyPieces, BuffersAssumption
  <2>5. output'[c] # <<>>
    BY <2>2, <2>4
  <2> QED BY <1>1, <1>4, <2>2, <2>5
<1>5. CASE Run(c, n) /\ d # c
  <2>1. output'[d] = output[d] /\ watched'[d] = watched[d]
    BY <1>5 DEF Run, Push, WInv, TypeOK
  <2> QED BY <1>1, <1>3, <2>1
<1>6. CASE UNCHANGED <<output, watched, histVars>>
  BY <1>1, <1>3, <1>6
<1> QED BY <1>2, <1>4, <1>5, <1>6

LEMMA WatchWrite ==
  ASSUME WInv, NEW c \in Clients, WriteReplies(c)
  PROVE  (Quiet /\ OutputWatched)'
<1> SUFFICES ASSUME NEW d \in Clients
             PROVE  /\ phase'[d] # "open" => output'[d] = <<>>
                    /\ watched'[d] <=> (phase'[d] = "open" /\ output'[d] # <<>>)
  BY DEF Quiet, OutputWatched
<1>1. phase' = phase /\ phase[c] = "open"
  BY DEF WriteReplies
<1>2. PICK k \in 0 .. Len(output[c]), more \in Seq(Pieces), rest \in Seq(Pieces) :
        Moved(c, k, more, rest)
  BY WriteShape DEF WInv
<1>3. /\ phase[d] # "open" => output[d] = <<>>
      /\ watched[d] <=> (phase[d] = "open" /\ output[d] # <<>>)
  BY DEF WInv, Quiet, OutputWatched
<1>4. CASE d = c
  <2>1. /\ output'[c] = rest /\ watched'[c] = (k < Len(output[c]))
        /\ Len(rest) = Len(output[c]) - k
    BY <1>2 DEF Moved, WInv, TypeOK
  <2>2. Len(output[c]) \in Nat
    BY DEF WInv, TypeOK
  <2>3. rest = <<>> <=> Len(rest) = 0
    OBVIOUS
  <2>4. (k < Len(output[c])) <=> rest # <<>>
    BY <2>1, <2>2, <2>3
  <2> QED BY <1>1, <1>4, <2>1, <2>4
<1>5. CASE d # c
  <2>1. output'[d] = output[d] /\ watched'[d] = watched[d]
    BY <1>2, <1>5 DEF Moved, WInv, TypeOK
  <2> QED BY <1>1, <1>3, <2>1
<1> QED BY <1>4, <1>5

LEMMA WatchRest ==
  ASSUME WInv,
         \/ \E c \in Clients : \/ Connect(c) \/ Send(c) \/ Receive(c) \/ HangUp(c)
                               \/ Accept(c) \/ ReadStops(c) \/ WriteFails(c)
         \/ CheckConnections \/ Uninit \/ UNCHANGED vars
  PROVE  (Quiet /\ OutputWatched)'
<1> USE DEF WInv, Quiet, OutputWatched, connVars
<1>1. ASSUME NEW c \in Clients, Connect(c) \/ Accept(c) PROVE (Quiet /\ OutputWatched)'
  <2>1. PICK p \in {"backlog", "open"} : phase' = [phase EXCEPT ![c] = p]
    BY <1>1 DEF Connect, Accept
  <2>2. output[c] = <<>> /\ ~watched[c] /\ UNCHANGED <<output, watched>>
    BY <1>1 DEF Connect, Accept
  <2> QED BY <2>1, <2>2 DEF TypeOK
<1>2. ASSUME NEW c \in Clients, Send(c) \/ Receive(c) \/ HangUp(c)
      PROVE  (Quiet /\ OutputWatched)'
  BY <1>2 DEF Send, Receive, HangUp
<1>3. ASSUME NEW S, Remove(S) PROVE (Quiet /\ OutputWatched)'
  BY <1>3 DEF Remove
<1>4. CASE CheckConnections
  BY <1>4 DEF CheckConnections
<1>5. CASE UNCHANGED vars
  BY <1>5 DEF vars
<1>6. ASSUME NEW c \in Clients, ReadStops(c) \/ WriteFails(c)
      PROVE  (Quiet /\ OutputWatched)'
  BY <1>3, <1>6 DEF ReadStops, WriteFails
<1>7. CASE Uninit
  BY <1>3, <1>7 DEF Uninit
<1> QED BY <1>1, <1>2, <1>4, <1>5, <1>6, <1>7

LEMMA WInvInvariant == Spec => []WInv
<1>1. Init => WInv
  BY TypeInit DEF WInv, Init, Quiet, OutputWatched
<1>2. WInv /\ [Next]_vars => WInv'
  <2>1. WInv /\ [Next]_vars => TypeOK'
    BY TypeClients, TypeReads, TypeRest DEF Next, Serve, WInv
  <2>2. WInv /\ [Next]_vars => (Quiet /\ OutputWatched)'
    BY WatchRead, WatchWrite, WatchRest DEF Next, Serve
  <2> QED BY <2>1, <2>2 DEF WInv
<1> QED BY <1>1, <1>2, PTL DEF Spec

\* No reply is left without the source that writes it, and the output
\* handler never runs on an empty buffer.
THEOREM RepliesAreWatched == Spec => []OutputWatched
<1>1. WInv => OutputWatched
  BY DEF WInv
<1> QED BY <1>1, WInvInvariant, PTL
----------------------------------------------------------------------------
(***************************************************************************)
(* The commands of a client, and what is left of one in the buffer.        *)
(***************************************************************************)
Ran(c) == {executed[c][i] : i \in DOMAIN executed[c]}

Increasing(s) == \A i, j \in DOMAIN s : i < j => s[i] < s[j]

\* What has run was read to its end.
Behind(c) ==
  /\ Increasing(executed[c])
  /\ \A i \in DOMAIN executed[c] : /\ executed[c][i] \in Numbers(c)
                                   /\ Last[c][executed[c][i]] <= read[c]

\* A command that fits is never trimmed.
HeldExact(c) ==
  phase[c] # "closed" =>
    \A n \in Numbers(c) :
      Fits(c, n) /\ First(c, n) <= read[c] + 1 /\ read[c] < Last[c][n] =>
        held[c] = read[c] - First(c, n) + 1

AllRan(c) ==
  \A n \in Numbers(c) : n \in Known[c] /\ Fits(c, n) /\ Last[c][n] <= read[c] => n \in Ran(c)

CInv == TypeOK /\ \A c \in Clients : Behind(c) /\ HeldExact(c) /\ AllRan(c)

LEMMA CommandOrder ==
  ASSUME NEW c \in Clients, NEW m \in Numbers(c), NEW n \in Numbers(c)
  PROVE  /\ m < n => Last[c][m] < Last[c][n] /\ Last[c][m] < First(c, n)
         /\ Last[c][m] < Last[c][n] => m < n
         /\ First(c, n) <= Last[c][n]
<1>1. /\ Last[c] \in Seq(Nat \ {0}) /\ Numbers(c) = 1 .. Len(Last[c])
      /\ Len(Last[c]) \in Nat
  BY NumberTypes
<1>2. \A i, j \in Numbers(c) : i < j => Last[c][i] < Last[c][j]
  BY ScriptAssumption DEF Numbers
<1>3. \A i \in Numbers(c) : i \in Nat \ {0} /\ Last[c][i] \in Nat \ {0}
  BY NumberTypes
<1>4. n # 1 => /\ n - 1 \in Numbers(c) /\ First(c, n) = Last[c][n - 1] + 1
               /\ n - 1 < n /\ Last[c][n - 1] \in Nat
  BY <1>1, <1>3 DEF First
<1>5. First(c, n) <= Last[c][n]
  <2>1. CASE n = 1
    BY <1>3, <2>1 DEF First
  <2>2. CASE n # 1
    BY <1>2, <1>3, <1>4, <2>2
  <2> QED BY <2>1, <2>2
<1>6. ASSUME m < n PROVE Last[c][m] < First(c, n)
  <2>1. n # 1
    BY <1>3, <1>6
  <2>2. m = n - 1 \/ m < n - 1
    BY <1>3, <1>6
  <2>3. Last[c][m] <= Last[c][n - 1]
    BY <1>2, <1>3, <1>4, <2>1, <2>2
  <2> QED BY <1>3, <1>4, <2>1, <2>3
<1>7. ASSUME Last[c][m] < Last[c][n] PROVE m < n
  <2>1. m < n \/ m = n \/ n < m
    BY <1>3
  <2> QED BY <1>2, <1>3, <1>7, <2>1
<1> QED BY <1>2, <1>5, <1>6, <1>7

\* A piece belongs to one command.
LEMMA SameCommand ==
  ASSUME NEW c \in Clients, NEW m \in Numbers(c), NEW n \in Numbers(c), NEW p \in Nat,
         First(c, m) <= p, p <= Last[c][m], First(c, n) <= p, p <= Last[c][n]
  PROVE  m = n
<1>1. /\ m \in Nat /\ First(c, m) \in Nat /\ Last[c][m] \in Nat
      /\ n \in Nat /\ First(c, n) \in Nat /\ Last[c][n] \in Nat
  BY NumberTypes
<1>2. ~(m < n)
  <2>1. m < n => Last[c][m] < First(c, n)
    BY CommandOrder
  <2> QED BY <1>1, <2>1
<1>3. ~(n < m)
  <2>1. n < m => Last[c][n] < First(c, m)
    BY CommandOrder
  <2> QED BY <1>1, <2>1
<1> QED BY <1>1, <1>2, <1>3

\* A chunk of command n: it touches no other command.
LEMMA ChunkShape ==
  ASSUME TypeOK, NEW c \in Clients, ReadChunk(c)
  PROVE  \E n \in Numbers(c), k \in 1 .. ChunkMax :
           /\ phase' = phase /\ phase[c] = "open"
           /\ First(c, n) <= read[c] + 1 /\ read[c] + k <= Last[c][n]
           /\ read'[c] = read[c] + k
           /\ held'[c] = IF read[c] + k = Last[c][n] THEN 0 ELSE Trimmed(held[c]) + k
           /\ IF read[c] + k = Last[c][n] /\ Trimmed(held[c]) + k = Size(c, n)
                 /\ n \in Known[c]
              THEN /\ executed'[c] = Append(executed[c], n)
                   /\ written' = written
                   /\ \/ output'[c] = Reply(n) /\ dropped'[c] = TRUE
                      \/ output'[c] = output[c] \o Reply(n) /\ dropped'[c] = dropped[c]
              ELSE /\ UNCHANGED <<executed, written, output, dropped>>
<1>1. PICK n \in Numbers(c), k \in 1 .. ChunkMax :
        LET pos == read[c] + k
            now == Trimmed(held[c]) + k
        IN  /\ First(c, n) <= read[c] + 1 /\ pos <= Last[c][n]
            /\ read' = [read EXCEPT ![c] = pos]
            /\ held' = [held EXCEPT ![c] = IF pos = Last[c][n] THEN 0 ELSE now]
            /\ IF pos = Last[c][n] /\ now = Size(c, n) /\ n \in Known[c]
               THEN Run(c, n)
               ELSE UNCHANGED <<output, watched, histVars>>
  BY DEF ReadChunk
<1>2. /\ read'[c] = read[c] + k
      /\ held'[c] = IF read[c] + k = Last[c][n] THEN 0 ELSE Trimmed(held[c]) + k
  BY <1>1 DEF TypeOK
<1>3. phase' = phase /\ phase[c] = "open" /\ written' = written
  BY DEF ReadChunk
<1>4. ASSUME Run(c, n)
      PROVE  /\ executed'[c] = Append(executed[c], n)
             /\ \/ output'[c] = Reply(n) /\ dropped'[c] = TRUE
                \/ output'[c] = output[c] \o Reply(n) /\ dropped'[c] = dropped[c]
  <2>1. executed'[c] = Append(executed[c], n)
    BY <1>4 DEF Run, TypeOK
  <2>2. /\ output'[c] = (IF Full(c) THEN <<>> ELSE output[c]) \o Reply(n)
        /\ dropped'[c] = (dropped[c] \/ Full(c))
    BY <1>4 DEF Run, Push, TypeOK
  <2>3. <<>> \o Reply(n) = Reply(n)
    BY NumberTypes, ReplyPieces, ConcatEmptySeq
  <2>4. dropped[c] \in BOOLEAN /\ Full(c) \in BOOLEAN
    BY DEF TypeOK, Full
  <2> QED BY <2>1, <2>2, <2>3, <2>4
<1> QED BY <1>1, <1>2, <1>3, <1>4 DEF histVars

LEMMA CommandsSame ==
  ASSUME CInv, NEW d \in Clients, Rests(d) \/ Closes(d)
  PROVE  (Behind(d) /\ HeldExact(d) /\ AllRan(d))'
<1>1. /\ executed'[d] = executed[d] /\ read'[d] = read[d]
      /\ phase'[d] # "closed" => phase[d] # "closed" /\ held'[d] = held[d]
  BY DEF Rests, Closes, Keeps
<1>2. Behind(d)'
  BY <1>1 DEF CInv, Behind, Increasing
<1>3. HeldExact(d)'
  BY <1>1 DEF CInv, HeldExact
<1>4. AllRan(d)'
  BY <1>1 DEF CInv, AllRan, Ran
<1> QED BY <1>2, <1>3, <1>4

LEMMA CommandsChunk ==
  ASSUME CInv, NEW c \in Clients, ReadChunk(c)
  PROVE  (Behind(c) /\ HeldExact(c) /\ AllRan(c))'
<1>1. TypeOK
  BY DEF CInv
<1>2. PICK n \in Numbers(c), k \in 1 .. ChunkMax :
        /\ phase' = phase /\ phase[c] = "open"
        /\ First(c, n) <= read[c] + 1 /\ read[c] + k <= Last[c][n]
        /\ read'[c] = read[c] + k
        /\ held'[c] = IF read[c] + k = Last[c][n] THEN 0 ELSE Trimmed(held[c]) + k
        /\ IF read[c] + k = Last[c][n] /\ Trimmed(held[c]) + k = Size(c, n)
              /\ n \in Known[c]
           THEN executed'[c] = Append(executed[c], n)
           ELSE executed'[c] = executed[c]
  BY <1>1, ChunkShape, Zenon
<1>3. read[c] \in Nat /\ k \in Nat \ {0} /\ held[c] \in Nat
  BY <1>1, BuffersAssumption DEF TypeOK
<1>4. \A m \in Numbers(c) : /\ m \in Nat \ {0} /\ Last[c][m] \in Nat \ {0}
                            /\ First(c, m) \in Nat \ {0}
  BY NumberTypes
<1>5. executed[c] \in Seq(Nat)
  BY <1>1 DEF TypeOK
<1>6. read[c] < Last[c][n]
  BY <1>2, <1>3, <1>4
<1>7. /\ n \in Nat /\ read[c] < Last[c][n] /\ Last[c][n] \in Nat /\ First(c, n) \in Nat
      /\ First(c, n) <= read[c] + 1 /\ read[c] + k <= Last[c][n]
      /\ read'[c] = read[c] + k /\ read'[c] \in Nat
  BY <1>2, <1>3, <1>4, <1>6
\* The buffer holds all of a command that fits.
<1>8. Fits(c, n) => Trimmed(held[c]) + k = read[c] + k - First(c, n) + 1
  <2> SUFFICES ASSUME Fits(c, n)
               PROVE  Trimmed(held[c]) + k = read[c] + k - First(c, n) + 1
    OBVIOUS
  <2>1. held[c] = read[c] - First(c, n) + 1
    BY <1>2, <1>6 DEF CInv, HeldExact
  <2>2. held[c] <= InputMax
    BY <2>1, <1>3, <1>7, BuffersAssumption DEF Fits, Size
  <2>3. Trimmed(held[c]) = held[c]
    BY <2>2, <1>3, BuffersAssumption DEF Trimmed
  <2> QED BY <2>1, <2>3, <1>3, <1>7
<1>9. HeldExact(c)'
  <2> SUFFICES ASSUME NEW m \in Numbers(c), Fits(c, m),
                      First(c, m) <= read'[c] + 1, read'[c] < Last[c][m]
               PROVE  held'[c] = read'[c] - First(c, m) + 1
    BY DEF HeldExact
  <2>1. First(c, m) \in Nat /\ Last[c][m] \in Nat
    BY <1>4
  <2>2. CASE read[c] + k = Last[c][n]
    <3>1. ~(First(c, m) <= Last[c][n])
      <4> SUFFICES ASSUME First(c, m) <= Last[c][n] PROVE FALSE
        OBVIOUS
      <4>1. Last[c][n] < Last[c][m] /\ First(c, n) <= Last[c][n]
        BY <1>3, <1>7, <2>2
      <4>2. m = n
        BY <1>7, <2>1, <4>1, SameCommand
      <4> QED BY <1>7, <4>1, <4>2
    <3>2. First(c, m) = read'[c] + 1
      BY <1>3, <1>7, <2>1, <2>2, <3>1
    <3>3. held'[c] = 0
      BY <1>2, <2>2
    <3> QED BY <1>7, <3>2, <3>3
  <2>3. CASE read[c] + k # Last[c][n]
    <3>1. m = n
      <4> DEFINE p == read'[c] + 1
      <4>1. /\ p \in Nat /\ First(c, m) <= p /\ p <= Last[c][m]
            /\ First(c, n) <= p /\ p <= Last[c][n]
        BY <1>3, <1>7, <2>1, <2>3
      <4> HIDE DEF p
      <4> QED BY <4>1, SameCommand
    <3>2. held'[c] = Trimmed(held[c]) + k
      BY <1>2, <2>3
    <3>3. Fits(c, n)
      BY <3>1
    <3>4. held'[c] = read'[c] - First(c, n) + 1
      BY <1>3, <1>8, <1>7, <3>2, <3>3
    <3> QED BY <3>1, <3>4
  <2> QED BY <2>2, <2>3
<1>10. AllRan(c)'
  <2> SUFFICES ASSUME NEW m \in Numbers(c), m \in Known[c], Fits(c, m),
                      Last[c][m] <= read'[c]
               PROVE  m \in Ran(c)'
    BY DEF AllRan
  <2>1. \A l : l \in Ran(c) => l \in Ran(c)'
    <3>1. executed'[c] = Append(executed[c], n) \/ executed'[c] = executed[c]
      BY <1>2
    <3>2. \A i \in DOMAIN executed[c] : /\ i \in DOMAIN executed'[c]
                                        /\ executed'[c][i] = executed[c][i]
      <4>1. \A s \in Seq(Nat) : \A i \in DOMAIN s :
              i \in DOMAIN Append(s, n) /\ Append(s, n)[i] = s[i]
        BY <1>7
      <4>2. executed[c] \in Seq(Nat)
        BY <1>5
      <4>3. CASE executed'[c] = Append(executed[c], n)
        BY <4>1, <4>2, <4>3
      <4>4. CASE executed'[c] = executed[c]
        BY <4>4
      <4> QED BY <3>1, <4>3, <4>4
    <3> QED BY <3>2 DEF Ran
  <2>2. CASE Last[c][m] <= read[c]
    BY <2>1, <2>2 DEF CInv, AllRan
  <2>3. CASE read[c] < Last[c][m]
    <3>1. m = n
      <4>1. Last[c][m] \in Nat /\ First(c, m) <= Last[c][m]
        BY <1>4, CommandOrder
      <4>2. First(c, n) <= Last[c][m] /\ Last[c][m] <= Last[c][n]
        BY <1>3, <1>7, <2>3, <4>1
      <4> QED BY <4>1, <4>2, SameCommand
    <3>2. read[c] + k = Last[c][n]
      <4>1. Last[c][n] <= read'[c]
        BY <3>1
      <4> QED BY <4>1, <1>3, <1>7
    <3>3. Trimmed(held[c]) + k = Size(c, n)
      <4>1. Fits(c, n)
        BY <3>1
      <4>2. Trimmed(held[c]) + k = read[c] + k - First(c, n) + 1
        BY <1>8, <4>1
      <4> QED BY <1>3, <1>7, <3>2, <4>2 DEF Size
    <3>4. executed'[c] = Append(executed[c], n)
      BY <1>2, <3>1, <3>2, <3>3
    <3>5. /\ Len(executed[c]) + 1 \in DOMAIN executed'[c]
          /\ executed'[c][Len(executed[c]) + 1] = n
      BY <1>5, <1>7, <3>4
    <3> QED BY <3>1, <3>5 DEF Ran
  <2>4. Last[c][m] \in Nat
    BY <1>4
  <2> QED BY <1>3, <2>2, <2>3, <2>4
<1>11. Behind(c)'
  <2>1. /\ Increasing(executed[c])
        /\ \A i \in DOMAIN executed[c] : /\ executed[c][i] \in Numbers(c)
                                         /\ Last[c][executed[c][i]] <= read[c]
    BY DEF CInv, Behind
  <2>2. \A i \in DOMAIN executed[c] : Last[c][executed[c][i]] <= read'[c]
    <3> TAKE i \in DOMAIN executed[c]
    <3>1. Last[c][executed[c][i]] \in Nat
      BY <1>4, <2>1
    <3> QED BY <1>3, <1>7, <2>1, <3>1
  <2>3. CASE executed'[c] = executed[c]
    BY <2>1, <2>2, <2>3 DEF Behind
  <2>4. CASE executed'[c] = Append(executed[c], n) /\ read[c] + k = Last[c][n]
    <3> DEFINE s == executed[c]
               t == executed'[c]
    <3>1. \A i \in DOMAIN s : s[i] < n
      <4> TAKE i \in DOMAIN s
      <4>1. Last[c][s[i]] < Last[c][n]
        <5>1. Last[c][s[i]] \in Nat /\ Last[c][s[i]] <= read[c]
          BY <1>4, <2>1
        <5>2. read[c] \in Nat /\ Last[c][n] \in Nat /\ read[c] < Last[c][n]
          BY <1>3, <1>7
        <5> QED BY <5>1, <5>2
      <4> QED BY <2>1, <4>1, CommandOrder
    <3>2. /\ DOMAIN s = 1 .. Len(s) /\ DOMAIN t = 1 .. Len(s) + 1 /\ Len(s) \in Nat
          /\ t[Len(s) + 1] = n /\ \A i \in 1 .. Len(s) : t[i] = s[i]
      BY <1>5, <1>7, <2>4
    <3>3. \A i \in DOMAIN t : i \in DOMAIN s \/ i = Len(s) + 1
      BY <3>2
    <3> HIDE DEF s, t
    <3>4. Increasing(t)
      <4> SUFFICES ASSUME NEW i \in DOMAIN t, NEW j \in DOMAIN t, i < j
                   PROVE  t[i] < t[j]
        BY DEF Increasing
      <4>1. i \in DOMAIN s
        BY <3>2
      <4>2. CASE j \in DOMAIN s
        BY <2>1, <3>2, <4>1, <4>2 DEF Increasing, s
      <4>3. CASE j = Len(s) + 1
        BY <3>1, <3>2, <4>1, <4>3
      <4> QED BY <3>3, <4>2, <4>3
    <3>5. ASSUME NEW i \in DOMAIN t
          PROVE  t[i] \in Numbers(c) /\ Last[c][t[i]] <= read'[c]
      <4>1. CASE i \in DOMAIN s
        BY <2>1, <2>2, <3>2, <4>1 DEF s
      <4>2. CASE i = Len(s) + 1
        BY <1>7, <2>4, <3>2, <4>2
      <4> QED BY <3>3, <4>1, <4>2
    <3> QED BY <3>4, <3>5 DEF Behind, t
  <2> QED BY <1>2, <2>3, <2>4
<1> QED BY <1>9, <1>10, <1>11

LEMMA CInvInvariant == Spec => []CInv
<1>1. Init => CInv
  <2> SUFFICES ASSUME Init PROVE CInv
    OBVIOUS
  <2>1. \A c \in Clients : /\ executed[c] = <<>> /\ read[c] = 0 /\ held[c] = 0
    BY DEF Init
  <2>2. ASSUME NEW c \in Clients PROVE Behind(c) /\ HeldExact(c) /\ AllRan(c)
    <3>1. Behind(c)
      BY <2>1 DEF Behind, Increasing
    <3>2. \A n \in Numbers(c) : First(c, n) \in Nat \ {0} /\ Last[c][n] \in Nat \ {0}
      BY NumberTypes
    <3>3. HeldExact(c)
      BY <2>1, <3>2 DEF HeldExact
    <3>4. AllRan(c)
      BY <2>1, <3>2 DEF AllRan
    <3> QED BY <3>1, <3>3, <3>4
  <2> QED BY <2>2, TypeInit DEF CInv
<1>2. CInv /\ [Next]_vars => CInv'
  <2> SUFFICES ASSUME CInv, [Next]_vars PROVE CInv'
    OBVIOUS
  <2>1. TypeOK'
    BY TypeClients, TypeReads, TypeRest DEF Next, Serve, CInv
  <2>2. ASSUME NEW c \in Clients PROVE (Behind(c) /\ HeldExact(c) /\ AllRan(c))'
    <3>1. Rests(c) \/ Closes(c) \/ ReadChunk(c)
      BY StepShape DEF CInv
    <3> QED BY <3>1, CommandsSame, CommandsChunk
  <2> QED BY <2>1, <2>2 DEF CInv
<1> QED BY <1>1, <1>2, PTL DEF Spec
----------------------------------------------------------------------------
(***************************************************************************)
(* A connection that ends.                                                 *)
(***************************************************************************)
ReadToTheEnd ==
  \A c \in Clients :
    phase[c] = "closed" /\ serving /\ ended[c] # "gone" => read[c] = sent[c]

LEMMA EndStep ==
  ASSUME TypeOK, ReadToTheEnd, [Next]_vars
  PROVE  ReadToTheEnd'
<1> USE DEF ReadToTheEnd, connVars, sockVars, histVars
<1>1. ASSUME NEW c \in Clients, Connect(c) \/ Accept(c) PROVE ReadToTheEnd'
  BY <1>1 DEF Connect, Accept, TypeOK
<1>2. ASSUME NEW c \in Clients, Send(c) PROVE ReadToTheEnd'
  BY <1>2 DEF Send, TypeOK
<1>3. ASSUME NEW c \in Clients, Receive(c) \/ WriteReplies(c) PROVE ReadToTheEnd'
  BY <1>3 DEF Receive, WriteReplies
<1>4. ASSUME NEW c \in Clients, HangUp(c) PROVE ReadToTheEnd'
  <2>1. PICK how \in {"half", "gone"} : ended' = [ended EXCEPT ![c] = how]
    BY <1>4 DEF HangUp
  <2> QED BY <1>4, <2>1 DEF HangUp, TypeOK
<1>5. ASSUME NEW c \in Clients, ReadChunk(c) PROVE ReadToTheEnd'
  <2>1. /\ phase[c] = "open" /\ UNCHANGED <<serving, phase, sent, ended>>
        /\ \A d \in Clients \ {c} : read'[d] = read[d]
    BY <1>5 DEF ReadChunk, TypeOK
  <2> QED BY <2>1
<1>6. ASSUME NEW c \in Clients, ReadStops(c) PROVE ReadToTheEnd'
  <2>1. CASE UNCHANGED connVars
    BY <1>6, <2>1 DEF ReadStops
  <2>2. CASE Remove({c})
    BY <1>6, <2>2 DEF ReadStops, Remove
  <2> QED BY <1>6, <2>1, <2>2 DEF ReadStops
<1>7. ASSUME NEW c \in Clients, WriteFails(c) PROVE ReadToTheEnd'
  BY <1>7 DEF WriteFails, Remove
<1>8. CASE CheckConnections
  BY <1>8 DEF CheckConnections
<1>9. CASE Uninit
  BY <1>9 DEF Uninit
<1>10. CASE UNCHANGED vars
  BY <1>10 DEF vars
<1> QED BY <1>1, <1>2, <1>3, <1>4, <1>5, <1>6, <1>7, <1>8, <1>9, <1>10 DEF Next, Serve

\* Commands run in order, each once; a known command that fits and was read
\* has run; a connection that ends at the end of the stream was read to it.
THEOREM CommandsAreExecuted == Spec => []CommandsExecuted
<1>1. Init => ReadToTheEnd
  BY DEF Init, ReadToTheEnd
<1>2. CInv /\ ReadToTheEnd /\ [Next]_vars => ReadToTheEnd'
  BY EndStep DEF CInv
<1>3. CInv /\ ReadToTheEnd => CommandsExecuted
  BY DEF CInv, Behind, AllRan, Ran, Increasing, ReadToTheEnd, CommandsExecuted
<1> QED BY <1>1, <1>2, <1>3, CInvInvariant, PTL DEF Spec

----------------------------------------------------------------------------
(***************************************************************************)
(* The replies of a client, in the socket and in the buffer.               *)
(***************************************************************************)
\* In order, and each piece of a reply directly after the one before it.
Ordered(s) ==
  /\ \A i, j \in DOMAIN s : i < j => Earlier(s[i], s[j])
  /\ \A i \in DOMAIN s :
       s[i][2] = 1 \/ (i > 1 /\ s[i - 1] = <<s[i][1], s[i][2] - 1>>)

From(s, R) == \A i \in DOMAIN s : s[i][1] \in R

\* Nothing is missing.
Complete(c) ==
  phase[c] # "closed" /\ ~dropped[c] =>
    Len(Stream(c)) = ReplySize * Len(executed[c])

SInv == \A c \in Clients : /\ Ordered(Stream(c)) /\ From(Stream(c), Ran(c))
                           /\ Complete(c)

LEMMA PrefixOrdered ==
  ASSUME NEW s \in Seq(Pieces), NEW t \in Seq(Pieces), NEW R,
         Ordered(s \o t), From(s \o t, R)
  PROVE  Ordered(s) /\ From(s, R)
<1>1. /\ DOMAIN s = 1 .. Len(s) /\ Len(s) \in Nat /\ Len(t) \in Nat
      /\ DOMAIN (s \o t) = 1 .. Len(s) + Len(t)
      /\ \A i \in 1 .. Len(s) : (s \o t)[i] = s[i]
  OBVIOUS
<1>2. \A i \in DOMAIN s : i \in DOMAIN (s \o t) /\ (s \o t)[i] = s[i]
  BY <1>1
<1>3. Ordered(s)
  <2>1. ASSUME NEW i \in DOMAIN s
        PROVE  s[i][2] = 1 \/ (i > 1 /\ s[i - 1] = <<s[i][1], s[i][2] - 1>>)
    <3>1. (s \o t)[i] = s[i] /\ (i > 1 => (s \o t)[i - 1] = s[i - 1])
      BY <1>1
    <3>2. \/ (s \o t)[i][2] = 1
          \/ i > 1 /\ (s \o t)[i - 1] = <<(s \o t)[i][1], (s \o t)[i][2] - 1>>
      BY <1>2 DEF Ordered
    <3> QED BY <3>1, <3>2
  <2>2. \A i, j \in DOMAIN s : i < j => Earlier(s[i], s[j])
    BY <1>2 DEF Ordered
  <2> QED BY <2>1, <2>2 DEF Ordered
<1> QED BY <1>2, <1>3 DEF From

\* The reply to a later command may follow.
LEMMA ReplyOrdered ==
  ASSUME NEW s \in Seq(Pieces), NEW n \in Nat, NEW R,
         Ordered(s), From(s, R), \A r \in R : r \in Nat /\ r < n
  PROVE  /\ Ordered(s \o Reply(n)) /\ From(s \o Reply(n), R \cup {n})
         /\ s \o Reply(n) \in Seq(Pieces)
         /\ Len(s \o Reply(n)) = Len(s) + ReplySize
<1> DEFINE t == Reply(n)
           u == s \o t
           l == Len(s)
<1>1. /\ t \in Seq(Pieces) /\ Len(t) = ReplySize /\ ReplySize \in Nat
      /\ \A k \in 1 .. ReplySize : t[k] = <<n, k>>
  BY ReplyPieces, BuffersAssumption
<1> HIDE DEF t
<1>2. /\ u \in Seq(Pieces) /\ Len(u) = l + ReplySize /\ l \in Nat
      /\ DOMAIN s = 1 .. l /\ DOMAIN u = 1 .. l + ReplySize
      /\ \A i \in 1 .. l : u[i] = s[i]
      /\ \A i \in l + 1 .. l + ReplySize : u[i] = t[i - l]
  <2>1. l \in Nat /\ DOMAIN s = 1 .. l
    OBVIOUS
  <2>2. /\ u \in Seq(Pieces) /\ Len(u) = l + Len(t)
        /\ \A i \in 1 .. l : u[i] = s[i]
        /\ \A i \in l + 1 .. l + Len(t) : u[i] = t[i - l]
    <3>1. /\ u \in Seq(Pieces) /\ Len(u) = l + Len(t)
          /\ \A i \in 1 .. l + Len(t) : u[i] = IF i <= l THEN s[i] ELSE t[i - l]
      BY <1>1, ConcatProperties, Zenon
    <3>2. Len(t) \in Nat
      BY <1>1
    <3> HIDE DEF u, l
    <3>3. ASSUME NEW i \in 1 .. l PROVE u[i] = s[i]
      <4>1. i \in 1 .. l + Len(t) /\ i <= l
        BY <2>1, <3>2
      <4> QED BY <3>1, <4>1
    <3>4. ASSUME NEW i \in l + 1 .. l + Len(t) PROVE u[i] = t[i - l]
      <4>1. i \in 1 .. l + Len(t) /\ ~(i <= l)
        BY <2>1, <3>2
      <4> QED BY <3>1, <4>1
    <3> QED BY <3>1, <3>3, <3>4
  <2>3. DOMAIN u = 1 .. Len(u)
    BY <2>2
  <2> QED BY <1>1, <2>1, <2>2, <2>3
<1> HIDE DEF u, l
<1>3. ASSUME NEW i \in DOMAIN u
      PROVE  \/ i \in DOMAIN s /\ u[i] = s[i] /\ s[i][1] \in Nat /\ s[i][1] < n
             \/ ~(i \in DOMAIN s) /\ i - l \in 1 .. ReplySize /\ u[i] = <<n, i - l>>
  <2>1. CASE i \in 1 .. l
    <3>1. s[i][1] \in R
      BY <1>2, <2>1 DEF From
    <3> QED BY <1>2, <2>1, <3>1
  <2>2. CASE ~(i \in 1 .. l)
    <3>1. i \in l + 1 .. l + ReplySize /\ i - l \in 1 .. ReplySize
      BY <1>1, <1>2, <2>2
    <3> QED BY <1>1, <1>2, <2>2, <3>1
  <2> QED BY <2>1, <2>2
<1>4. ASSUME NEW i \in DOMAIN u, NEW j \in DOMAIN u, i < j
      PROVE  Earlier(u[i], u[j])
  <2>1. CASE i \in DOMAIN s /\ j \in DOMAIN s
    BY <1>3, <1>4, <2>1 DEF Ordered
  <2>2. CASE i \in DOMAIN s /\ ~(j \in DOMAIN s)
    <3>1. /\ u[i] = s[i] /\ s[i][1] < n
          /\ u[j] = <<n, j - l>>
      BY <1>3, <2>2
    <3> QED BY <3>1 DEF Earlier
  <2>3. CASE ~(i \in DOMAIN s)
    <3>1. ~(j \in DOMAIN s)
      BY <1>1, <1>2, <1>4, <2>3
    <3>2. u[i] = <<n, i - l>> /\ u[j] = <<n, j - l>>
      BY <1>3, <2>3, <3>1
    <3>3. i - l < j - l
      BY <1>1, <1>2, <1>4
    <3> QED BY <3>2, <3>3 DEF Earlier
  <2> QED BY <2>1, <2>2, <2>3
<1>5. ASSUME NEW i \in DOMAIN u
      PROVE  u[i][2] = 1 \/ (i > 1 /\ u[i - 1] = <<u[i][1], u[i][2] - 1>>)
  <2>1. CASE i \in DOMAIN s
    <3>1. u[i] = s[i] /\ (i > 1 => u[i - 1] = s[i - 1])
      BY <1>2, <2>1
    <3>2. s[i][2] = 1 \/ (i > 1 /\ s[i - 1] = <<s[i][1], s[i][2] - 1>>)
      BY <2>1 DEF Ordered
    <3> QED BY <3>1, <3>2
  <2>2. CASE ~(i \in DOMAIN s)
    <3>1. i - l \in 1 .. ReplySize /\ u[i] = <<n, i - l>>
      BY <1>3, <2>2
    <3>2. CASE i - l = 1
      BY <3>1, <3>2
    <3>3. CASE i - l > 1
      <4>1. i - 1 \in DOMAIN u /\ ~(i - 1 \in DOMAIN s) /\ i > 1
        BY <1>1, <1>2, <2>2, <3>1, <3>3
      <4>2. u[i - 1] = <<n, i - 1 - l>>
        BY <1>3, <4>1
      <4>3. i - 1 - l = i - l - 1
        BY <1>2, <4>1
      <4> QED BY <3>1, <4>1, <4>2, <4>3
    <3> QED BY <1>1, <3>1, <3>2, <3>3
  <2> QED BY <2>1, <2>2
<1>6. Ordered(u)
  BY <1>4, <1>5 DEF Ordered
<1>7. From(u, R \cup {n})
  <2> SUFFICES ASSUME NEW i \in DOMAIN u PROVE u[i][1] \in R \cup {n}
    BY DEF From
  <2> QED BY <1>3 DEF From
<1> QED BY <1>2, <1>6, <1>7 DEF t, u, l

LEMMA RepliesSame ==
  ASSUME TypeOK, SInv, NEW d \in Clients, Rests(d) \/ Closes(d)
  PROVE  (Ordered(Stream(d)) /\ From(Stream(d), Ran(d)) /\ Complete(d))'
<1>1. /\ written[d] \in Seq(Pieces) /\ output[d] \in Seq(Pieces)
      /\ executed'[d] = executed[d] /\ dropped'[d] = dropped[d]
      /\ Ordered(Stream(d)) /\ From(Stream(d), Ran(d)) /\ Complete(d)
  BY DEF TypeOK, SInv, Rests, Closes, Keeps
<1>2. Ran(d)' = Ran(d)
  BY <1>1 DEF Ran
<1>3. CASE Rests(d)
  <2>1. Stream(d)' = Stream(d)
    BY <1>3 DEF Rests, Stream
  <2>2. phase'[d] # "closed" => phase[d] # "closed"
    BY <1>3 DEF Rests, Keeps
  <2>3. Complete(d)'
    BY <1>1, <2>1, <2>2 DEF Complete
  <2>4. (Ordered(Stream(d)) /\ From(Stream(d), Ran(d)))'
    BY <1>1, <1>2, <2>1 DEF Ordered, From
  <2> QED BY <2>3, <2>4
<1>4. CASE Closes(d)
  <2>1. Stream(d)' = written[d]
    BY <1>1, <1>4, ConcatEmptySeq DEF Closes, Stream
  <2>2. Ordered(written[d]) /\ From(written[d], Ran(d))
    BY <1>1, PrefixOrdered DEF Stream
  <2>3. Complete(d)'
    BY <1>4 DEF Closes, Complete
  <2>4. (Ordered(Stream(d)) /\ From(Stream(d), Ran(d)))'
    BY <1>2, <2>1, <2>2 DEF Ordered, From
  <2> QED BY <2>3, <2>4
<1> QED BY <1>3, <1>4

LEMMA RepliesChunk ==
  ASSUME CInv, CInv', SInv, NEW c \in Clients, ReadChunk(c)
  PROVE  (Ordered(Stream(c)) /\ From(Stream(c), Ran(c)) /\ Complete(c))'
<1>1. /\ written[c] \in Seq(Pieces) /\ output[c] \in Seq(Pieces)
      /\ executed[c] \in Seq(Nat) /\ dropped[c] \in BOOLEAN
      /\ Ordered(Stream(c)) /\ From(Stream(c), Ran(c)) /\ Complete(c)
  BY DEF CInv, TypeOK, SInv
<1>2. PICK n \in Numbers(c) :
        /\ phase' = phase /\ phase[c] = "open" /\ written' = written
        /\ \/ /\ executed'[c] = Append(executed[c], n)
              /\ \/ output'[c] = Reply(n) /\ dropped'[c] = TRUE
                 \/ output'[c] = output[c] \o Reply(n) /\ dropped'[c] = dropped[c]
           \/ UNCHANGED <<executed, output, dropped>>
  BY ChunkShape DEF CInv, ReadChunk
<1>3. n \in Nat
  BY NumberTypes
<1>4. CASE UNCHANGED <<executed, output, dropped>>
  BY <1>1, <1>2, <1>4 DEF Stream, Ran, Complete, Ordered, From
<1>5. CASE executed'[c] = Append(executed[c], n)
  <2> DEFINE s == executed[c]
  <2>1. /\ Len(s) \in Nat /\ DOMAIN s = 1 .. Len(s)
        /\ DOMAIN executed'[c] = 1 .. Len(s) + 1 /\ Len(executed'[c]) = Len(s) + 1
        /\ executed'[c][Len(s) + 1] = n
        /\ \A i \in 1 .. Len(s) : executed'[c][i] = s[i] /\ s[i] \in Nat
    BY <1>1, <1>3, <1>5
  <2>2. \A r \in Ran(c) : r \in Nat /\ r < n
    <3> SUFFICES ASSUME NEW i \in DOMAIN s PROVE s[i] \in Nat /\ s[i] < n
      BY DEF Ran
    <3>1. Increasing(executed'[c])
      BY DEF CInv, Behind
    <3>2. i \in DOMAIN executed'[c] /\ Len(s) + 1 \in DOMAIN executed'[c] /\ i < Len(s) + 1
      BY <2>1
    <3> QED BY <2>1, <3>1, <3>2 DEF Increasing
  <2>3. Ran(c)' = Ran(c) \cup {n}
    <3>1. \A i : i \in DOMAIN executed'[c] <=> i \in DOMAIN s \/ i = Len(s) + 1
      BY <2>1
    <3> QED BY <2>1, <3>1 DEF Ran
  <2> HIDE DEF s
  <2>4. CASE output'[c] = Reply(n) /\ dropped'[c] = TRUE
    <3>1. Ordered(written[c]) /\ From(written[c], Ran(c))
      BY <1>1, PrefixOrdered DEF Stream
    <3>2. /\ Ordered(written[c] \o Reply(n))
          /\ From(written[c] \o Reply(n), Ran(c) \cup {n})
      BY <1>1, <1>3, <2>2, <3>1, ReplyOrdered
    <3>3. Stream(c)' = written[c] \o Reply(n)
      BY <1>2, <2>4 DEF Stream
    <3>4. Complete(c)'
      BY <2>4 DEF Complete
    <3>5. (Ordered(Stream(c)) /\ From(Stream(c), Ran(c)))'
      BY <2>3, <3>2, <3>3 DEF Ordered, From
    <3> QED BY <3>4, <3>5
  <2>5. CASE output'[c] = output[c] \o Reply(n) /\ dropped'[c] = dropped[c]
    <3>1. Stream(c) \in Seq(Pieces)
      BY <1>1 DEF Stream
    <3>2. /\ Ordered(Stream(c) \o Reply(n))
          /\ From(Stream(c) \o Reply(n), Ran(c) \cup {n})
          /\ Len(Stream(c) \o Reply(n)) = Len(Stream(c)) + ReplySize
      BY <1>1, <1>3, <2>2, <3>1, ReplyOrdered
    <3>3. Stream(c)' = Stream(c) \o Reply(n)
      <4>1. Reply(n) \in Seq(Pieces)
        BY <1>3, ReplyPieces
      <4>2. Stream(c)' = written[c] \o (output[c] \o Reply(n))
        BY <1>2, <2>5 DEF Stream
      <4>3. \A x, y, z \in Seq(Pieces) : (x \o y) \o z = x \o (y \o z)
        BY ConcatAssociative
      <4>4. (written[c] \o output[c]) \o Reply(n) = written[c] \o (output[c] \o Reply(n))
        BY <1>1, <4>1, <4>3, Zenon
      <4> QED BY <4>2, <4>4 DEF Stream
    <3>4. Complete(c)'
      <4> SUFFICES ASSUME ~dropped'[c]
                   PROVE  Len(Stream(c)') = ReplySize * Len(executed'[c])
        BY DEF Complete
      <4>1. Len(Stream(c)) = ReplySize * Len(s)
        BY <1>1, <1>2, <2>5 DEF Complete, s
      <4>2. ReplySize * (Len(s) + 1) = ReplySize * Len(s) + ReplySize
        BY <2>1, BuffersAssumption
      <4> QED BY <2>1, <3>2, <3>3, <4>1, <4>2
    <3>5. (Ordered(Stream(c)) /\ From(Stream(c), Ran(c)))'
      BY <2>3, <3>2, <3>3 DEF Ordered, From
    <3> QED BY <3>4, <3>5
  <2> QED BY <1>2, <1>4, <2>4, <2>5
<1> QED BY <1>2, <1>4, <1>5

\* A client gets the replies to its own commands, in order, no piece twice or
\* without those before it, and all of them unless some were dropped.
THEOREM RepliesAreInOrder == Spec => []RepliesInOrder
<1>1. Init => SInv
  <2> SUFFICES ASSUME Init, NEW c \in Clients
               PROVE  Ordered(Stream(c)) /\ From(Stream(c), Ran(c)) /\ Complete(c)
    BY DEF SInv
  <2>1. written[c] = <<>> /\ output[c] = <<>> /\ executed[c] = <<>>
    BY DEF Init
  <2>2. Stream(c) = <<>> /\ Len(Stream(c)) = 0
    BY <2>1 DEF Stream
  <2> QED BY <2>1, <2>2, BuffersAssumption DEF Ordered, From, Complete
<1>2. CInv /\ CInv' /\ SInv /\ [Next]_vars => SInv'
  <2> SUFFICES ASSUME CInv, CInv', SInv, [Next]_vars, NEW c \in Clients
               PROVE  (Ordered(Stream(c)) /\ From(Stream(c), Ran(c)) /\ Complete(c))'
    BY DEF SInv
  <2>1. Rests(c) \/ Closes(c) \/ ReadChunk(c)
    BY StepShape DEF CInv
  <2> QED BY <2>1, RepliesSame, RepliesChunk DEF CInv
<1>3. SInv => RepliesInOrder
  BY DEF SInv, Ordered, From, Complete, Ran, RepliesInOrder
<1> QED BY <1>1, <1>2, <1>3, CInvInvariant, PTL DEF Spec
=============================================================================
