--------------------------- MODULE PmuLinkProofs ---------------------------
(***************************************************************************)
(* Proofs about PmuLink.                                                   *)
(***************************************************************************)
EXTENDS PmuLink, SequenceTheorems, WellFoundedInduction, TLAPS

\* Settling fates and counting transmissions keep the types of the maps.
LEMMA MapTypes ==
  ASSUME NEW fate \in [Numbers -> Fates], NEW sends \in [Numbers -> Nat],
         NEW S, NEW how \in Fates
  PROVE  /\ Settle(fate, S, how) \in [Numbers -> Fates]
         /\ Count(sends, S) \in [Numbers -> Nat]
  BY DEF Settle, Count

\* A new command is a command.
LEMMA FreshCommandType ==
  ASSUME NEW kind \in Kinds, NEW n \in Nat
  PROVE  FreshCommand(kind, n) \in Commands
  BY DEF FreshCommand, Commands, NeedsAck, Retries

\* What Append, Head and Tail give.
LEMMA AppendFacts ==
  ASSUME NEW S, NEW s \in Seq(S), NEW e \in S
  PROVE  LET q == Append(s, e)
         IN  /\ q \in Seq(S) /\ q # <<>> /\ Len(q) = Len(s) + 1
             /\ Head(q) \in S /\ Tail(q) \in Seq(S) /\ Len(Tail(q)) = Len(s)
  BY AppendProperties, HeadTailProperties

\* The end of an untried queue is untried.
LEMMA UntriedRest ==
  ASSUME NEW s \in Seq(Commands), Untried(s), NEW x \in 0 .. Len(s)
  PROVE  Untried(SubSeq(s, x + 1, Len(s)))
  <1> DEFINE q == SubSeq(s, x + 1, Len(s))
             n == Len(s)
  <1>1. n \in Nat /\ DOMAIN s = 1 .. n /\ x \in 0 .. n
    BY LenProperties
  <1>2. \A i \in x + 1 .. n : s[i] \in Commands
    BY <1>1, ElementOfSeq
  <1>3. q \in Seq(Commands) /\ Len(q) = n - x
        /\ \A i \in 1 .. n - x : q[i] = s[i + x]
    <2>1. /\ q \in Seq(Commands)
          /\ Len(q) = IF x + 1 <= n THEN n - (x + 1) + 1 ELSE 0
          /\ \A i \in 1 .. n - (x + 1) + 1 : q[i] = s[(x + 1) + i - 1]
      BY <1>1, <1>2, SubSeqProperties
    <2> HIDE DEF q, n
    <2> QED
      BY <1>1, <2>1
  <1>4. DOMAIN q = 1 .. n - x
    BY <1>3, LenProperties
  <1> HIDE DEF q, n
  <1>5. \A i \in 1 .. n - x : i + x \in 1 .. n
    BY <1>1
  <1> QED
    BY <1>1, <1>3, <1>4, <1>5 DEF Untried, q, n

\* The fields of a trimmed link: there is room for one command.
LEMMA TrimmedFields ==
  ASSUME NEW l, LinkOK(l)
  PROVE  LET t == Trimmed(l)
         IN  /\ t \in Links
             /\ Len(t.queue) <= QueueMax
             /\ Untried(t.queue)
             /\ t.queue = SubSeq(l.queue, Excess(l) + 1, Len(l.queue))
             /\ Excess(l) \in 0 .. Len(l.queue)
             /\ t.fate = Settle(l.fate, {l.queue[i] : i \in 1 .. Excess(l)},
                                "dropped")
             /\ t.cur = l.cur /\ t.source = l.source /\ t.late = l.late
             /\ t.next = l.next /\ t.sends = l.sends
  <1> DEFINE D == {l.queue[i] : i \in 1 .. Excess(l)}
             q == SubSeq(l.queue, Excess(l) + 1, Len(l.queue))
             f == Settle(l.fate, D, "dropped")
             t == [l EXCEPT !.queue = q, !.fate = f]
  <1>1. l \in Links
    BY DEF LinkOK
  <1>2. /\ Excess(l) \in 0 .. Len(l.queue)
        /\ Len(l.queue) - Excess(l) <= QueueMax
    BY SizesAssumption DEF Excess, LinkOK, Links
  <1>3. q \in Seq(Commands) /\ Len(q) <= QueueMax
    BY <1>1, <1>2 DEF Links
  <1>4. f \in [Numbers -> Fates]
    BY <1>1, MapTypes DEF Links, Fates
  <1>5. Trimmed(l) = t
    BY DEF Trimmed
  <1>8. Untried(q)
    BY <1>1, <1>2, UntriedRest DEF LinkOK, Links
  <1> HIDE DEF q, f
  <1>6. t \in Links
    BY <1>1, <1>3, <1>4 DEF Links
  <1>7. /\ t.queue = q /\ t.fate = f
        /\ t.cur = l.cur /\ t.source = l.source /\ t.late = l.late
        /\ t.next = l.next /\ t.sends = l.sends
    BY <1>1 DEF Links
  <1> QED
    BY <1>2, <1>3, <1>5, <1>6, <1>7, <1>8 DEF q, f

\* The fields of a link with one more command.
LEMMA PutFields ==
  ASSUME NEW l, LinkOK(l), NEW c \in Commands
  PROVE  LET q == Append(Trimmed(l).queue, c)
             p == Put(l, c)
         IN  /\ p \in Links
             /\ p.cur = IF l.cur = <<>> THEN <<Head(q)>> ELSE l.cur
             /\ p.queue = IF l.cur = <<>> THEN Tail(q) ELSE q
             /\ p.fate = IF Numbered(c) THEN Settle(Trimmed(l).fate, {c}, "open")
                         ELSE Trimmed(l).fate
             /\ p.source = TRUE /\ p.late = l.late
             /\ p.next = l.next /\ p.sends = l.sends
  <1> DEFINE t == Trimmed(l)
             q == Append(t.queue, c)
             cur == IF t.cur = <<>> THEN <<Head(q)>> ELSE t.cur
             queue == IF t.cur = <<>> THEN Tail(q) ELSE q
             f == IF Numbered(c) THEN Settle(t.fate, {c}, "open") ELSE t.fate
             p == [t EXCEPT !.cur = cur, !.queue = queue,
                            !.source = TRUE, !.fate = f]
  <1>1. t \in Links /\ t.cur = l.cur /\ t.late = l.late /\ t.next = l.next
        /\ t.sends = l.sends
    BY TrimmedFields
  <1>2. Put(l, c) = p
    BY DEF Put
  <1> HIDE DEF t
  <1>3. q \in Seq(Commands) /\ q # <<>> /\ Head(q) \in Commands
        /\ Tail(q) \in Seq(Commands)
    <2>1. t.queue \in Seq(Commands)
      BY <1>1 DEF Links
    <2> QED
      BY <2>1, AppendFacts
  <1>4. f \in [Numbers -> Fates]
    BY <1>1, MapTypes DEF Links, Fates
  <1>5. cur \in Seq(Commands) /\ queue \in Seq(Commands)
    BY <1>1, <1>3 DEF Links
  <1> HIDE DEF cur, queue, f
  <1>6. p \in Links
    BY <1>1, <1>4, <1>5 DEF Links
  <1>7. /\ p.cur = cur /\ p.queue = queue /\ p.fate = f /\ p.source = TRUE
        /\ p.late = t.late /\ p.next = t.next /\ p.sends = t.sends
    BY <1>1 DEF Links
  <1> QED
    BY <1>1, <1>2, <1>6, <1>7 DEF cur, queue, f, t

\* Queueing a command keeps the link in shape.
LEMMA PutOK ==
  ASSUME NEW l, LinkOK(l), NEW c \in Commands, c.firstrun
  PROVE  LinkOK(Put(l, c))
  <1> DEFINE t == Trimmed(l)
             q == Append(t.queue, c)
             p == Put(l, c)
  <1>1. t \in Links /\ Len(t.queue) <= QueueMax /\ Untried(t.queue)
    BY TrimmedFields
  <1> HIDE DEF t
  <1>2. t.queue \in Seq(Commands) /\ Len(t.queue) \in Nat
    BY <1>1 DEF Links
  <1>3. /\ Len(q) = Len(t.queue) + 1 /\ Len(Tail(q)) = Len(t.queue)
    BY <1>2, AppendFacts
  <1>4. /\ p \in Links
        /\ p.cur = IF l.cur = <<>> THEN <<Head(q)>> ELSE l.cur
        /\ p.queue = IF l.cur = <<>> THEN Tail(q) ELSE q
    BY PutFields DEF t
  <1>7. Untried(q)
    BY <1>1, <1>2, AppendProperties DEF Untried
  <1>8. Untried(Tail(q))
    <2>1. q \in Seq(Commands) /\ 1 \in 0 .. Len(q) /\ q # <<>>
      BY <1>2, <1>3, AppendFacts
    <2>2. Tail(q) = SubSeq(q, 2, Len(q))
      BY <2>1, TailIsSubSeq
    <2>3. \A k : k = 1 + 1 => Untried(SubSeq(q, k, Len(q)))
      BY <1>7, <2>1, UntriedRest
    <2>4. 2 = 1 + 1
      OBVIOUS
    <2> QED
      BY <2>2, <2>3, <2>4
  <1> HIDE DEF p, q
  <1>5. Len(p.queue) <= QueueMax + 1
    BY <1>1, <1>2, <1>3, <1>4, SizesAssumption
  <1>6. Len(p.cur) <= 1 /\ p.cur # <<>>
    BY <1>4 DEF LinkOK
  <1> QED
    BY <1>4, <1>5, <1>6, <1>7, <1>8 DEF LinkOK, p

----------------------------------------------------------------------------
(***************************************************************************)
(* The pending commands, as one sequence.                                  *)
(***************************************************************************)

\* Pending is the current command, if there is one, and then the queue.
LEMMA PendingFacts ==
  ASSUME NEW l \in Links
  PROVE  /\ Pending(l) \in Seq(Commands)
         /\ Len(Pending(l)) = Len(l.cur) + Len(l.queue)
         /\ Len(l.cur) \in Nat /\ Len(l.queue) \in Nat
         /\ DOMAIN Pending(l) = 1 .. Len(Pending(l))
         /\ \A i \in 1 .. Len(Pending(l)) : Pending(l)[i] \in Commands
         /\ \A i \in 1 .. Len(Pending(l)) :
              Pending(l)[i] = IF i <= Len(l.cur) THEN l.cur[i]
                              ELSE l.queue[i - Len(l.cur)]
  <1>1. l.cur \in Seq(Commands) /\ l.queue \in Seq(Commands)
    BY DEF Links
  <1>2. Len(l.cur) \in Nat /\ Len(l.queue) \in Nat
    BY <1>1, LenProperties
  <1>3. /\ Pending(l) \in Seq(Commands)
        /\ Len(Pending(l)) = Len(l.cur) + Len(l.queue)
        /\ \A i \in 1 .. Len(l.cur) + Len(l.queue) :
              Pending(l)[i] = IF i <= Len(l.cur) THEN l.cur[i]
                              ELSE l.queue[i - Len(l.cur)]
    BY <1>1, ConcatProperties DEF Pending
  <1>4. /\ DOMAIN Pending(l) = 1 .. Len(Pending(l))
        /\ \A i \in 1 .. Len(Pending(l)) : Pending(l)[i] \in Commands
    BY <1>3, LenProperties, ElementOfSeq
  <1> QED
    BY <1>2, <1>3, <1>4

\* The same, part by part.
LEMMA PendingParts ==
  ASSUME NEW l \in Links
  PROVE  /\ \A i \in 1 .. Len(l.cur) : Pending(l)[i] = l.cur[i]
         /\ \A i \in 1 .. Len(l.queue) : Pending(l)[Len(l.cur) + i] = l.queue[i]
  <1> DEFINE a == Len(l.cur)
             b == Len(l.queue)
             p == Pending(l)
             queue == l.queue
             cur == l.cur
  <1>1. /\ a \in Nat /\ b \in Nat
        /\ \A i \in 1 .. a + b : p[i] = IF i <= a THEN cur[i] ELSE queue[i - a]
    BY PendingFacts
  <1> HIDE DEF a, b, p, queue, cur
  <1>2. ASSUME NEW i \in 1 .. a PROVE p[i] = cur[i]
    <2>1. i \in 1 .. a + b /\ i <= a
      BY <1>1
    <2> QED
      BY <1>1, <2>1
  <1>3. ASSUME NEW i \in 1 .. b PROVE p[a + i] = queue[i]
    <2>1. a + i \in 1 .. a + b /\ ~(a + i <= a) /\ (a + i) - a = i
      BY <1>1
    <2> QED
      BY <1>1, <2>1
  <1> QED
    BY <1>2, <1>3 DEF a, b, p, queue, cur

----------------------------------------------------------------------------
(***************************************************************************)
(* Queueing commands.                                                      *)
(***************************************************************************)

\* Trimming leaves Excess(l) commands out, behind the current one.
LEMMA TrimmedPending ==
  ASSUME NEW l, LinkOK(l)
  PROVE  \A i \in 1 .. Len(Pending(Trimmed(l))) :
           LET j == IF i <= Len(l.cur) THEN i ELSE i + Excess(l)
           IN  /\ j \in 1 .. Len(Pending(l))
               /\ Pending(Trimmed(l))[i] = Pending(l)[j]
  <1> DEFINE t == Trimmed(l)
             x == Excess(l)
  <1>1. /\ l \in Links /\ t \in Links /\ t.cur = l.cur
        /\ t.queue = SubSeq(l.queue, x + 1, Len(l.queue))
        /\ x \in 0 .. Len(l.queue)
    BY TrimmedFields DEF LinkOK
  <1>2. l.queue \in Seq(Commands) /\ Len(l.queue) \in Nat
    BY <1>1, LenProperties DEF Links
  <1>3. \A i \in x + 1 .. Len(l.queue) : l.queue[i] \in Commands
    BY <1>1, <1>2, ElementOfSeq
  <1> HIDE DEF t, x
  <1>4. /\ Len(t.queue) = Len(l.queue) - x
        /\ \A i \in 1 .. Len(l.queue) - x : t.queue[i] = l.queue[i + x]
    BY <1>1, <1>2, <1>3, SubSeqProperties
  <1>5. /\ Len(Pending(l)) = Len(l.cur) + Len(l.queue) /\ Len(l.cur) \in Nat
        /\ \A i \in 1 .. Len(Pending(l)) :
              Pending(l)[i] = IF i <= Len(l.cur) THEN l.cur[i]
                              ELSE l.queue[i - Len(l.cur)]
    BY <1>1, PendingFacts
  <1>6. /\ Len(Pending(t)) = Len(l.cur) + Len(t.queue)
        /\ \A i \in 1 .. Len(Pending(t)) :
              Pending(t)[i] = IF i <= Len(l.cur) THEN l.cur[i]
                              ELSE t.queue[i - Len(l.cur)]
    BY <1>1, PendingFacts
  <1> DEFINE a == Len(l.cur)
             b == Len(l.queue)
  <1>7. /\ a \in Nat /\ b \in Nat /\ x \in Nat /\ x <= b
        /\ Len(Pending(l)) = a + b /\ Len(Pending(t)) = a + (b - x)
    BY <1>1, <1>2, <1>4, <1>5, <1>6
  <1>8. /\ \A i \in 1 .. a : Pending(l)[i] = l.cur[i]
        /\ \A i \in 1 .. b : Pending(l)[a + i] = l.queue[i]
    BY <1>1, PendingParts
  <1>9. /\ \A i \in 1 .. a : Pending(t)[i] = l.cur[i]
        /\ \A i \in 1 .. b - x : Pending(t)[a + i] = l.queue[i + x]
    <2>1. /\ \A i \in 1 .. a : Pending(t)[i] = l.cur[i]
          /\ \A i \in 1 .. Len(t.queue) : Pending(t)[a + i] = t.queue[i]
      BY <1>1, PendingParts
    <2> QED
      BY <1>4, <2>1
  <1> HIDE DEF a, b
  <1>10. ASSUME NEW i \in 1 .. a + (b - x), i <= a
         PROVE  i \in 1 .. a + b /\ Pending(t)[i] = Pending(l)[i]
    BY <1>7, <1>8, <1>9, <1>10
  <1>11. ASSUME NEW i \in 1 .. a + (b - x), ~(i <= a)
         PROVE  i + x \in 1 .. a + b /\ Pending(t)[i] = Pending(l)[i + x]
    <2>1. PICK k \in 1 .. b - x : i = a + k
      <3>1. i - a \in 1 .. b - x /\ i = a + (i - a)
        BY <1>7, <1>11
      <3> QED
        BY <3>1
    <2>2. k + x \in 1 .. b /\ i + x = a + (k + x) /\ i + x \in 1 .. a + b
      BY <1>7, <2>1
    <2> QED
      BY <1>8, <1>9, <2>1, <2>2
  <1> QED
    BY <1>7, <1>10, <1>11 DEF t, x, a

\* A queued command comes after everything pending.
LEMMA PutPending ==
  ASSUME NEW l, LinkOK(l), NEW c \in Commands
  PROVE  Pending(Put(l, c)) = Append(Pending(Trimmed(l)), c)
  <1> DEFINE t == Trimmed(l)
             q == Append(t.queue, c)
             p == Put(l, c)
  <1>1. /\ t \in Links /\ t.cur = l.cur
        /\ p.cur = IF l.cur = <<>> THEN <<Head(q)>> ELSE l.cur
        /\ p.queue = IF l.cur = <<>> THEN Tail(q) ELSE q
    BY TrimmedFields, PutFields
  <1> HIDE DEF t, p
  <1>2. t.queue \in Seq(Commands) /\ t.cur \in Seq(Commands)
    BY <1>1 DEF Links
  <1>3. q \in Seq(Commands) /\ q # <<>>
    BY <1>2, AppendProperties
  <1>4. CASE l.cur = <<>>
    <2>1. Pending(p) = <<Head(q)>> \o Tail(q)
      BY <1>1, <1>4 DEF Pending
    <2>2. <<Head(q)>> \o Tail(q) = q
      <3>1. Len(q) \in Nat /\ Len(q) >= 1
        BY <1>3, EmptySeq
      <3>2. Head(q) = q[1] /\ Tail(q) = SubSeq(q, 2, Len(q))
        BY <1>3, TailIsSubSeq
      <3>3. SubSeq(q, 1, Len(q)) = <<q[1]>> \o SubSeq(q, 2, Len(q))
        BY <1>3, <3>1, SubSeqRecursiveFirst
      <3> QED
        BY <1>3, <3>2, <3>3, SubSeqFull
    <2>3. Pending(t) = t.queue
      BY <1>1, <1>2, <1>4, ConcatEmptySeq DEF Pending
    <2> QED
      BY <2>1, <2>2, <2>3 DEF t, p
  <1>5. CASE l.cur # <<>>
    <2>1. Pending(p) = t.cur \o Append(t.queue, c)
      BY <1>1, <1>5 DEF Pending
    <2>2. <<c>> \in Seq(Commands)
      OBVIOUS
    <2>3. t.cur \o (t.queue \o <<c>>) = (t.cur \o t.queue) \o <<c>>
      <3> DEFINE u == t.cur
                 v == t.queue
                 w == <<c>>
      <3>1. u \in Seq(Commands) /\ v \in Seq(Commands) /\ w \in Seq(Commands)
        BY <1>2, <2>2
      <3> HIDE DEF u, v, w
      <3>2. u \o (v \o w) = (u \o v) \o w
        BY <3>1, ConcatAssociative, SMTT(20)
      <3> QED
        BY <3>2 DEF u, v, w
    <2>4. Append(t.queue, c) = t.queue \o <<c>>
      BY <1>2, AppendIsConcat
    <2>5. Append(Pending(t), c) = Pending(t) \o <<c>>
      BY <1>1, PendingFacts, AppendIsConcat
    <2> QED
      BY <2>1, <2>3, <2>4, <2>5 DEF Pending, t, p
  <1> QED
    BY <1>4, <1>5

----------------------------------------------------------------------------
(***************************************************************************)
(* The link stays in shape.                                                *)
(***************************************************************************)

\* Queueing a command of the manager's own takes one number.
LEMMA EnqueueOK ==
  ASSUME NEW l, LinkOK(l), NEW kind \in Requests \cup {"heartbeat"}
  PROVE  LinkOK(Enqueue(l, kind)) /\ Enqueue(l, kind).next = l.next + 1
  <1> DEFINE n == l.next + 1
             m == [l EXCEPT !.next = n]
             c == FreshCommand(kind, l.next)
  <1>1. l \in Links /\ l.next \in Nat /\ n \in Nat
    BY DEF LinkOK, Links
  <1> HIDE DEF n
  <1>2. m \in Links /\ m.next = n /\ m.cur = l.cur
        /\ m.queue = l.queue /\ m.late = l.late
    BY <1>1 DEF Links
  <1>3. LinkOK(m)
    BY <1>2 DEF LinkOK
  <1>4. c \in Commands /\ c.firstrun
    BY <1>1, FreshCommandType DEF Kinds, FreshCommand
  <1> HIDE DEF m, c
  <1>5. LinkOK(Put(m, c)) /\ Put(m, c).next = m.next
    BY <1>3, <1>4, PutOK, PutFields
  <1> QED
    BY <1>2, <1>5 DEF Enqueue, m, c, n

\* Queueing an answer takes none.
LEMMA ReplyOK ==
  ASSUME NEW l, LinkOK(l)
  PROVE  LinkOK(Reply(l)) /\ Reply(l).next = l.next
  <1> DEFINE c == FreshCommand("reply", 0)
  <1>1. c \in Commands /\ c.firstrun
    BY FreshCommandType DEF Kinds, FreshCommand
  <1> HIDE DEF c
  <1> QED
    BY <1>1, PutOK, PutFields DEF Reply, c

\* The fields of a link whose current command was freed.
LEMMA FreedFields ==
  ASSUME NEW l, LinkOK(l), NEW how \in Fates
  PROVE  LET m == [l EXCEPT !.cur = <<>>, !.late = FALSE,
                            !.fate = Settle(@, Range(l.cur), how)]
         IN  /\ LinkOK(m)
             /\ m.cur = <<>> /\ m.queue = l.queue /\ m.next = l.next
             /\ m.fate = Settle(l.fate, Range(l.cur), how)
  <1> DEFINE f == Settle(l.fate, Range(l.cur), how)
             e == <<>>
             m == [l EXCEPT !.cur = e, !.late = FALSE, !.fate = f]
  <1>1. l \in Links
    BY DEF LinkOK
  <1>2. f \in [Numbers -> Fates] /\ e \in Seq(Commands) /\ Len(e) = 0
    <2>1. l.fate \in [Numbers -> Fates] /\ l.sends \in [Numbers -> Nat]
      BY <1>1 DEF Links
    <2>2. f \in [Numbers -> Fates]
      BY <2>1, MapTypes
    <2>3. e \in Seq(Commands) /\ Len(e) = 0
      OBVIOUS
    <2> QED
      BY <2>2, <2>3
  <1> HIDE DEF f, e
  <1>3. m \in Links /\ m.cur = e /\ m.queue = l.queue /\ m.next = l.next
        /\ m.fate = f
    BY <1>1, <1>2 DEF Links
  <1>4. m.late = FALSE
    BY <1>1 DEF Links
  <1>5. LinkOK(m)
    BY <1>2, <1>3, <1>4 DEF LinkOK
  <1> QED
    BY <1>3, <1>5 DEF f, e

\* A timeout frees the current command or changes nothing.
LEMMA AfterTimeoutOK ==
  ASSUME NEW l, LinkOK(l)
  PROVE  LET m == AfterTimeout(l)
         IN  /\ LinkOK(m) /\ m.queue = l.queue /\ m.next = l.next
             /\ IF Exhausted(l) THEN m.cur = <<>> ELSE m = l
  <1>1. CASE Exhausted(l)
    BY <1>1, FreedFields DEF AfterTimeout, Fates
  <1>2. CASE ~Exhausted(l)
    BY <1>2 DEF AfterTimeout
  <1> QED
    BY <1>1, <1>2

\* An answer frees the current command or changes nothing.
LEMMA AnsweredOK ==
  ASSUME NEW l, LinkOK(l), NEW f
  PROVE  LinkOK(Answered(l, f)) /\ Answered(l, f).next = l.next
  <1>1. CASE \E c \in Range(l.cur) : Numbered(c) /\ Answers(f, c)
    BY <1>1, FreedFields DEF Answered, Fates
  <1>2. CASE ~\E c \in Range(l.cur) : Numbered(c) /\ Answers(f, c)
    BY <1>2 DEF Answered
  <1> QED
    BY <1>1, <1>2

\* Replacing the source flag, or the late flag of a current command.
LEMMA FlagsOK ==
  ASSUME NEW l, LinkOK(l), NEW b \in BOOLEAN
  PROVE  /\ LinkOK([l EXCEPT !.source = b])
         /\ [l EXCEPT !.source = b].next = l.next
         /\ l.cur # <<>> => LinkOK([l EXCEPT !.late = TRUE])
         /\ [l EXCEPT !.late = TRUE].next = l.next
  <1> DEFINE m == [l EXCEPT !.source = b]
             k == [l EXCEPT !.late = TRUE]
  <1>1. l \in Links
    BY DEF LinkOK
  <1>2. /\ m \in Links /\ m.cur = l.cur /\ m.queue = l.queue
        /\ m.late = l.late /\ m.next = l.next
    BY <1>1 DEF Links
  <1>3. /\ k \in Links /\ k.cur = l.cur /\ k.queue = l.queue
        /\ k.next = l.next
    BY <1>1 DEF Links
  <1> HIDE DEF m, k
  <1>4. LinkOK(m)
    BY <1>2 DEF LinkOK
  <1>5. l.cur # <<>> => LinkOK(k)
    BY <1>3 DEF LinkOK
  <1> QED
    BY <1>2, <1>3, <1>4, <1>5 DEF m, k

----------------------------------------------------------------------------
(***************************************************************************)
(* What the write handler leaves.                                          *)
(***************************************************************************)

\* What is left of the pending commands after the first n + 1.
LEMMA RestFacts ==
  ASSUME NEW l, LinkOK(l), NEW n \in Nat, n < Len(Pending(l))
  PROVE  LET p == Pending(l)
             q == SubSeq(p, n + 2, Len(p))
         IN  /\ p[n + 1] \in Commands
             /\ q \in Seq(Commands)
             /\ Len(q) = Len(p) - (n + 1)
             /\ Len(q) <= QueueMax + 1
             /\ \A i \in 1 .. Len(q) : q[i] = p[i + (n + 1)]
             /\ Untried(q)
  <1> DEFINE p == Pending(l)
             q == SubSeq(p, n + 2, Len(p))
             a == Len(l.cur)
             b == Len(l.queue)
             queue == l.queue
  <1>1. /\ l \in Links /\ p \in Seq(Commands) /\ Len(p) = a + b
        /\ a \in Nat /\ b \in Nat /\ a <= 1 /\ b <= QueueMax + 1
        /\ n < a + b
    BY PendingFacts DEF LinkOK
  <1>2. /\ \A i \in 1 .. a + b : p[i] \in Commands
        /\ \A i \in 1 .. a + b :
              p[i] = IF i <= a THEN l.cur[i] ELSE queue[i - a]
    BY <1>1, PendingFacts
  <1>3. \A i \in 1 .. b : queue[i].firstrun
    <2>1. queue \in Seq(Commands) /\ Untried(queue)
      BY <1>1 DEF LinkOK, Links
    <2>2. DOMAIN queue = 1 .. b
      BY <2>1, LenProperties
    <2> QED
      BY <2>1, <2>2 DEF Untried
  <1> HIDE DEF p, a, b, queue
  <1>4. \A i \in n + 2 .. Len(p) : p[i] \in Commands
    BY <1>1, <1>2
  <1>5. /\ q \in Seq(Commands)
        /\ Len(q) = IF n + 2 <= Len(p) THEN Len(p) - (n + 2) + 1 ELSE 0
        /\ \A i \in 1 .. Len(p) - (n + 2) + 1 : q[i] = p[(n + 2) + i - 1]
    <2>1. n + 2 \in Int /\ Len(p) \in Int
      BY <1>1
    <2> QED
      BY <1>1, <1>4, <2>1, SubSeqProperties
  <1> HIDE DEF q
  <1>6. Len(q) = (a + b) - (n + 1) /\ Len(q) \in Nat /\ Len(q) <= QueueMax + 1
    BY <1>1, <1>5, SizesAssumption
  <1>7. ASSUME NEW i \in 1 .. (a + b) - (n + 1)
        PROVE  q[i] = p[i + (n + 1)] /\ q[i].firstrun
    <2>1. /\ i \in 1 .. (a + b) - (n + 2) + 1
          /\ (n + 2) + i - 1 = i + (n + 1)
          /\ i + (n + 1) \in 1 .. a + b
          /\ ~(i + (n + 1) <= a) /\ (i + (n + 1)) - a \in 1 .. b
      BY <1>1
    <2> QED
      BY <1>1, <1>2, <1>3, <1>5, <2>1
  <1>8. DOMAIN q = 1 .. Len(q)
    BY <1>5, LenProperties
  <1>9. Untried(q)
    BY <1>6, <1>7, <1>8 DEF Untried
  <1>10. p[n + 1] \in Commands
    BY <1>1, <1>2
  <1> QED
    BY <1>1, <1>5, <1>6, <1>7, <1>9, <1>10 DEF p, q

\* A transmission, and the writing of some bytes, leave a command.
LEMMA WrittenCommand ==
  ASSUME NEW c \in Commands, NeedsAck(c) => c.retry # 0
  PROVE  /\ Begun(c) \in Commands
         /\ Begun(c).kind = c.kind /\ Begun(c).seq = c.seq
         /\ NeedsAck(c) => /\ Transmitted(c) \in Commands
                           /\ Transmitted(c).kind = c.kind
                           /\ Transmitted(c).seq = c.seq
  <1> DEFINE r == c.retry - 1
             d == [c EXCEPT !.retry = r, !.part = FALSE, !.firstrun = FALSE]
  <1>1. /\ c \in [kind: Kinds, seq: Nat, retry: 0 .. Retries, part: BOOLEAN,
                   firstrun: BOOLEAN]
        /\ c.retry \in 0 .. Retries
    BY DEF Commands
  <1>2. NeedsAck(c) => r \in 0 .. Retries
    BY <1>1 DEF Retries
  <1>3. Begun(c) \in Commands /\ Begun(c).kind = c.kind /\ Begun(c).seq = c.seq
    BY <1>1 DEF Commands, NeedsAck, Begun
  <1>4. Transmitted(c) = d
    BY DEF Transmitted
  <1> HIDE DEF r
  <1>5. NeedsAck(c) => d \in Commands /\ d.kind = c.kind /\ d.seq = c.seq
    BY <1>1, <1>2 DEF Commands, NeedsAck
  <1> QED
    BY <1>3, <1>4, <1>5

\* The handler never comes to a command that has no transmission left.
LEMMA Transmittable ==
  ASSUME NEW k, LinkOK(k), ~Blocked(k),
         NEW i \in 1 .. Len(Pending(AfterTimeout(k))),
         NeedsAck(Pending(AfterTimeout(k))[i])
  PROVE  Pending(AfterTimeout(k))[i].retry # 0
  <1> DEFINE l == AfterTimeout(k)
             c == Pending(l)[i]
  <1>1. LinkOK(l) /\ l \in Links /\ IF Exhausted(k) THEN l.cur = <<>> ELSE l = k
    BY AfterTimeoutOK DEF LinkOK
  <1> HIDE DEF l
  <1>2. /\ c \in Commands /\ Len(l.cur) \in Nat /\ Len(l.queue) \in Nat
        /\ i \in 1 .. Len(l.cur) + Len(l.queue)
        /\ c = IF i <= Len(l.cur) THEN l.cur[i] ELSE l.queue[i - Len(l.cur)]
    BY <1>1, PendingFacts DEF l
  <1>3. l.cur \in Seq(Commands) /\ l.queue \in Seq(Commands)
        /\ Len(l.cur) <= 1 /\ Untried(l.queue)
    BY <1>1 DEF LinkOK, Links
  <1> HIDE DEF c
  <1>4. CASE i <= Len(l.cur)
    <2>1. i = 1 /\ l.cur # <<>> /\ c = l.cur[1] /\ 1 \in DOMAIN l.cur
      BY <1>2, <1>3, <1>4
    <2>2. l = k /\ ~Exhausted(k)
      BY <1>1, <2>1
    <2>3. c \in Range(k.cur)
      BY <2>1, <2>2 DEF Range
    <2> SUFFICES ASSUME c.retry = 0 PROVE FALSE
      BY DEF c, l
    <2>4. ~c.part /\ ~c.firstrun
      BY <1>2 DEF Commands, c, l
    <2>5. Waiting(k)
      BY <2>3, <2>4 DEF Waiting
    <2> QED
      BY <2>1, <2>2, <2>5 DEF Exhausted, Blocked
  <1>5. CASE ~(i <= Len(l.cur))
    <2>1. i - Len(l.cur) \in 1 .. Len(l.queue)
      <3> DEFINE a == Len(l.cur)
                 b == Len(l.queue)
      <3>1. a \in Nat /\ b \in Nat /\ i \in 1 .. a + b /\ ~(i <= a)
        BY <1>2, <1>5
      <3> HIDE DEF a, b
      <3>2. i - a \in 1 .. b
        BY <3>1
      <3> QED
        BY <3>2 DEF a, b
    <2>2. i - Len(l.cur) \in DOMAIN l.queue
      BY <1>3, <2>1, LenProperties
    <2>3. c.firstrun
      BY <1>2, <1>3, <1>5, <2>2 DEF Untried
    <2> QED
      BY <1>2, <2>3 DEF Commands, c, l
  <1> QED
    BY <1>4, <1>5

\* The frames of commands go on the wire.
LEMMA FramesFacts ==
  ASSUME NEW s \in Seq(Commands)
  PROVE  /\ Frames(s) \in Seq([kind: Kinds, seq: Nat])
         /\ Len(Frames(s)) = Len(s)
         /\ \A i \in 1 .. Len(s) : Frames(s)[i] = Frame(s[i])
  <1>1. Len(s) \in Nat /\ DOMAIN s = 1 .. Len(s)
        /\ \A i \in 1 .. Len(s) : s[i] \in Commands
    BY LenProperties, ElementOfSeq
  <1>2. \A i \in 1 .. Len(s) : Frame(s[i]) \in [kind: Kinds, seq: Nat]
    BY <1>1 DEF Commands, Frame
  <1>3. Frames(s) = [i \in 1 .. Len(s) |-> Frame(s[i])]
    BY <1>1 DEF Frames
  <1>4. [i \in 1 .. Len(s) |-> Frame(s[i])] \in Seq([kind: Kinds, seq: Nat])
    BY <1>1, <1>2
  <1>5. DOMAIN Frames(s) = 1 .. Len(s)
    BY <1>3
  <1>6. Len(Frames(s)) = Len(s)
    <2> DEFINE t == Frames(s)
               n == Len(s)
    <2>1. t \in Seq([kind: Kinds, seq: Nat]) /\ DOMAIN t = 1 .. n /\ n \in Nat
      BY <1>1, <1>3, <1>4, <1>5
    <2> HIDE DEF t, n
    <2>2. Len(t) \in Nat /\ DOMAIN t = 1 .. Len(t)
      BY <2>1, LenProperties
    <2> QED
      BY <2>1, <2>2 DEF t, n
  <1>7. \A i \in 1 .. Len(s) : Frames(s)[i] = Frame(s[i])
    BY <1>3
  <1> QED
    BY <1>3, <1>4, <1>6, <1>7

\* Writing out commands keeps the types of the histories.
LEMMA FlushedFields ==
  ASSUME NEW l \in Links, NEW n \in Nat
  PROVE  /\ Flushed(l, n) \in Links
         /\ Flushed(l, n).cur = l.cur /\ Flushed(l, n).queue = l.queue
         /\ Flushed(l, n).next = l.next /\ Flushed(l, n).late = l.late
         /\ \E S : Flushed(l, n).fate = Settle(l.fate, S, "sent")
  <1> DEFINE done == {Pending(l)[i] : i \in 1 .. n}
             f == Settle(l.fate, done, "sent")
             g == Count(l.sends, done)
             m == [l EXCEPT !.fate = f, !.sends = g]
  <1>1. f \in [Numbers -> Fates] /\ g \in [Numbers -> Nat]
    <2>1. l.fate \in [Numbers -> Fates] /\ l.sends \in [Numbers -> Nat]
      BY DEF Links
    <2> QED
      BY <2>1, MapTypes DEF Fates
  <1>2. Flushed(l, n) = m
    BY DEF Flushed
  <1> HIDE DEF f, g
  <1>3. m \in Links /\ m.cur = l.cur /\ m.queue = l.queue
        /\ m.next = l.next /\ m.late = l.late /\ m.fate = f
    BY <1>1 DEF Links
  <1> QED
    BY <1>2, <1>3 DEF f

\* A link with one command current and the rest queued.
LEMMA StoppedAtOK ==
  ASSUME NEW l, LinkOK(l), NEW n \in Nat, n < Len(Pending(l)),
         NEW d \in Commands
  PROVE  LET m == StoppedAt(l, n, d)
         IN  /\ LinkOK(m) /\ m.next = l.next /\ m.cur = <<d>>
             /\ m.queue = SubSeq(Pending(l), n + 2, Len(Pending(l)))
             /\ m.fate = Flushed(l, n).fate /\ m.sends = Flushed(l, n).sends
  <1> DEFINE q == SubSeq(Pending(l), n + 2, Len(Pending(l)))
             x == Flushed(l, n)
             e == <<d>>
             m == [x EXCEPT !.cur = e, !.queue = q]
  <1>1. x \in Links /\ x.next = l.next
    BY FlushedFields DEF LinkOK
  <1>2. q \in Seq(Commands) /\ Len(q) <= QueueMax + 1 /\ Untried(q)
    BY RestFacts
  <1>3. e \in Seq(Commands) /\ Len(e) = 1 /\ e # <<>>
    OBVIOUS
  <1>4. StoppedAt(l, n, d) = m
    BY DEF StoppedAt
  <1> HIDE DEF x, q, e
  <1>5. m \in Links /\ m.next = x.next /\ m.cur = e /\ m.queue = q
        /\ m.fate = x.fate /\ m.sends = x.sends
    BY <1>1, <1>2, <1>3 DEF Links
  <1>6. Len(e) <= 1
    BY <1>3
  <1>7. LinkOK(m)
    BY <1>2, <1>3, <1>5, <1>6 DEF LinkOK
  <1> QED
    BY <1>1, <1>4, <1>5, <1>7 DEF q, x, e

\* The fields WriteShort sets at the end.
LEMMA SetAfterShort ==
  ASSUME NEW l, LinkOK(l), l.cur # <<>>, NEW late \in BOOLEAN,
         NEW source \in BOOLEAN
  PROVE  LET m == [l EXCEPT !.late = late, !.source = source]
         IN  /\ LinkOK(m) /\ m.next = l.next /\ m.fate = l.fate
             /\ m.cur = l.cur /\ m.queue = l.queue
  <1> DEFINE m == [l EXCEPT !.late = late, !.source = source]
  <1>1. l \in Links
    BY DEF LinkOK
  <1>2. /\ m \in Links /\ m.cur = l.cur /\ m.queue = l.queue
        /\ m.next = l.next /\ m.fate = l.fate
    BY <1>1 DEF Links
  <1> HIDE DEF m
  <1>3. LinkOK(m)
    BY <1>2 DEF LinkOK
  <1> QED
    BY <1>2, <1>3 DEF m

\* The fields WriteAwait sets at the end.
LEMMA SetAfterAwait ==
  ASSUME NEW l, LinkOK(l), l.cur # <<>>, NEW late \in BOOLEAN,
         NEW source \in BOOLEAN,
         NEW sends \in [Numbers -> Nat]
  PROVE  LET m == [l EXCEPT !.late = late, !.source = source, !.sends = sends]
         IN  /\ LinkOK(m) /\ m.next = l.next /\ m.fate = l.fate
             /\ m.cur = l.cur /\ m.queue = l.queue
  <1> DEFINE m == [l EXCEPT !.late = late, !.source = source, !.sends = sends]
  <1>1. l \in Links
    BY DEF LinkOK
  <1>2. /\ m \in Links /\ m.cur = l.cur /\ m.queue = l.queue
        /\ m.next = l.next /\ m.fate = l.fate
    BY <1>1 DEF Links
  <1> HIDE DEF m
  <1>3. LinkOK(m)
    BY <1>2 DEF LinkOK
  <1> QED
    BY <1>2, <1>3 DEF m

----------------------------------------------------------------------------
(***************************************************************************)
(* Type correctness.                                                       *)
(***************************************************************************)

\* The wire as TypeOK has it.
Wire == Seq([kind: Kinds, seq: Nat])

\* Frames of a part of the pending commands join the wire.
LEMMA WireGrows ==
  ASSUME NEW l \in Links, NEW n \in 0 .. Len(Pending(l)), NEW w \in Wire
  PROVE  /\ w \o Frames(SubSeq(Pending(l), 1, n)) \in Wire
         /\ w \o Frames(Pending(l)) \in Wire
  <1>1. Pending(l) \in Seq(Commands) /\ Len(Pending(l)) \in Nat
        /\ \A i \in 1 .. Len(Pending(l)) : Pending(l)[i] \in Commands
    BY PendingFacts, LenProperties
  <1>2. SubSeq(Pending(l), 1, n) \in Seq(Commands)
    <2> DEFINE p == Pending(l)
    <2>1. p \in Seq(Commands) /\ n \in 0 .. Len(p) /\ Len(p) \in Nat
          /\ \A i \in 1 .. n : p[i] \in Commands
      BY <1>1
    <2> HIDE DEF p
    <2>2. SubSeq(p, 1, n) \in Seq(Commands)
      BY <2>1, SubSeqProperties
    <2> QED
      BY <2>2 DEF p
  <1>3. /\ Frames(SubSeq(Pending(l), 1, n)) \in Wire
        /\ Frames(Pending(l)) \in Wire
    BY <1>1, <1>2, FramesFacts DEF Wire
  <1> QED
    BY <1>3, ConcatProperties DEF Wire

\* The write handler keeps the types.
LEMMA WriteTypes ==
  ASSUME TypeOK, WriteNothing \/ WriteAll \/ WriteAwait \/ WriteShort
  PROVE  TypeOK'
  <1> DEFINE l == AfterTimeout(link)
             todo == Pending(l)
  <1>1. LinkOK(link) /\ LinkOK(l) /\ l \in Links /\ l.next = link.next
    BY AfterTimeoutOK DEF TypeOK, LinkOK
  <1>2. link.next <= MaxFrames /\ toPmu \in Wire
    BY DEF TypeOK, Wire
  <1>3. todo \in Seq(Commands) /\ Len(todo) \in Nat
    BY <1>1, PendingFacts, LenProperties
  <1> SUFFICES ASSUME TRUE
               PROVE  /\ LinkOK(link') /\ link'.next = link.next
                      /\ toPmu' \in Wire
    BY <1>2 DEF TypeOK, Wire, WriteNothing, WriteAll, WriteAwait, WriteShort
  <1> HIDE DEF l
  <1>4. CASE WriteNothing
    <2>1. PICK keep \in BOOLEAN : link' = [l EXCEPT !.source = keep]
      BY <1>4 DEF WriteNothing, l
    <2>2. toPmu' = toPmu
      BY <1>4 DEF WriteNothing
    <2> QED
      BY <1>1, <1>2, <2>1, <2>2, FlagsOK
  <1>5. CASE WriteAll
    <2> DEFINE x == Flushed(l, Len(todo))
               e == <<>>
               m == [x EXCEPT !.cur = e, !.queue = e, !.late = FALSE,
                              !.source = FALSE]
    <2>1. link' = m /\ toPmu' = toPmu \o Frames(todo)
      BY <1>5 DEF WriteAll, l
    <2>2. x \in Links /\ x.next = link.next
      BY <1>1, <1>3, FlushedFields
    <2>3. e \in Seq(Commands) /\ Len(e) = 0 /\ Untried(e)
      BY DEF Untried
    <2> HIDE DEF x, e
    <2>4. /\ m \in Links /\ m.next = link.next /\ m.cur = e /\ m.queue = e
          /\ m.late = FALSE
      BY <2>2, <2>3 DEF Links
    <2> HIDE DEF m
    <2>5. Len(e) <= 1 /\ Len(e) <= QueueMax + 1
      BY <2>3, SizesAssumption
    <2>6. LinkOK(m)
      BY <2>3, <2>4, <2>5 DEF LinkOK
    <2> QED
      BY <1>1, <1>2, <1>3, <2>1, <2>4, <2>6, WireGrows
  <1>6. CASE WriteAwait
    <2>1. PICK n \in 0 .. Len(todo) - 1 :
            /\ NeedsAck(todo[n + 1])
            /\ link' = [StoppedAt(l, n, Transmitted(todo[n + 1])) EXCEPT
                          !.late = FALSE, !.source = FALSE,
                          !.sends = Count(@, {todo[n + 1]})]
            /\ toPmu' = toPmu \o Frames(SubSeq(todo, 1, n + 1))
      BY <1>6 DEF WriteAwait, l
    <2> DEFINE c == todo[n + 1]
               x == StoppedAt(l, n, Transmitted(c))
               g == Count(x.sends, {c})
    <2>2. n \in Nat /\ n < Len(todo) /\ n + 1 \in 0 .. Len(todo)
          /\ n + 1 \in 1 .. Len(todo)
      BY <1>3
    <2>3. c \in Commands /\ ~Blocked(link)
      BY <1>1, <1>6, <2>2, RestFacts DEF WriteAwait
    <2>4. Transmitted(c) \in Commands
      BY <1>1, <2>1, <2>2, <2>3, Transmittable, WrittenCommand DEF l
    <2>5. LinkOK(x) /\ x.next = l.next /\ x.cur # <<>>
      <3> DEFINE e == Transmitted(c)
      <3>1. e \in Commands /\ n < Len(Pending(l))
        BY <2>2, <2>4
      <3> HIDE DEF e
      <3>2. /\ LinkOK(StoppedAt(l, n, e)) /\ StoppedAt(l, n, e).next = l.next
            /\ StoppedAt(l, n, e).cur = <<e>>
        BY <1>1, <2>2, <3>1, StoppedAtOK
      <3> QED
        BY <3>2 DEF e
    <2> HIDE DEF x
    <2>6. g \in [Numbers -> Nat]
      BY <2>5, MapTypes DEF LinkOK, Links, Fates
    <2>7. link' = [x EXCEPT !.late = FALSE, !.source = FALSE, !.sends = g]
      BY <2>1 DEF x
    <2> HIDE DEF c, g
    <2>8. LinkOK(link') /\ link'.next = l.next
      BY <2>5, <2>6, <2>7, SetAfterAwait
    <2> QED
      BY <1>1, <1>2, <2>1, <2>2, <2>8, WireGrows
  <1>7. CASE WriteShort
    <2> DEFINE d(c, some) == IF some THEN Begun(c) ELSE c
    <2>1. PICK n \in 0 .. Len(todo) - 1, some \in BOOLEAN, again \in BOOLEAN :
            /\ link' = [StoppedAt(l, n, d(todo[n + 1], some)) EXCEPT
                          !.late = @ /\ n = 0 /\ ~some, !.source = again]
            /\ toPmu' = toPmu \o Frames(SubSeq(todo, 1, n))
      BY <1>7 DEF WriteShort, l
    <2> DEFINE c == todo[n + 1]
               e == d(c, some)
               x == StoppedAt(l, n, e)
               b == x.late /\ n = 0 /\ ~some
    <2>2. n \in Nat /\ n < Len(todo) /\ n \in 0 .. Len(todo)
          /\ n + 1 \in 1 .. Len(todo)
      BY <1>3
    <2>3. c \in Commands /\ ~Blocked(link)
      BY <1>1, <1>7, <2>2, RestFacts DEF WriteShort
    <2>4. e \in Commands
      BY <1>1, <2>1, <2>2, <2>3, Transmittable, WrittenCommand DEF l
    <2>5. LinkOK(x) /\ x.next = l.next /\ x.cur # <<>>
      <3>1. n < Len(Pending(l))
        BY <2>2
      <3> HIDE DEF e
      <3>2. /\ LinkOK(StoppedAt(l, n, e)) /\ StoppedAt(l, n, e).next = l.next
            /\ StoppedAt(l, n, e).cur = <<e>>
        BY <1>1, <2>2, <2>4, <3>1, StoppedAtOK
      <3> QED
        BY <3>2
    <2> HIDE DEF x
    <2>6. b \in BOOLEAN /\ x.sends \in [Numbers -> Nat]
      BY <2>5 DEF LinkOK, Links
    <2>7. link' = [x EXCEPT !.late = b, !.source = again] /\ again \in BOOLEAN
      BY <2>1 DEF x
    <2> HIDE DEF c, b
    <2>8. LinkOK(link') /\ link'.next = l.next
      BY <2>5, <2>6, <2>7, SetAfterShort, ZenonT(30)
    <2> QED
      BY <1>1, <1>2, <2>1, <2>2, <2>8, WireGrows
  <1> QED
    BY <1>4, <1>5, <1>6, <1>7

\* What is left of a queue without its head.
LEMMA TailFacts ==
  ASSUME NEW S, NEW s \in Seq(S), s # <<>>
  PROVE  Tail(s) \in Seq(S) /\ Head(s) \in S
  BY HeadTailProperties

\* Reading keeps the types.
LEMMA ReadTypes ==
  ASSUME TypeOK, ReadFrame
  PROVE  TypeOK'
  <1>1. LinkOK(link) /\ link.next <= MaxFrames /\ link.next \in Nat
    BY DEF TypeOK, LinkOK, Links
  <1>2. toHost' \in Seq(Acks \cup Notices)
    BY TailFacts DEF TypeOK, ReadFrame
  <1>3. CASE ReadAck(Head(toHost))
    <2>1. LinkOK(link') /\ link'.next = link.next
      BY <1>1, <1>3, AnsweredOK DEF ReadAck
    <2> QED
      BY <1>1, <1>2, <1>3, <2>1 DEF TypeOK, ReadFrame, ReadAck
  <1>4. CASE ReadNotice(Head(toHost))
    <2> DEFINE l(drift) == IF drift THEN Enqueue(link, "time_sync") ELSE link
    <2>1. PICK drift \in BOOLEAN :
            /\ drift => link.next < MaxFrames
            /\ link' = IF Head(toHost).wants THEN Reply(l(drift)) ELSE l(drift)
      BY <1>4 DEF ReadNotice
    <2>2. LinkOK(l(drift)) /\ l(drift).next <= MaxFrames
      <3>1. CASE drift
        <4>1. "time_sync" \in Requests \cup {"heartbeat"}
          BY RequestsAssumption
        <4>2. /\ LinkOK(Enqueue(link, "time_sync"))
              /\ Enqueue(link, "time_sync").next = link.next + 1
          BY <1>1, <4>1, EnqueueOK
        <4>3. link.next + 1 <= MaxFrames
          BY <1>1, <2>1, <3>1, SizesAssumption
        <4> QED
          BY <3>1, <4>2, <4>3
      <3>2. CASE ~drift
        BY <1>1, <3>2
      <3> QED
        BY <3>1, <3>2
    <2> HIDE DEF l
    <2>3. LinkOK(link') /\ link'.next <= MaxFrames
      BY <2>1, <2>2, ReplyOK
    <2>4. timeSet' \in BOOLEAN
      BY <1>4 DEF ReadNotice
    <2> QED
      BY <1>2, <2>3, <2>4 DEF TypeOK, ReadFrame
  <1> QED
    BY <1>3, <1>4 DEF ReadFrame

\* The timer and the requests keep the types.
LEMMA QueueTypes ==
  ASSUME TypeOK,
         \/ \E stopping, retyped \in BOOLEAN : CheckTimeout(stopping, retyped)
         \/ Expire
         \/ \E kind \in Requests : Request(kind)
  PROVE  TypeOK'
  <1>1. LinkOK(link) /\ link.next <= MaxFrames /\ link.next \in Nat
    BY DEF TypeOK, LinkOK, Links
  <1> SUFFICES LinkOK(link') /\ link'.next <= MaxFrames
    BY DEF TypeOK, CheckTimeout, Expire, Request
  <1>2. ASSUME NEW stopping \in BOOLEAN, NEW retyped \in BOOLEAN,
               CheckTimeout(stopping, retyped)
        PROVE  LinkOK(link') /\ link'.next <= MaxFrames
    <2> DEFINE l == IF stopping THEN link ELSE Enqueue(link, "heartbeat")
               m == IF retyped THEN Enqueue(l, "threshold") ELSE l
               b == m.source \/ NeedsRearm(m)
    <2>1. m.next <= MaxFrames /\ link' = [m EXCEPT !.source = b]
      BY <1>2 DEF CheckTimeout
    <2>2. LinkOK(l)
      BY <1>1, EnqueueOK
    <2> HIDE DEF l
    <2>3. LinkOK(m)
      <3>1. "threshold" \in Requests \cup {"heartbeat"}
        BY RequestsAssumption
      <3> QED
        BY <2>2, <3>1, EnqueueOK
    <2> HIDE DEF m
    <2>4. b \in BOOLEAN
      BY <2>3 DEF LinkOK, Links, NeedsRearm
    <2> HIDE DEF b
    <2> QED
      BY <2>1, <2>3, <2>4, FlagsOK
  <1>3. CASE Expire
    <2>1. link.cur # <<>> /\ link' = [link EXCEPT !.late = TRUE]
      BY <1>3 DEF Expire, Range
    <2> QED
      BY <1>1, <2>1, FlagsOK
  <1>4. ASSUME NEW kind \in Requests, Request(kind)
        PROVE  LinkOK(link') /\ link'.next <= MaxFrames
    <2>1. link.next < MaxFrames /\ link' = Enqueue(link, kind)
      BY <1>4 DEF Request
    <2>2. LinkOK(link') /\ link'.next = link.next + 1
      BY <1>1, <2>1, EnqueueOK
    <2> QED
      BY <1>1, <2>1, <2>2, SizesAssumption
  <1> QED
    BY <1>2, <1>3, <1>4

\* The PMU and the wire keep the types.
LEMMA EnvironmentTypes ==
  ASSUME TypeOK, PmuReceive \/ PmuNotify \/ LoseToPmu \/ LoseToHost
  PROVE  TypeOK'
  <1>1. CASE PmuReceive
    <2> DEFINE f == Head(toPmu)
               g == [type |-> "ack", kind |-> f.kind, seq |-> f.seq]
    <2>1. f \in [kind: Kinds, seq: Nat] /\ toPmu' \in Seq([kind: Kinds, seq: Nat])
      BY <1>1, TailFacts DEF TypeOK, PmuReceive
    <2>2. seen' \subseteq [kind: Kinds, seq: Nat]
      BY <1>1, <2>1 DEF TypeOK, PmuReceive
    <2>3. toHost' \in Seq(Acks \cup Notices)
      <3>1. CASE NeedsAck(f)
        <4>1. g \in Acks \cup Notices
          BY <2>1, <3>1 DEF Acks, NeedsAck
        <4>2. toHost' = Append(toHost, g)
          BY <1>1, <3>1 DEF PmuReceive
        <4> HIDE DEF g
        <4> QED
          BY <4>1, <4>2, AppendProperties DEF TypeOK
      <3>2. CASE ~NeedsAck(f)
        BY <1>1, <3>2 DEF TypeOK, PmuReceive
      <3> QED
        BY <3>1, <3>2
    <2> QED
      BY <1>1, <2>1, <2>2, <2>3 DEF TypeOK, PmuReceive
  <1>2. CASE PmuNotify
    <2>1. notices' \in 0 .. MaxNotices
      BY <1>2, SizesAssumption DEF TypeOK, PmuNotify
    <2>2. toHost' \in Seq(Acks \cup Notices)
      <3>1. PICK f \in Notices : toHost' = Append(toHost, f)
        BY <1>2 DEF PmuNotify
      <3>2. f \in Acks \cup Notices
        OBVIOUS
      <3> QED
        BY <3>1, <3>2, AppendProperties DEF TypeOK
    <2> QED
      BY <1>2, <2>1, <2>2 DEF TypeOK, PmuNotify
  <1>3. CASE LoseToPmu
    BY <1>3, TailFacts DEF TypeOK, LoseToPmu
  <1>4. CASE LoseToHost
    BY <1>4, TailFacts DEF TypeOK, LoseToHost
  <1> QED
    BY <1>1, <1>2, <1>3, <1>4

\* The initial state has its type.
LEMMA InitTypes == Init => TypeOK
  <1> SUFFICES ASSUME Init PROVE TypeOK
    OBVIOUS
  <1> DEFINE e == <<>>
             f == [n \in Numbers |-> "none"]
             g == [n \in Numbers |-> 0]
             m == [cur |-> e, queue |-> e, source |-> FALSE, late |-> FALSE,
                   next |-> 0, fate |-> f, sends |-> g]
  <1>1. link = m
    BY DEF Init
  <1>2. e \in Seq(Commands) /\ Len(e) = 0 /\ Untried(e)
    BY DEF Untried
  <1>3. f \in [Numbers -> Fates] /\ g \in [Numbers -> Nat]
    BY DEF Fates
  <1> HIDE DEF e, f, g
  <1>4. m \in Links
    BY <1>2, <1>3 DEF Links
  <1>5. Len(m.cur) <= 1 /\ Len(m.queue) <= QueueMax + 1
    BY <1>2, SizesAssumption
  <1>6. LinkOK(m)
    BY <1>2, <1>4, <1>5 DEF LinkOK
  <1>7. LinkOK(link) /\ link.next <= MaxFrames
    BY <1>1, <1>6, SizesAssumption
  <1>8. /\ toPmu \in Seq([kind: Kinds, seq: Nat])
        /\ toHost \in Seq(Acks \cup Notices)
    BY DEF Init
  <1> HIDE DEF m
  <1>9. timeSet \in BOOLEAN /\ notices = 0 /\ seen = {}
    BY DEF Init
  <1>10. 0 \in 0 .. MaxNotices
    BY SizesAssumption
  <1> QED
    BY <1>7, <1>8, <1>9, <1>10 DEF TypeOK

\* The link keeps its shape whatever happens: one command is current, the
\* queue stays within its bound, and nothing is left to write of a command
\* that has no transmission left (pcat_pmu_serial_write_data_request,
\* pcat_pmu_serial_write_watch_func).
THEOREM TypeCorrect == Spec => []TypeOK
  <1>1. Init => TypeOK
    BY InitTypes
  <1>2. TypeOK /\ [Next]_vars => TypeOK'
    <2> SUFFICES ASSUME TypeOK, [Next]_vars PROVE TypeOK'
      OBVIOUS
    <2>1. CASE WriteNothing \/ WriteAll \/ WriteAwait \/ WriteShort
      BY <2>1, WriteTypes
    <2>2. CASE ReadFrame
      BY <2>2, ReadTypes
    <2>3. CASE \/ \E stopping, retyped \in BOOLEAN :
                    CheckTimeout(stopping, retyped)
               \/ Expire
               \/ \E kind \in Requests : Request(kind)
      BY <2>3, QueueTypes
    <2>4. CASE PmuReceive \/ PmuNotify \/ LoseToPmu \/ LoseToHost
      BY <2>4, EnvironmentTypes
    <2>5. CASE UNCHANGED vars
      BY <2>5 DEF vars, TypeOK
    <2> QED
      BY <2>1, <2>2, <2>3, <2>4, <2>5 DEF Next
  <1> QED
    BY <1>1, <1>2, PTL DEF Spec

----------------------------------------------------------------------------
(***************************************************************************)
(* What is true of the link between any two steps, said of the pending     *)
(* commands as one sequence p.                                             *)
(***************************************************************************)

\* The transmissions a command is due.
Allowed(c) == IF NeedsAck(c) THEN Retries ELSE 1

\* A pending command has those of its transmissions left that were not made.
Counted(c, sends) ==
  /\ c.firstrun => c.retry = Allowed(c)
  /\ ~NeedsAck(c) => c.retry = 1
  /\ Numbered(c) => sends[c.seq] + c.retry = Allowed(c)

\* A fate goes with a number of transmissions.
Justified(how, s) ==
  /\ how = "gaveup" => s = Retries
  /\ how \in {"none", "dropped"} => s = 0
  /\ how = "sent" => s = 1

\* Command n is one of p; it is one of the k after the first lo.
Holds(p, n) == \E i \in 1 .. Len(p) : Numbered(p[i]) /\ p[i].seq = n
Leaves(p, lo, k, n) ==
  \E i \in lo + 1 .. lo + k : Numbered(p[i]) /\ p[i].seq = n

\* The numbered commands of p are in order, and below next.
Ordered(p, next) ==
  \A i \in 1 .. Len(p) : Numbered(p[i]) =>
    /\ p[i].seq < next
    /\ \A j \in 1 .. Len(p) : i < j /\ Numbered(p[j]) => p[i].seq < p[j].seq

\* The pending commands p agree with the two histories.
Sound(p, next, fate, sends) ==
  /\ Ordered(p, next)
  /\ \A i \in 1 .. Len(p) : Counted(p[i], sends)
  /\ \A n \in Numbers : /\ fate[n] = "none" <=> n >= next
                        /\ fate[n] = "open" <=> Holds(p, n)
                        /\ Justified(fate[n], sends[n])

\* Nothing in p is older than frame f.
Behind(p, next, f) ==
  Numbered(f) =>
    /\ f.seq < next
    /\ \A i \in 1 .. Len(p) : Numbered(p[i]) => f.seq <= p[i].seq

\* The k commands after the first lo of p; q is p without them.
Gone(p, lo, k) == {p[i] : i \in lo + 1 .. lo + k}

Thinned(p, q, lo, k) ==
  /\ q \in Seq(Commands) /\ lo \in Nat /\ k \in Nat
  /\ lo + k <= Len(p) /\ Len(q) = Len(p) - k
  /\ \A i \in 1 .. Len(q) : q[i] = p[IF i <= lo THEN i ELSE i + k]

\* They may meet the fate how; if they are sent, that is a transmission.
MayLeave(p, lo, k, how, sends) ==
  /\ how \in {"sent", "acked", "gaveup", "dropped"}
  /\ \A i \in lo + 1 .. lo + k : Numbered(p[i]) =>
       Justified(how, sends[p[i].seq] + IF how = "sent" THEN 1 ELSE 0)

SendsAfter(sends, S, how) == IF how = "sent" THEN Count(sends, S) ELSE sends

\* A command that joins a link whose next number is nx, and the fates then.
Fresh(c, nx, next) ==
  /\ c \in Commands /\ c.firstrun /\ c.retry = Allowed(c)
  /\ IF Numbered(c) THEN nx < MaxFrames /\ c.seq = nx /\ next = nx + 1
                    ELSE next = nx

Opened(fate, c) == IF Numbered(c) THEN Settle(fate, {c}, "open") ELSE fate

\* q is p but for how far its first command is written.
SameButHead(p, q) ==
  /\ q \in Seq(Commands)
  /\ Len(p) >= 1 /\ Len(q) = Len(p)
  /\ q[1].kind = p[1].kind /\ q[1].seq = p[1].seq
  /\ \A i \in 2 .. Len(p) : q[i] = p[i]

\* Only transmissions of the first command of p are added.
OnlyHead(p, sends, sends2) ==
  \A n \in Numbers :
    sends2[n] = sends[n] \/ (Numbered(p[1]) /\ n = p[1].seq)

\* What Settle and Count do for commands that follow each other.
LEMMA GoneLeaves ==
  ASSUME NEW p, NEW lo, NEW k, NEW n
  PROVE  (\E c \in Gone(p, lo, k) : Numbered(c) /\ c.seq = n)
           <=> Leaves(p, lo, k, n)
  BY DEF Leaves, Gone

LEMMA SettleLeaves ==
  ASSUME NEW p, NEW lo, NEW k, NEW how, NEW fate \in [Numbers -> Fates],
         NEW n \in Numbers
  PROVE  Settle(fate, Gone(p, lo, k), how)[n]
           = IF Leaves(p, lo, k, n) THEN how ELSE fate[n]
  BY GoneLeaves DEF Settle

LEMMA CountLeaves ==
  ASSUME NEW p, NEW lo, NEW k, NEW sends \in [Numbers -> Nat],
         NEW n \in Numbers
  PROVE  Count(sends, Gone(p, lo, k))[n]
           = IF Leaves(p, lo, k, n) THEN sends[n] + 1 ELSE sends[n]
  BY GoneLeaves DEF Count

\* The numbers of pending commands are all different, and below next.
LEMMA NumbersDiffer ==
  ASSUME NEW p \in Seq(Commands), NEW next \in Nat, next <= MaxFrames,
         Ordered(p, next),
         NEW i \in 1 .. Len(p), Numbered(p[i])
  PROVE  /\ p[i].seq \in Numbers /\ p[i].seq < next
         /\ \A j \in 1 .. Len(p) : Numbered(p[j]) =>
              /\ p[i].seq = p[j].seq => i = j
              /\ p[i].seq <= p[j].seq <=> i <= j
  <1>1. Len(p) \in Nat /\ \A j \in 1 .. Len(p) : p[j].seq \in Nat
    BY LenProperties, ElementOfSeq DEF Commands
  <1>2. p[i].seq < next /\ p[i].seq \in Nat
    BY <1>1 DEF Ordered
  <1>3. p[i].seq \in Numbers
    BY <1>2, SizesAssumption DEF Numbers
  <1>4. ASSUME NEW j \in 1 .. Len(p), Numbered(p[j])
        PROVE  /\ i < j => p[i].seq < p[j].seq
               /\ j < i => p[j].seq < p[i].seq
    BY <1>4 DEF Ordered
  <1>5. ASSUME NEW j \in 1 .. Len(p), Numbered(p[j])
        PROVE  /\ p[i].seq = p[j].seq => i = j
               /\ p[i].seq <= p[j].seq <=> i <= j
    BY <1>1, <1>4, <1>5
  <1> QED
    BY <1>2, <1>3, <1>5

\* Commands leave together, with one fate; what stays is sound.
LEMMA RemovalSound ==
  ASSUME NEW p \in Seq(Commands), NEW q, NEW next \in Nat, next <= MaxFrames,
         NEW fate \in [Numbers -> Fates], NEW sends \in [Numbers -> Nat],
         NEW lo, NEW k, NEW how,
         Sound(p, next, fate, sends),
         Thinned(p, q, lo, k),
         MayLeave(p, lo, k, how, sends)
  PROVE  /\ Sound(q, next, Settle(fate, Gone(p, lo, k), how),
                  SendsAfter(sends, Gone(p, lo, k), how))
         /\ \A f : Behind(p, next, f) => Behind(q, next, f)
  <1> DEFINE fate2 == Settle(fate, Gone(p, lo, k), how)
             sends2 == SendsAfter(sends, Gone(p, lo, k), how)
             inc == IF how = "sent" THEN 1 ELSE 0
  <1>a. /\ lo \in Nat /\ k \in Nat /\ q \in Seq(Commands)
        /\ lo + k <= Len(p) /\ Len(q) = Len(p) - k
        /\ \A i \in 1 .. Len(q) : q[i] = p[IF i <= lo THEN i ELSE i + k]
    BY DEF Thinned
  <1>b. \A n \in Numbers :
          /\ fate2[n] = IF Leaves(p, lo, k, n) THEN how ELSE fate[n]
          /\ sends2[n] = IF Leaves(p, lo, k, n) THEN sends[n] + inc ELSE sends[n]
    <2>1. ASSUME NEW n \in Numbers
          PROVE  /\ fate2[n] = IF Leaves(p, lo, k, n) THEN how ELSE fate[n]
                 /\ Count(sends, Gone(p, lo, k))[n]
                      = IF Leaves(p, lo, k, n) THEN sends[n] + 1 ELSE sends[n]
      BY SettleLeaves, CountLeaves
    <2>2. ASSUME NEW n \in Numbers
          PROVE  sends2[n] = IF Leaves(p, lo, k, n) THEN sends[n] + inc
                             ELSE sends[n]
      <3>1. CASE how = "sent"
        BY <2>1, <3>1 DEF SendsAfter
      <3>2. CASE how # "sent"
        <4>1. sends2[n] = sends[n] /\ sends[n] \in Nat /\ inc = 0
          BY <3>2 DEF SendsAfter
        <4> QED BY <4>1
      <3> QED BY <3>1, <3>2
    <2> QED BY <2>1, <2>2
  <1>c. /\ how # "none" /\ how # "open"
        /\ \A i \in lo + 1 .. lo + k :
             Numbered(p[i]) => Justified(how, sends[p[i].seq] + inc)
    BY DEF MayLeave
  <1> HIDE DEF fate2, sends2, inc
  <1> DEFINE m(i) == IF i <= lo THEN i ELSE i + k
  <1>1. Len(p) \in Nat /\ Len(q) \in Nat
    BY <1>a, LenProperties
  <1>2. \A i \in 1 .. Len(q) :
          /\ m(i) \in 1 .. Len(p) /\ m(i) \notin lo + 1 .. lo + k
          /\ q[i] = p[m(i)]
          /\ \A j \in 1 .. Len(q) : i < j => m(i) < m(j)
    BY <1>a, <1>1
  <1>3. \A j \in 1 .. Len(p) : j \notin lo + 1 .. lo + k =>
          \E i \in 1 .. Len(q) : m(i) = j
    <2> SUFFICES ASSUME NEW j \in 1 .. Len(p), j \notin lo + 1 .. lo + k
                 PROVE  \E i \in 1 .. Len(q) : m(i) = j
      OBVIOUS
    <2>1. CASE j <= lo
      <3>1. j \in 1 .. Len(q) /\ m(j) = j
        BY <1>a, <1>1, <2>1
      <3> QED BY <3>1
    <2>2. CASE j > lo + k
      <3>1. j - k \in 1 .. Len(q) /\ m(j - k) = j
        BY <1>a, <1>1, <2>2
      <3> QED BY <3>1
    <2> QED BY <1>a, <1>1, <2>1, <2>2
  <1> HIDE DEF m
  <1>4. Ordered(p, next)
    BY DEF Sound
  <1>5. \A i \in lo + 1 .. lo + k : i \in 1 .. Len(p)
    BY <1>a, <1>1
  <1>6. Ordered(q, next)
    BY <1>2, <1>4 DEF Ordered
  <1>7. ASSUME NEW i \in 1 .. Len(q), Numbered(q[i])
        PROVE  q[i].seq \in Numbers /\ ~Leaves(p, lo, k, q[i].seq)
    <2>1. m(i) \in 1 .. Len(p) /\ m(i) \notin lo + 1 .. lo + k /\ q[i] = p[m(i)]
      BY <1>2
    <2>2. /\ q[i].seq \in Numbers
          /\ \A j \in 1 .. Len(p) : Numbered(p[j]) =>
               (p[m(i)].seq = p[j].seq => m(i) = j)
      BY <1>4, <1>7, <2>1, NumbersDiffer
    <2> QED BY <1>5, <2>1, <2>2 DEF Leaves
  <1>8. ASSUME NEW i \in 1 .. Len(q)
        PROVE  Counted(q[i], sends2)
    <2>1. Counted(q[i], sends)
      BY <1>2 DEF Sound
    <2> QED BY <1>b, <1>7, <2>1 DEF Counted
  <1>9. ASSUME NEW n \in Numbers, Leaves(p, lo, k, n)
        PROVE  n < next /\ Justified(how, sends[n] + inc)
    BY <1>c, <1>4, <1>5, <1>9, NumbersDiffer DEF Leaves
  <1>10. ASSUME NEW n \in Numbers, ~Leaves(p, lo, k, n)
         PROVE  Holds(p, n) <=> Holds(q, n)
    <2>1. ASSUME Holds(p, n) PROVE Holds(q, n)
      <3>1. PICK j \in 1 .. Len(p) : Numbered(p[j]) /\ p[j].seq = n
        BY <2>1 DEF Holds
      <3>2. PICK i \in 1 .. Len(q) : m(i) = j
        BY <1>3, <1>10, <3>1 DEF Leaves
      <3> QED BY <1>2, <3>1, <3>2 DEF Holds
    <2>2. ASSUME Holds(q, n) PROVE Holds(p, n)
      BY <1>2, <2>2 DEF Holds
    <2> QED BY <2>1, <2>2
  <1>11. ASSUME NEW n \in Numbers
         PROVE  /\ fate2[n] = "none" <=> n >= next
                /\ fate2[n] = "open" <=> Holds(q, n)
                /\ Justified(fate2[n], sends2[n])
    <2>1. CASE Leaves(p, lo, k, n)
      <3>1. ~Holds(q, n)
        BY <1>7, <2>1 DEF Holds
      <3>2. n < next /\ Justified(how, sends[n] + inc)
        BY <1>9, <2>1
      <3>3. n \in Int
        BY DEF Numbers
      <3> QED BY <1>b, <1>c, <2>1, <3>1, <3>2, <3>3
    <2>2. CASE ~Leaves(p, lo, k, n)
      BY <1>b, <1>10, <2>2 DEF Sound
    <2> QED BY <2>1, <2>2
  <1>12. \A f : Behind(p, next, f) => Behind(q, next, f)
    BY <1>2 DEF Behind
  <1> QED BY <1>6, <1>8, <1>11, <1>12 DEF Sound, fate2, sends2

\* A fresh command joins at the end, with the next number or with none.
LEMMA AdditionSound ==
  ASSUME NEW p \in Seq(Commands), NEW next \in Nat, next <= MaxFrames,
         NEW fate \in [Numbers -> Fates], NEW sends \in [Numbers -> Nat],
         NEW next2, NEW c,
         Sound(p, next, fate, sends), Fresh(c, next, next2)
  PROVE  /\ Sound(Append(p, c), next2, Opened(fate, c), sends)
         /\ \A f \in [kind: Kinds, seq: Nat] :
              Behind(p, next, f) => Behind(Append(p, c), next2, f)
  <1> DEFINE fate2 == Opened(fate, c)
  <1>a. /\ c \in Commands /\ c.firstrun /\ c.retry = Allowed(c)
        /\ IF Numbered(c)
           THEN /\ next < MaxFrames /\ c.seq = next /\ next2 = next + 1
                /\ \A n \in Numbers :
                     fate2[n] = IF n = next THEN "open" ELSE fate[n]
           ELSE next2 = next /\ fate2 = fate
    BY DEF Fresh, Opened, Settle
  <1> HIDE DEF fate2
  <1> DEFINE q == Append(p, c)
  <1>1. /\ Len(p) \in Nat /\ Len(q) = Len(p) + 1
        /\ \A i \in 1 .. Len(p) : q[i] = p[i]
        /\ q[Len(p) + 1] = c
    BY <1>a, AppendProperties, LenProperties
  <1> HIDE DEF q
  <1>2. \A i \in 1 .. Len(p) : p[i].seq \in Nat
    BY ElementOfSeq DEF Commands
  <1>3. next2 \in Nat /\ next <= next2
    BY <1>a
  <1>4. \A i \in 1 .. Len(q) : i = Len(p) + 1 \/ i \in 1 .. Len(p)
    BY <1>1
  <1>5. Ordered(p, next)
    BY DEF Sound
  <1>6. Ordered(q, next2)
    <2>1. ASSUME NEW i \in 1 .. Len(p), Numbered(q[i])
          PROVE  /\ q[i].seq < next2
                 /\ \A j \in 1 .. Len(q) :
                      i < j /\ Numbered(q[j]) => q[i].seq < q[j].seq
      <3>1. /\ q[i] = p[i] /\ p[i].seq < next /\ p[i].seq \in Nat
            /\ \A j \in 1 .. Len(p) :
                 i < j /\ Numbered(p[j]) => p[i].seq < p[j].seq
        BY <1>1, <1>2, <1>5, <2>1 DEF Ordered
      <3>2. p[i].seq < next2
        BY <1>3, <3>1
      <3>3. Numbered(c) => p[i].seq < c.seq
        BY <1>a, <3>1
      <3> QED BY <1>1, <1>4, <3>1, <3>2, <3>3
    <2>2. ASSUME Numbered(c)
          PROVE  c.seq < next2
      BY <1>a, <2>2
    <2>3. \A j \in 1 .. Len(q) : ~(Len(p) + 1 < j)
      BY <1>1
    <2> QED BY <1>1, <1>4, <2>1, <2>2, <2>3 DEF Ordered
  <1>7. \A i \in 1 .. Len(q) : Counted(q[i], sends)
    <2>1. Counted(c, sends)
      <3>1. CASE Numbered(c)
        <4>1. next \in Numbers
          BY <1>a, <3>1, SizesAssumption DEF Numbers
        <4>2. sends[next] = 0
          BY <4>1 DEF Sound, Justified
        <4>3. c.retry \in Nat
          BY <1>a DEF Allowed, Retries
        <4> QED BY <1>a, <3>1, <4>2, <4>3 DEF Counted, Allowed
      <3>2. CASE ~Numbered(c)
        BY <1>a, <3>2 DEF Counted, Allowed
      <3> QED BY <3>1, <3>2
    <2> QED BY <1>1, <1>4, <2>1 DEF Sound
  <1>8. ASSUME NEW n \in Numbers
        PROVE  Holds(q, n) <=> Holds(p, n) \/ (Numbered(c) /\ n = c.seq)
    <2>1. Len(p) + 1 \in 1 .. Len(q) /\ \A i \in 1 .. Len(p) : i \in 1 .. Len(q)
      BY <1>1
    <2> QED BY <1>1, <1>4, <2>1 DEF Holds
  <1>9. ASSUME NEW n \in Numbers
        PROVE  /\ fate2[n] = "none" <=> n >= next2
               /\ fate2[n] = "open" <=> Holds(q, n)
               /\ Justified(fate2[n], sends[n])
    <2>1. n \in Nat
      BY DEF Numbers
    <2>2. /\ fate[n] = "none" <=> n >= next
          /\ fate[n] = "open" <=> Holds(p, n)
          /\ Justified(fate[n], sends[n])
      BY DEF Sound
    <2>3. CASE Numbered(c)
      BY <1>a, <1>8, <2>1, <2>2, <2>3 DEF Justified
    <2>4. CASE ~Numbered(c)
      BY <1>a, <1>8, <2>2, <2>4
    <2> QED BY <2>3, <2>4
  <1>10. ASSUME NEW f \in [kind: Kinds, seq: Nat], Behind(p, next, f)
         PROVE  Behind(q, next2, f)
    <2> SUFFICES ASSUME Numbered(f)
                 PROVE  /\ f.seq < next2
                        /\ \A i \in 1 .. Len(q) :
                             Numbered(q[i]) => f.seq <= q[i].seq
      BY DEF Behind
    <2>1. /\ f.seq \in Nat /\ f.seq < next
          /\ \A i \in 1 .. Len(p) : Numbered(p[i]) => f.seq <= p[i].seq
      BY <1>10 DEF Behind
    <2>2. f.seq < next2 /\ (Numbered(c) => f.seq <= c.seq)
      BY <1>a, <1>3, <2>1
    <2> QED BY <1>1, <1>4, <2>1, <2>2
  <1> QED BY <1>6, <1>7, <1>9, <1>10 DEF Sound, q, fate2

\* The first command is written to some extent, and stays the first.
LEMMA HeadSound ==
  ASSUME NEW p \in Seq(Commands), NEW q, NEW next \in Nat, next <= MaxFrames,
         NEW fate, NEW sends \in [Numbers -> Nat], NEW sends2,
         Sound(p, next, fate, sends), SameButHead(p, q),
         OnlyHead(p, sends, sends2), Counted(q[1], sends2)
  PROVE  /\ Sound(q, next, fate, sends2)
         /\ \A f : Behind(p, next, f) => Behind(q, next, f)
  <1>a. /\ Len(p) >= 1 /\ Len(q) = Len(p)
        /\ q[1].kind = p[1].kind /\ q[1].seq = p[1].seq
        /\ \A i \in 2 .. Len(p) : q[i] = p[i]
    BY DEF SameButHead
  <1>1. /\ Len(p) \in Nat /\ 1 \in 1 .. Len(p)
        /\ \A i \in 1 .. Len(p) : i = 1 \/ i \in 2 .. Len(p)
    BY <1>a, LenProperties
  <1>2. \A i \in 1 .. Len(p) : /\ q[i].seq = p[i].seq
                               /\ Numbered(q[i]) <=> Numbered(p[i])
    BY <1>a, <1>1 DEF Numbered
  <1>3. Ordered(p, next)
    BY DEF Sound
  <1>4. Ordered(q, next)
    BY <1>a, <1>2, <1>3 DEF Ordered
  <1>5. \A n : Holds(q, n) <=> Holds(p, n)
    BY <1>a, <1>2 DEF Holds
  <1>6. ASSUME NEW i \in 2 .. Len(p) PROVE Counted(q[i], sends2)
    <2>1. i \in 1 .. Len(p) /\ i # 1
      BY <1>1
    <2>2. Counted(p[i], sends) /\ q[i] = p[i]
      BY <1>a, <2>1 DEF Sound
    <2>3. Numbered(p[i]) => sends2[p[i].seq] = sends[p[i].seq]
      BY <1>1, <1>3, <2>1, NumbersDiffer DEF OnlyHead
    <2> QED BY <2>2, <2>3 DEF Counted
  <1>7. \A i \in 1 .. Len(q) : Counted(q[i], sends2)
    BY <1>a, <1>1, <1>6
  <1>8. ASSUME NEW n \in Numbers PROVE Justified(fate[n], sends2[n])
    <2>1. CASE sends2[n] = sends[n]
      BY <2>1 DEF Sound
    <2>2. CASE Numbered(p[1]) /\ n = p[1].seq
      <3>1. fate[n] = "open"
        BY <1>1, <2>2 DEF Sound, Holds
      <3> QED BY <3>1 DEF Justified
    <2> QED BY <2>1, <2>2 DEF OnlyHead
  <1>9. \A f : Behind(p, next, f) => Behind(q, next, f)
    BY <1>a, <1>2 DEF Behind
  <1>10. ASSUME NEW n \in Numbers
         PROVE  /\ fate[n] = "none" <=> n >= next
                /\ fate[n] = "open" <=> Holds(q, n)
    BY <1>5 DEF Sound
  <1> QED BY <1>4, <1>7, <1>8, <1>9, <1>10 DEF Sound

----------------------------------------------------------------------------
(****************************************************************************)
(* Queueing a command keeps a sound link sound.                            *)
(****************************************************************************)

\* A link is sound if its pending commands are.
LinkSound(l) == Sound(Pending(l), l.next, l.fate, l.sends)

\* Frames on the way to the PMU.
Sent == [kind: Kinds, seq: Nat]

\* Link m is link l, next number nx, with more asked for: some of the open
\* commands and of the new ones are dropped, and of all that is still open at
\* most one command is older than a dropped one.
Grew(nx, l, m) ==
  /\ nx <= m.next /\ m.sends = l.sends
  /\ \A n \in Numbers :
       \/ m.fate[n] = l.fate[n] /\ (n < nx \/ n >= m.next)
       \/ nx <= n /\ n < m.next /\ m.fate[n] \in {"open", "dropped"}
       \/ l.fate[n] = "open" /\ m.fate[n] = "dropped"
  /\ \A n, j, k \in Numbers :
       /\ l.fate[n] # "dropped" /\ m.fate[n] = "dropped"
       /\ m.fate[j] = "open" /\ m.fate[k] = "open" /\ j < n /\ k < n
       => j = k

\* Queueing a command keeps a sound link sound, and only asks for more.
LEMMA PutSound ==
  ASSUME NEW l, LinkOK(l), NEW nx \in Nat, nx <= MaxFrames,
         Sound(Pending(l), nx, l.fate, l.sends),
         NEW c, Fresh(c, nx, l.next)
  PROVE  LET m == Put(l, c)
         IN  /\ LinkSound(m)
             /\ Grew(nx, l, m)
             /\ \A f \in Sent :
                  Behind(Pending(l), nx, f) => Behind(Pending(m), m.next, f)
  <1> DEFINE t == Trimmed(l)
             m == Put(l, c)
             p == Pending(l)
             q == Pending(t)
             a == Len(l.cur)
             x == Excess(l)
             D == {l.queue[i] : i \in 1 .. x}
             queue == l.queue
             b == Len(queue)
  <1>0. c \in Commands /\ l.next \in Nat /\ nx <= l.next
    BY DEF Fresh
  <1>1. /\ l \in Links /\ t \in Links /\ t.cur = l.cur /\ t.next = l.next
        /\ t.sends = l.sends /\ t.fate = Settle(l.fate, D, "dropped")
        /\ t.queue = SubSeq(queue, x + 1, b)
        /\ x \in 0 .. b /\ a <= 1
    BY TrimmedFields DEF LinkOK
  <1>2. /\ p \in Seq(Commands) /\ Len(p) = a + b /\ a \in Nat
        /\ queue \in Seq(Commands) /\ b \in Nat /\ DOMAIN queue = 1 .. b
    BY <1>1, PendingFacts, LenProperties DEF Links
  <1>3. \A i \in 1 .. b : p[a + i] = queue[i]
    BY <1>1, PendingParts
  <1>4. q \in Seq(Commands) /\ Len(q) = a + Len(t.queue)
    BY <1>1, PendingFacts
  <1>5. /\ \A i \in 1 .. Len(q) : q[i] = p[IF i <= a THEN i ELSE i + x]
        /\ \A i \in 1 .. Len(q) : (IF i <= a THEN i ELSE i + x) \in 1 .. Len(p)
    BY TrimmedPending
  <1> HIDE DEF t, m, p, q, a, x, queue, b, D
  <1>51. Len(q) = Len(p) - x /\ x \in Nat /\ a + x <= Len(p)
    <2>1. \A i \in x + 1 .. b : queue[i] \in Commands
      BY <1>1, <1>2, ElementOfSeq
    <2>2. Len(t.queue) = b - x
      BY <1>1, <1>2, <2>1, SubSeqProperties
    <2> QED
      BY <1>1, <1>2, <1>4, <2>2
  <1>6. D = Gone(p, a, x)
    <2>1. ASSUME NEW i \in 1 .. x
          PROVE  a + i \in a + 1 .. a + x /\ queue[i] = p[a + i]
      <3>1. i \in 1 .. b /\ a + i \in a + 1 .. a + x
        BY <1>1, <1>2
      <3> QED BY <1>3, <3>1
    <2>2. ASSUME NEW i \in a + 1 .. a + x
          PROVE  i - a \in 1 .. x /\ queue[i - a] = p[i]
      <3>1. i - a \in 1 .. x /\ i - a \in 1 .. b /\ a + (i - a) = i
        BY <1>1, <1>2
      <3> QED BY <1>3, <3>1
    <2>3. \A d : d \in D <=> \E i \in 1 .. x : d = queue[i]
      BY DEF D, queue, x
    <2>4. \A d : d \in Gone(p, a, x) <=> \E i \in a + 1 .. a + x : d = p[i]
      BY DEF Gone
    <2>5. \A d : d \in D <=> d \in Gone(p, a, x)
      BY <2>1, <2>2, <2>3, <2>4
    <2> QED
      BY <2>5
  <1>7. /\ l.fate \in [Numbers -> Fates] /\ l.sends \in [Numbers -> Nat]
        /\ t.fate \in [Numbers -> Fates]
    BY <1>1 DEF Links
  <1>8. \A i \in a + 1 .. a + x : /\ i \in 1 .. Len(p) /\ p[i].firstrun
    <2>1. \A i \in 1 .. b : queue[i].firstrun
      BY <1>1, <1>2 DEF LinkOK, Links, Untried, queue, b
    <2>2. ASSUME NEW i \in a + 1 .. a + x
          PROVE  i \in 1 .. Len(p) /\ i - a \in 1 .. b /\ a + (i - a) = i
      BY <1>1, <1>2
    <2> QED
      BY <1>3, <2>1, <2>2
  <1>9. m.fate = Opened(t.fate, c) /\ m.next = l.next /\ m.sends = l.sends
    BY <1>0, PutFields DEF Opened, m, t
  <1>10. Pending(m) = Append(q, c)
    BY <1>0, PutPending DEF m, t, q
  <1>11. \A n \in Numbers :
           t.fate[n] = IF Leaves(p, a, x, n) THEN "dropped" ELSE l.fate[n]
    BY <1>1, <1>6, <1>7, SettleLeaves
  <1>12. MayLeave(p, a, x, "dropped", l.sends)
    <2> SUFFICES ASSUME NEW i \in a + 1 .. a + x, Numbered(p[i])
                 PROVE  l.sends[p[i].seq] = 0
      BY DEF Justified, MayLeave
    <2>1. Counted(p[i], l.sends) /\ p[i] \in Commands /\ Ordered(p, nx)
      BY <1>2, <1>8, ElementOfSeq DEF Sound, p
    <2>2. p[i].seq \in Numbers
      BY <1>2, <1>8, <2>1, NumbersDiffer
    <2>3. l.sends[p[i].seq] \in Nat
      BY <1>7, <2>2
    <2> QED
      BY <1>8, <2>1, <2>3 DEF Counted, Allowed, Retries
  <1>13. /\ Sound(q, nx, t.fate, l.sends)
         /\ \A f : Behind(p, nx, f) => Behind(q, nx, f)
    <2>1. Thinned(p, q, a, x)
      BY <1>2, <1>4, <1>5, <1>51 DEF Thinned
    <2>2. Sound(p, nx, l.fate, l.sends)
      BY DEF p
    <2>3. SendsAfter(l.sends, Gone(p, a, x), "dropped") = l.sends
      BY DEF SendsAfter
    <2> QED
      BY <1>1, <1>2, <1>6, <1>7, <1>12, <2>1, <2>2, <2>3, RemovalSound
  <1>14. \A n \in Numbers :
           m.fate[n] = IF Numbered(c) /\ n = nx THEN "open" ELSE t.fate[n]
    BY <1>7, <1>9 DEF Settle, Opened, Fresh
  <1>15. /\ Sound(Append(q, c), m.next, m.fate, l.sends)
         /\ \A f \in Sent :
              Behind(q, nx, f) => Behind(Append(q, c), m.next, f)
    <2>1. Fresh(c, nx, m.next)
      BY <1>9
    <2>2. q \in Seq(Commands) /\ l.sends \in [Numbers -> Nat]
          /\ t.fate \in [Numbers -> Fates] /\ Sound(q, nx, t.fate, l.sends)
      BY <1>4, <1>7, <1>13
    <2>3. /\ Sound(Append(q, c), m.next, Opened(t.fate, c), l.sends)
          /\ \A f \in [kind: Kinds, seq: Nat] :
               Behind(q, nx, f) => Behind(Append(q, c), m.next, f)
      BY <2>1, <2>2, AdditionSound
    <2> QED
      BY <1>9, <2>3 DEF Sent
  <1>16. LinkSound(m)
    BY <1>9, <1>10, <1>15 DEF LinkSound
  <1>17. \A f \in Sent : Behind(p, nx, f) => Behind(Pending(m), m.next, f)
    BY <1>10, <1>13, <1>15
  <1>18. \A n \in Numbers :
           \/ m.fate[n] = l.fate[n] /\ (n < nx \/ n >= m.next)
           \/ nx <= n /\ n < m.next /\ m.fate[n] \in {"open", "dropped"}
           \/ l.fate[n] = "open" /\ m.fate[n] = "dropped"
    <2> SUFFICES ASSUME NEW n \in Numbers
                 PROVE  \/ m.fate[n] = l.fate[n] /\ (n < nx \/ n >= m.next)
                        \/ nx <= n /\ n < m.next
                             /\ m.fate[n] \in {"open", "dropped"}
                        \/ l.fate[n] = "open" /\ m.fate[n] = "dropped"
      OBVIOUS
    <2>1. n \in Nat
      BY DEF Numbers
    <2>2. Leaves(p, a, x, n) => l.fate[n] = "open"
      BY <1>8 DEF Leaves, Sound, Holds, p
    <2>3. l.fate[n] = "none" <=> n >= nx
      BY DEF Sound
    <2> QED
      BY <1>0, <1>9, <1>11, <1>14, <2>1, <2>2, <2>3 DEF Fresh
  <1>19. ASSUME NEW n \in Numbers, NEW j \in Numbers, NEW k \in Numbers,
                l.fate[n] # "dropped", m.fate[n] = "dropped",
                m.fate[j] = "open", m.fate[k] = "open", j < n, k < n
         PROVE  j = k
    <2>1. n \in Nat /\ j \in Nat /\ k \in Nat
      BY DEF Numbers
    <2>2. Leaves(p, a, x, n) /\ n < nx
      <3>1. l.fate[n] = "none" <=> n >= nx
        BY DEF Sound
      <3>2. Leaves(p, a, x, n)
        BY <1>9, <1>11, <1>14, <1>19
      <3>3. l.fate[n] = "open"
        BY <1>8, <3>2 DEF Leaves, Sound, Holds, p
      <3> QED BY <2>1, <3>1, <3>2, <3>3
    <2>3. PICK i \in a + 1 .. a + x : Numbered(p[i]) /\ p[i].seq = n
      BY <2>2 DEF Leaves
    <2>4. ASSUME NEW h \in Numbers, m.fate[h] = "open", h < n
          PROVE  h = p[1].seq
      <3>1. h \in Nat /\ h # nx
        BY <2>1, <2>2, <2>4 DEF Numbers
      <3>2. t.fate[h] = "open"
        BY <1>9, <1>14, <2>4, <3>1
      <3>3. PICK d \in 1 .. Len(q) : Numbered(q[d]) /\ q[d].seq = h
        BY <1>13, <3>2 DEF Sound, Holds
      <3> DEFINE e == IF d <= a THEN d ELSE d + x
      <3>4. e \in 1 .. Len(p) /\ p[e] = q[d]
        BY <1>5, <3>3
      <3>5. ~(i <= e)
        <4>1. Ordered(p, nx) /\ i \in 1 .. Len(p)
          BY <1>8, <2>3 DEF Sound, p
        <4>2. p[i].seq <= p[e].seq <=> i <= e
          BY <1>2, <2>3, <3>3, <3>4, <4>1, NumbersDiffer
        <4> QED BY <2>1, <2>3, <2>4, <3>1, <3>3, <3>4, <4>2
      <3>6. d <= a /\ d = 1
        BY <1>1, <1>2, <2>3, <3>5
      <3> QED BY <3>3, <3>4, <3>6
    <2> QED BY <1>19, <2>4
  <1>20. Grew(nx, l, m)
    BY <1>0, <1>9, <1>18, <1>19 DEF Grew
  <1> QED
    BY <1>16, <1>17, <1>20 DEF m, p

\* Nothing that waits in link l is older than frame f.
LEMMA NotOvertakenBehind ==
  ASSUME NEW l, LinkOK(l), NEW f
  PROVE  NotOvertaken(l, f) <=> Behind(Pending(l), l.next, f)
  <1>1. DOMAIN Pending(l) = 1 .. Len(Pending(l))
    BY PendingFacts DEF LinkOK
  <1> QED
    BY <1>1 DEF NotOvertaken, Behind

\* A sound link m that was link l before some commands were asked for.
AsksMore(l, m) ==
  /\ LinkOK(m) /\ LinkSound(m)
  /\ Grew(l.next, l, m)
  /\ \A f \in Sent : Behind(Pending(l), l.next, f) =>
                       Behind(Pending(m), m.next, f)

\* Asking for a command of the manager's own, or for an answer.
LEMMA EnqueueSound ==
  ASSUME NEW l, LinkOK(l), LinkSound(l), l.next < MaxFrames,
         NEW kind \in Requests \cup {"heartbeat"}
  PROVE  AsksMore(l, Enqueue(l, kind)) /\ Enqueue(l, kind).next = l.next + 1
  <1> DEFINE n == l.next + 1
             m == [l EXCEPT !.next = n]
             c == FreshCommand(kind, l.next)
  <1>1. l \in Links /\ l.next \in Nat /\ n \in Nat /\ l.next <= MaxFrames
    BY SizesAssumption DEF LinkOK, Links
  <1> HIDE DEF n
  <1>2. m \in Links /\ m.next = n /\ m.cur = l.cur /\ m.queue = l.queue
        /\ m.late = l.late /\ m.fate = l.fate /\ m.sends = l.sends
    BY <1>1 DEF Links
  <1>3. c \in Commands /\ c.firstrun /\ c.retry = Allowed(c) /\ Numbered(c)
        /\ c.seq = l.next
    <2>1. kind \in Kinds /\ kind # "reply"
      BY RequestsAssumption DEF Kinds
    <2> QED
      BY <1>1, <2>1, FreshCommandType
         DEF FreshCommand, Allowed, NeedsAck, Numbered
  <1> HIDE DEF m, c
  <1>4. LinkOK(m) /\ Pending(m) = Pending(l)
    BY <1>2 DEF LinkOK, Pending
  <1>5. Fresh(c, l.next, m.next)
    BY <1>2, <1>3 DEF Fresh, n
  <1>6. Sound(Pending(m), l.next, m.fate, m.sends)
    BY <1>2, <1>4 DEF LinkSound
  <1>7. /\ LinkSound(Put(m, c)) /\ Grew(l.next, m, Put(m, c))
        /\ \A f \in Sent : Behind(Pending(m), l.next, f)
             => Behind(Pending(Put(m, c)), Put(m, c).next, f)
    BY <1>1, <1>4, <1>5, <1>6, PutSound
  <1>8. LinkOK(Put(m, c)) /\ Put(m, c).next = m.next
    BY <1>3, <1>4, PutOK, PutFields
  <1>9. Grew(l.next, l, Put(m, c))
    BY <1>2, <1>7 DEF Grew
  <1> QED
    BY <1>2, <1>4, <1>7, <1>8, <1>9 DEF Enqueue, m, c, n, AsksMore

\* The same for an answer, which takes no number.
LEMMA ReplySound ==
  ASSUME NEW l, LinkOK(l), LinkSound(l), l.next <= MaxFrames
  PROVE  AsksMore(l, Reply(l)) /\ Reply(l).next = l.next
  <1> DEFINE c == FreshCommand("reply", 0)
  <1>1. l.next \in Nat
    BY DEF LinkOK, Links
  <1>2. c \in Commands /\ c.firstrun /\ c.retry = Allowed(c) /\ ~Numbered(c)
    <2>1. "reply" \in Kinds /\ "reply" \notin Requests
      BY RequestsAssumption DEF Kinds
    <2> QED
      BY <2>1, FreshCommandType
         DEF FreshCommand, Allowed, NeedsAck, Numbered
  <1> HIDE DEF c
  <1>3. Fresh(c, l.next, l.next)
    BY <1>2 DEF Fresh
  <1>4. /\ LinkSound(Put(l, c)) /\ Grew(l.next, l, Put(l, c))
        /\ \A f \in Sent : Behind(Pending(l), l.next, f)
             => Behind(Pending(Put(l, c)), Put(l, c).next, f)
    BY <1>1, <1>3, PutSound DEF LinkSound
  <1>5. LinkOK(Put(l, c)) /\ Put(l, c).next = l.next
    BY <1>2, PutOK, PutFields
  <1> QED
    BY <1>4, <1>5 DEF Reply, c, AsksMore

\* Asking for nothing; asking twice.
LEMMA AsksNothing ==
  ASSUME NEW l, LinkOK(l), LinkSound(l)
  PROVE  AsksMore(l, l)
  <1>1. l.next \in Nat
    BY DEF LinkOK, Links
  <1>2. \A n \in Numbers : n < l.next \/ n >= l.next
    BY <1>1 DEF Numbers
  <1> QED
    BY <1>1, <1>2 DEF AsksMore, Grew

\* Asking twice is asking for more.
LEMMA AsksTwice ==
  ASSUME NEW l, NEW m, NEW r, LinkOK(l), LinkSound(l),
         AsksMore(l, m), AsksMore(m, r)
  PROVE  AsksMore(l, r)
  <1>1. l.next \in Nat /\ m.next \in Nat /\ r.next \in Nat
    BY DEF LinkOK, Links, AsksMore
  <1>2. l.next <= m.next /\ m.next <= r.next /\ r.sends = l.sends
    BY DEF AsksMore, Grew
  <1>3. ASSUME NEW n \in Numbers
        PROVE  /\ l.fate[n] = "none" <=> n >= l.next
               /\ m.fate[n] = "none" <=> n >= m.next
               /\ r.fate[n] = "none" <=> n >= r.next
    BY DEF AsksMore, LinkSound, Sound
  <1>4. ASSUME NEW n \in Numbers
        PROVE  /\ \/ m.fate[n] = l.fate[n] /\ (n < l.next \/ n >= m.next)
                  \/ l.next <= n /\ n < m.next /\ m.fate[n] \in {"open", "dropped"}
                  \/ l.fate[n] = "open" /\ m.fate[n] = "dropped"
               /\ \/ r.fate[n] = m.fate[n] /\ (n < m.next \/ n >= r.next)
                  \/ m.next <= n /\ n < r.next /\ r.fate[n] \in {"open", "dropped"}
                  \/ m.fate[n] = "open" /\ r.fate[n] = "dropped"
    BY DEF AsksMore, Grew
  <1>5. ASSUME NEW n \in Numbers
        PROVE  \/ r.fate[n] = l.fate[n] /\ (n < l.next \/ n >= r.next)
               \/ l.next <= n /\ n < r.next /\ r.fate[n] \in {"open", "dropped"}
               \/ l.fate[n] = "open" /\ r.fate[n] = "dropped"
    <2>1. n \in Nat
      BY DEF Numbers
    <2> QED
      BY <1>1, <1>2, <1>3, <1>4, <2>1
  <1>6. ASSUME NEW n \in Numbers, NEW j \in Numbers, NEW k \in Numbers,
               l.fate[n] # "dropped", r.fate[n] = "dropped",
               r.fate[j] = "open", r.fate[k] = "open", j < n, k < n
        PROVE  j = k
    <2>1. n \in Nat /\ j \in Nat /\ k \in Nat
      BY DEF Numbers
    <2>2. CASE m.fate[n] # "dropped"
      BY <1>6, <2>2 DEF AsksMore, Grew
    <2>3. CASE m.fate[n] = "dropped"
      <3>1. n < m.next
        BY <1>1, <1>3, <2>1, <2>3
      <3>2. m.fate[j] = "open" /\ m.fate[k] = "open"
        BY <1>1, <1>4, <1>6, <2>1, <3>1
      <3> QED
        BY <1>6, <2>3, <3>2 DEF AsksMore, Grew
    <2> QED
      BY <2>2, <2>3
  <1>7. Grew(l.next, l, r)
    <2>1. l.next <= r.next
      BY <1>1, <1>2
    <2> QED
      BY <1>2, <1>5, <1>6, <2>1 DEF Grew
  <1> QED
    BY <1>7 DEF AsksMore

----------------------------------------------------------------------------
(****************************************************************************)
(* The current command is freed.                                           *)
(****************************************************************************)

\* A sound link m that was link l before the first k pending commands left
\* it with the fate how.
Leave(l, m, k, how) ==
  /\ LinkOK(m) /\ LinkSound(m) /\ m.next = l.next
  /\ Thinned(Pending(l), Pending(m), 0, k)
  /\ \A n \in Numbers :
       m.fate[n] = IF Leaves(Pending(l), 0, k, n) THEN how ELSE l.fate[n]
  /\ m.sends = SendsAfter(l.sends, Gone(Pending(l), 0, k), how)
  /\ \A f : Behind(Pending(l), l.next, f) => Behind(Pending(m), m.next, f)

\* With a current command, it is the first of the pending ones.
LEMMA OneCurrent ==
  ASSUME NEW l, LinkOK(l), l.cur # <<>>
  PROVE  /\ Len(l.cur) = 1 /\ DOMAIN l.cur = 1 .. 1
         /\ Len(Pending(l)) = 1 + Len(l.queue) /\ Len(l.queue) \in Nat
         /\ Pending(l)[1] = l.cur[1]
         /\ \A i \in 1 .. Len(l.queue) : Pending(l)[1 + i] = l.queue[i]
  <1> DEFINE cur == l.cur
             n == Len(cur)
             p == Pending(l)
             queue == l.queue
  <1>1. l \in Links /\ cur \in Seq(Commands) /\ n <= 1
    BY DEF LinkOK, Links
  <1>2. n \in Nat /\ DOMAIN cur = 1 .. n
    BY <1>1, LenProperties
  <1>3. n # 0
    BY <1>1, EmptySeq
  <1>4. n = 1
    <2> HIDE DEF n
    <2> QED BY <1>1, <1>2, <1>3
  <1>5. /\ Len(p) = n + Len(queue) /\ Len(queue) \in Nat
        /\ \A i \in 1 .. n : p[i] = cur[i]
        /\ \A i \in 1 .. Len(queue) : p[n + i] = queue[i]
    BY <1>1, PendingFacts, PendingParts
  <1> HIDE DEF n, p, cur, queue
  <1>6. p[1] = cur[1]
    BY <1>4, <1>5
  <1> QED
    BY <1>2, <1>4, <1>5, <1>6 DEF n, p, cur, queue

\* The current command is freed.
LEMMA FreedSound ==
  ASSUME NEW l, LinkOK(l), LinkSound(l), l.next <= MaxFrames, l.cur # <<>>,
         NEW how \in {"acked", "gaveup"},
         MayLeave(Pending(l), 0, 1, how, l.sends)
  PROVE  LET m == [l EXCEPT !.cur = <<>>, !.late = FALSE,
                            !.fate = Settle(@, Range(l.cur), how)]
         IN  Leave(l, m, 1, how)
  <1> DEFINE m == [l EXCEPT !.cur = <<>>, !.late = FALSE,
                            !.fate = Settle(@, Range(l.cur), how)]
             p == Pending(l)
             q == Pending(m)
             cur == l.cur
             queue == l.queue
  <1>1. /\ LinkOK(m) /\ m.cur = <<>> /\ m.queue = queue /\ m.next = l.next
        /\ m.fate = Settle(l.fate, Range(cur), how)
    BY FreedFields DEF Fates
  <1>2. l \in Links /\ m \in Links /\ m.sends = l.sends
    BY <1>1 DEF LinkOK, Links
  <1>3. /\ l.fate \in [Numbers -> Fates] /\ l.sends \in [Numbers -> Nat]
        /\ cur \in Seq(Commands) /\ queue \in Seq(Commands) /\ l.next \in Nat
    BY <1>2 DEF Links
  <1>4. DOMAIN cur = 1 .. 1
    BY OneCurrent
  <1>5. /\ p \in Seq(Commands) /\ Len(p) = 1 + Len(queue) /\ Len(queue) \in Nat
    BY <1>2, OneCurrent, PendingFacts
  <1>6. /\ p[1] = cur[1]
        /\ \A i \in 1 .. Len(queue) : p[1 + i] = queue[i]
    BY OneCurrent
  <1>7. q = queue
    BY <1>1, <1>3, ConcatEmptySeq DEF Pending
  <1> HIDE DEF m, p, q, cur, queue
  <1>8. Range(cur) = Gone(p, 0, 1)
    BY <1>4, <1>6 DEF Range, Gone
  <1>9. Thinned(p, q, 0, 1)
    <2>1. \A i \in 1 .. Len(q) : q[i] = p[IF i <= 0 THEN i ELSE i + 1]
      BY <1>6, <1>7
    <2> QED
      BY <1>3, <1>5, <1>7, <2>1 DEF Thinned
  <1>10. SendsAfter(l.sends, Gone(p, 0, 1), how) = l.sends
    BY DEF SendsAfter
  <1>11. Sound(p, l.next, l.fate, l.sends) /\ MayLeave(p, 0, 1, how, l.sends)
    BY DEF LinkSound, p
  <1>12. /\ Sound(q, l.next, Settle(l.fate, Gone(p, 0, 1), how), l.sends)
         /\ \A f : Behind(p, l.next, f) => Behind(q, l.next, f)
    BY <1>3, <1>5, <1>9, <1>10, <1>11, RemovalSound
  <1>13. \A n \in Numbers :
           m.fate[n] = IF Leaves(p, 0, 1, n) THEN how ELSE l.fate[n]
    BY <1>1, <1>3, <1>8, SettleLeaves
  <1>14. LinkSound(m)
    BY <1>1, <1>2, <1>8, <1>12 DEF LinkSound, q
  <1>15. m.sends = SendsAfter(l.sends, Gone(p, 0, 1), how)
    BY <1>2, <1>10
  <1>16. Leave(l, m, 1, how)
    BY <1>1, <1>9, <1>12, <1>13, <1>14, <1>15 DEF Leave, p, q
  <1> QED
    BY <1>16 DEF m

\* A timeout lets the current command go, or changes nothing.
LEMMA AfterTimeoutSound ==
  ASSUME NEW l, LinkOK(l), LinkSound(l), l.next <= MaxFrames
  PROVE  LET m == AfterTimeout(l)
         IN  IF Exhausted(l)
             THEN /\ Len(Pending(l)) >= 1 /\ Numbered(Pending(l)[1])
                  /\ Leave(l, m, 1, "gaveup")
             ELSE m = l
  <1>1. CASE ~Exhausted(l)
    BY <1>1 DEF AfterTimeout
  <1>2. CASE Exhausted(l)
    <2>1. l \in Links /\ l.cur \in Seq(Commands)
      BY DEF LinkOK, Links
    <2>2. l.cur # <<>> /\ l.cur[1].retry = 0
      BY <1>2, <2>1 DEF Exhausted, Waiting, Range
    <2>3. Len(Pending(l)) = 1 + Len(l.queue) /\ Len(l.queue) \in Nat
      BY <2>2, OneCurrent
    <2>4. Len(Pending(l)) >= 1 /\ Pending(l)[1] = l.cur[1]
      BY <2>2, <2>3, OneCurrent
    <2>5. Pending(l)[1] \in Commands /\ 1 \in 1 .. Len(Pending(l))
      <3>1. 1 \in 1 .. Len(Pending(l))
        BY <2>3
      <3> QED BY <2>1, <3>1, PendingFacts
    <2>6. Counted(Pending(l)[1], l.sends) /\ Ordered(Pending(l), l.next)
      BY <2>5 DEF LinkSound, Sound
    <2>7. NeedsAck(Pending(l)[1]) /\ Numbered(Pending(l)[1])
      BY <2>2, <2>4, <2>6, RequestsAssumption
         DEF Counted, NeedsAck, Numbered
    <2>8. Pending(l)[1].seq \in Numbers
      BY <2>1, <2>5, <2>6, <2>7, NumbersDiffer, PendingFacts DEF Links
    <2>9. l.sends[Pending(l)[1].seq] = Retries
      <3>1. l.sends[Pending(l)[1].seq] \in Nat
        BY <2>1, <2>8 DEF Links
      <3> QED
        BY <2>2, <2>4, <2>6, <2>7, <3>1 DEF Counted, Allowed, Retries
    <2>10. MayLeave(Pending(l), 0, 1, "gaveup", l.sends)
      <3> SUFFICES ASSUME NEW i \in 0 + 1 .. 0 + 1
                   PROVE  Justified("gaveup", l.sends[Pending(l)[i].seq] + 0)
        BY DEF MayLeave
      <3>1. i = 1
        OBVIOUS
      <3> QED
        BY <2>9, <3>1 DEF Justified, Retries
    <2> QED
      BY <1>2, <2>2, <2>4, <2>7, <2>10, FreedSound DEF AfterTimeout
  <1> QED
    BY <1>1, <1>2

\* An answer lets the current command go, or changes nothing.
LEMMA AnsweredSound ==
  ASSUME NEW l, LinkOK(l), LinkSound(l), l.next <= MaxFrames, NEW f
  PROVE  LET m == Answered(l, f)
         IN  \/ m = l
             \/ /\ Len(Pending(l)) >= 1 /\ Numbered(Pending(l)[1])
                /\ Answers(f, Pending(l)[1])
                /\ Leave(l, m, 1, "acked")
  <1>1. CASE ~\E c \in Range(l.cur) : Numbered(c) /\ Answers(f, c)
    BY <1>1 DEF Answered
  <1>2. CASE \E c \in Range(l.cur) : Numbered(c) /\ Answers(f, c)
    <2>1. l \in Links /\ l.cur \in Seq(Commands)
      BY DEF LinkOK, Links
    <2>2. PICK i \in DOMAIN l.cur : Numbered(l.cur[i]) /\ Answers(f, l.cur[i])
      BY <1>2 DEF Range
    <2>3. l.cur # <<>> /\ i = 1
      <3>1. l.cur # <<>>
        BY <2>2
      <3> QED BY <2>2, <3>1, OneCurrent
    <2>4. Len(Pending(l)) >= 1 /\ Pending(l)[1] = l.cur[1]
      <3>1. Len(Pending(l)) = 1 + Len(l.queue) /\ Len(l.queue) \in Nat
        BY <2>3, OneCurrent
      <3> QED BY <2>3, <3>1, OneCurrent
    <2>5. MayLeave(Pending(l), 0, 1, "acked", l.sends)
      BY DEF MayLeave, Justified
    <2>6. Leave(l, Answered(l, f), 1, "acked")
      BY <1>2, <2>3, <2>5, FreedSound DEF Answered
    <2> QED
      BY <2>2, <2>3, <2>4, <2>6
  <1> QED
    BY <1>1, <1>2

----------------------------------------------------------------------------
(****************************************************************************)
(* What the write handler leaves.                                          *)
(****************************************************************************)

\* The commands of which the first n ask for no answer, when those n were
\* written.
LEMMA FlushedSound ==
  ASSUME NEW l, LinkOK(l), LinkSound(l), l.next <= MaxFrames,
         NEW n \in Nat, n <= Len(Pending(l)), Flows(Pending(l), n)
  PROVE  LET p == Pending(l)
             q == SubSeq(p, n + 1, Len(p))
             x == Flushed(l, n)
         IN  /\ Thinned(p, q, 0, n)
             /\ Sound(q, l.next, x.fate, x.sends)
             /\ \A f : Behind(p, l.next, f) => Behind(q, l.next, f)
             /\ \A k \in Numbers :
                  /\ x.fate[k] = IF Leaves(p, 0, n, k) THEN "sent" ELSE l.fate[k]
                  /\ x.sends[k] = IF Leaves(p, 0, n, k) THEN l.sends[k] + 1
                                  ELSE l.sends[k]
  <1> DEFINE p == Pending(l)
             q == SubSeq(p, n + 1, Len(p))
             x == Flushed(l, n)
             D == {Pending(l)[i] : i \in 1 .. n}
  <1>1. /\ l \in Links /\ l.next \in Nat
        /\ l.fate \in [Numbers -> Fates] /\ l.sends \in [Numbers -> Nat]
    BY DEF LinkOK, Links
  <1>2. /\ p \in Seq(Commands) /\ Len(p) \in Nat
        /\ \A i \in 1 .. Len(p) : p[i] \in Commands
    BY <1>1, PendingFacts, LenProperties
  <1>3. D = Gone(p, 0, n)
    BY DEF Gone
  <1>4. x.fate = Settle(l.fate, D, "sent") /\ x.sends = Count(l.sends, D)
    BY <1>1 DEF Flushed, Links
  <1> HIDE DEF p, x, D
  <1>5. /\ q \in Seq(Commands) /\ Len(q) = Len(p) - n
        /\ \A i \in 1 .. Len(q) : q[i] = p[i + n]
    <2>1. n + 1 \in Int /\ Len(p) \in Int
          /\ \A i \in n + 1 .. Len(p) : p[i] \in Commands
      BY <1>2
    <2>2. /\ q \in Seq(Commands)
          /\ Len(q) = IF n + 1 <= Len(p) THEN Len(p) - (n + 1) + 1 ELSE 0
          /\ \A i \in 1 .. Len(p) - (n + 1) + 1 : q[i] = p[(n + 1) + i - 1]
      BY <1>2, <2>1, SubSeqProperties
    <2> HIDE DEF q
    <2>3. Len(q) = Len(p) - n
      BY <1>2, <2>2 DEF p
    <2>4. \A i \in 1 .. Len(q) : i \in 1 .. Len(p) - (n + 1) + 1
                                 /\ (n + 1) + i - 1 = i + n
      BY <1>2, <2>3
    <2> QED
      BY <2>2, <2>3, <2>4
  <1> HIDE DEF q
  <1>6. Thinned(p, q, 0, n)
    <2>1. \A i \in 1 .. Len(q) : q[i] = p[IF i <= 0 THEN i ELSE i + n]
      BY <1>5
    <2>2. 0 + n <= Len(p)
      BY DEF p
    <2> QED
      BY <1>5, <2>1, <2>2 DEF Thinned
  <1>7. MayLeave(p, 0, n, "sent", l.sends)
    <2> SUFFICES ASSUME NEW i \in 0 + 1 .. 0 + n, Numbered(p[i])
                 PROVE  l.sends[p[i].seq] + 1 = 1
      BY DEF MayLeave, Justified
    <2>1. i \in 1 .. n /\ i \in 1 .. Len(p)
      BY <1>2 DEF p
    <2>2. Counted(p[i], l.sends) /\ Ordered(p, l.next)
      BY <2>1 DEF LinkSound, Sound, p
    <2>3. ~NeedsAck(p[i])
      BY <2>1 DEF Flows, p
    <2>4. p[i].seq \in Numbers
      BY <1>1, <1>2, <2>1, <2>2, NumbersDiffer
    <2>5. l.sends[p[i].seq] \in Nat
      BY <1>1, <2>4
    <2> QED
      BY <2>2, <2>3, <2>5 DEF Counted, Allowed
  <1>8. SendsAfter(l.sends, Gone(p, 0, n), "sent") = x.sends
    BY <1>3, <1>4 DEF SendsAfter
  <1>9. /\ Sound(q, l.next, x.fate, x.sends)
        /\ \A f : Behind(p, l.next, f) => Behind(q, l.next, f)
    <2>1. Sound(p, l.next, l.fate, l.sends)
      BY DEF LinkSound, p
    <2> QED
      BY <1>1, <1>2, <1>3, <1>4, <1>6, <1>7, <1>8, <2>1, RemovalSound
  <1>10. ASSUME NEW k \in Numbers
         PROVE  /\ x.fate[k] = IF Leaves(p, 0, n, k) THEN "sent" ELSE l.fate[k]
                /\ x.sends[k] = IF Leaves(p, 0, n, k) THEN l.sends[k] + 1
                                ELSE l.sends[k]
    BY <1>1, <1>3, <1>4, SettleLeaves, CountLeaves
  <1> QED
    BY <1>6, <1>9, <1>10 DEF p, q, x

\* A sound link m that was link l before its first n pending commands were
\* sent, and perhaps the next one written.
Wrote(l, m, n) ==
  LET p == Pending(l)
      q == Pending(m)
  IN  /\ LinkOK(m) /\ LinkSound(m) /\ m.next = l.next
      /\ n \in 0 .. Len(p) /\ Len(q) = Len(p) - n
      /\ \A i \in 1 .. Len(q) : /\ q[i].kind = p[i + n].kind
                                /\ q[i].seq = p[i + n].seq
      /\ \A k \in Numbers :
           /\ m.fate[k] = IF Leaves(p, 0, n, k) THEN "sent" ELSE l.fate[k]
           /\ IF Leaves(p, 0, n, k) THEN m.sends[k] = l.sends[k] + 1
              ELSE m.sends[k] >= l.sends[k]
      /\ \A f : Behind(p, l.next, f) => Behind(q, m.next, f)

\* The handler stops at command n + 1, which is written to some extent, d.
LEMMA StoppedSound ==
  ASSUME NEW l, LinkOK(l), LinkSound(l), l.next <= MaxFrames,
         NEW n \in Nat, n < Len(Pending(l)), Flows(Pending(l), n),
         NEW m, LinkOK(m), m.next = l.next,
         NEW d, m.cur = <<d>>, d \in Commands,
         d.kind = Pending(l)[n + 1].kind, d.seq = Pending(l)[n + 1].seq,
         m.queue = SubSeq(Pending(l), n + 2, Len(Pending(l))),
         m.fate = Flushed(l, n).fate,
         \A k \in Numbers :
           \/ m.sends[k] = Flushed(l, n).sends[k]
           \/ /\ m.sends[k] = Flushed(l, n).sends[k] + 1
              /\ Numbered(d) /\ k = d.seq,
         Counted(Pending(l)[n + 1], Flushed(l, n).sends) => Counted(d, m.sends)
  PROVE  Wrote(l, m, n)
  <1> DEFINE p == Pending(l)
             q0 == SubSeq(p, n + 1, Len(p))
             q == Pending(m)
             rest == SubSeq(p, n + 2, Len(p))
             x == Flushed(l, n)
             nx == l.next
  <1>1. /\ l \in Links /\ m \in Links /\ nx \in Nat
        /\ l.sends \in [Numbers -> Nat] /\ m.sends \in [Numbers -> Nat]
        /\ x \in Links /\ x.sends \in [Numbers -> Nat]
    BY FlushedFields DEF LinkOK, Links
  <1>2. p \in Seq(Commands) /\ Len(p) \in Nat /\ n < Len(p)
    BY <1>1, PendingFacts, LenProperties
  <1>3. /\ rest \in Seq(Commands) /\ Len(rest) = Len(p) - (n + 1)
        /\ \A i \in 1 .. Len(rest) : rest[i] = p[i + (n + 1)]
    BY RestFacts
  <1>4. /\ Len(q) = 1 + Len(rest) /\ Len(rest) \in Nat /\ q[1] = d
        /\ \A i \in 1 .. Len(rest) : q[1 + i] = rest[i]
    <2>1. m.cur # <<>> /\ m.cur[1] = d /\ m.queue = rest
      OBVIOUS
    <2> HIDE DEF rest, q
    <2>2. /\ Len(Pending(m)) = 1 + Len(m.queue) /\ Len(m.queue) \in Nat
          /\ Pending(m)[1] = m.cur[1]
          /\ \A i \in 1 .. Len(m.queue) : Pending(m)[1 + i] = m.queue[i]
      BY <2>1, OneCurrent
    <2> QED
      BY <2>1, <2>2 DEF q
  <1>5. q \in Seq(Commands)
    BY <1>1, PendingFacts
  <1>6. /\ Thinned(p, q0, 0, n)
        /\ Sound(q0, nx, x.fate, x.sends)
        /\ \A f : Behind(p, nx, f) => Behind(q0, nx, f)
        /\ \A k \in Numbers :
             /\ x.fate[k] = IF Leaves(p, 0, n, k) THEN "sent" ELSE l.fate[k]
             /\ x.sends[k] = IF Leaves(p, 0, n, k) THEN l.sends[k] + 1
                             ELSE l.sends[k]
    <2>1. n <= Len(Pending(l))
      BY <1>2
    <2> QED
      BY <2>1, FlushedSound
  <1>7. /\ d.kind = p[n + 1].kind /\ d.seq = p[n + 1].seq
        /\ Counted(p[n + 1], x.sends) => Counted(d, m.sends)
        /\ \A k \in Numbers :
             \/ m.sends[k] = x.sends[k]
             \/ m.sends[k] = x.sends[k] + 1 /\ Numbered(d) /\ k = d.seq
        /\ m.fate = x.fate
    OBVIOUS
  <1> HIDE DEF p, q, q0, x, rest, nx
  <1>8. /\ q0 \in Seq(Commands) /\ Len(q0) = Len(p) - n
        /\ \A i \in 1 .. Len(q0) : q0[i] = p[i + n]
    <2>1. /\ q0 \in Seq(Commands) /\ Len(q0) = Len(p) - n
          /\ \A i \in 1 .. Len(q0) : q0[i] = p[IF i <= 0 THEN i ELSE i + n]
      BY <1>6 DEF Thinned
    <2>2. ASSUME NEW i \in 1 .. Len(q0) PROVE q0[i] = p[i + n]
      <3>1. ~(i <= 0)
        OBVIOUS
      <3> QED BY <2>1, <3>1
    <2> QED
      BY <2>1, <2>2
  <1>9. 1 \in 1 .. Len(q0) /\ q0[1] = p[n + 1] /\ Len(q0) >= 1 /\ Len(q0) \in Nat
    <2>1. 1 \in 1 .. Len(q0) /\ 1 + n = n + 1
      BY <1>2, <1>8
    <2> QED
      BY <1>2, <1>8, <2>1
  <1>10. SameButHead(q0, q)
    <2>1. ASSUME NEW i \in 2 .. Len(q0) PROVE q[i] = q0[i]
      <3>1. i - 1 \in 1 .. Len(rest) /\ 1 + (i - 1) = i
            /\ (i - 1) + (n + 1) = i + n /\ i \in 1 .. Len(q0)
        <4>1. Len(q0) = Len(p) - n /\ Len(rest) = Len(p) - (n + 1)
          BY <1>3, <1>8
        <4> QED BY <1>2, <4>1
      <3>2. q[i] = rest[i - 1] /\ rest[i - 1] = p[(i - 1) + (n + 1)]
        BY <1>3, <1>4, <3>1
      <3> QED
        BY <1>8, <3>1, <3>2
    <2>2. Len(q) = Len(q0)
      BY <1>2, <1>3, <1>4, <1>8
    <2> QED
      BY <1>4, <1>5, <1>7, <1>9, <2>1, <2>2 DEF SameButHead
  <1>11. Counted(q[1], m.sends)
    BY <1>4, <1>6, <1>7, <1>9 DEF Sound
  <1>12. /\ Sound(q, nx, x.fate, m.sends)
         /\ \A f : Behind(q0, nx, f) => Behind(q, nx, f)
    <2>1. \A k \in Numbers :
            m.sends[k] = x.sends[k] \/ (Numbered(q0[1]) /\ k = q0[1].seq)
      BY <1>7, <1>9 DEF Numbered
    <2>2. nx <= MaxFrames
      BY DEF nx
    <2>3. /\ q0 \in Seq(Commands) /\ x.sends \in [Numbers -> Nat]
          /\ nx \in Nat /\ Sound(q0, nx, x.fate, x.sends)
      BY <1>1, <1>6, <1>8
    <2>4. OnlyHead(q0, x.sends, m.sends)
      BY <2>1 DEF OnlyHead
    <2> QED
      BY <1>10, <1>11, <2>2, <2>3, <2>4, HeadSound
  <1>13. LinkSound(m)
    BY <1>7, <1>12 DEF LinkSound, q, nx
  <1>14. Len(q) = Len(p) - n /\ n \in 0 .. Len(p)
    BY <1>2, <1>8, <1>10 DEF SameButHead
  <1>15. ASSUME NEW i \in 1 .. Len(q)
         PROVE  q[i].kind = p[i + n].kind /\ q[i].seq = p[i + n].seq
    <2>1. i \in 1 .. Len(q0) /\ (i = 1 \/ i \in 2 .. Len(q0))
      BY <1>9, <1>10 DEF SameButHead
    <2>2. q[i].kind = q0[i].kind /\ q[i].seq = q0[i].seq
      BY <1>10, <2>1 DEF SameButHead
    <2> QED
      BY <1>8, <2>1, <2>2
  <1>16. ASSUME NEW k \in Numbers
         PROVE  IF Leaves(p, 0, n, k) THEN m.sends[k] = l.sends[k] + 1
                ELSE m.sends[k] >= l.sends[k]
    <2>1. l.sends[k] \in Nat /\ m.sends[k] \in Nat /\ x.sends[k] \in Nat
      BY <1>1
    <2>2. CASE m.sends[k] = x.sends[k]
      BY <1>6, <2>1, <2>2
    <2>3. CASE m.sends[k] = x.sends[k] + 1 /\ Numbered(d) /\ k = d.seq
      <3>1. ~Leaves(p, 0, n, k)
        <4>1. Ordered(p, nx) /\ nx <= MaxFrames
          BY DEF LinkSound, Sound, p, nx
        <4>2. n + 1 \in 1 .. Len(p) /\ Numbered(p[n + 1]) /\ p[n + 1].seq = k
          BY <1>2, <1>7, <2>3 DEF Numbered
        <4>3. \A j \in 1 .. Len(p) : Numbered(p[j]) =>
                (p[n + 1].seq = p[j].seq => n + 1 = j)
          BY <1>1, <1>2, <4>1, <4>2, NumbersDiffer
        <4>4. \A j \in 0 + 1 .. 0 + n : j \in 1 .. Len(p) /\ n + 1 # j
          BY <1>2
        <4> QED
          BY <4>2, <4>3, <4>4 DEF Leaves
      <3> QED
        BY <1>6, <2>1, <2>3, <3>1
    <2> QED
      BY <1>7, <2>2, <2>3
  <1>17. \A f : Behind(p, nx, f) => Behind(q, nx, f)
    BY <1>6, <1>12
  <1> QED
    BY <1>6, <1>7, <1>13, <1>14, <1>15, <1>16, <1>17 DEF Wrote, p, q, nx

\* Nothing is written: only the source may change.
LEMMA NothingWritten ==
  ASSUME NEW l, LinkOK(l), LinkSound(l), NEW b \in BOOLEAN
  PROVE  Wrote(l, [l EXCEPT !.source = b], 0)
  <1> DEFINE m == [l EXCEPT !.source = b]
  <1>1. l \in Links
    BY DEF LinkOK
  <1>2. LinkOK(m)
    BY FlagsOK
  <1>3. /\ m.cur = l.cur /\ m.queue = l.queue /\ m.next = l.next
        /\ m.fate = l.fate /\ m.sends = l.sends
    BY <1>1 DEF Links
  <1> HIDE DEF m
  <1>4. Pending(m) = Pending(l)
    BY <1>3 DEF Pending
  <1>5. LinkSound(m)
    BY <1>3, <1>4 DEF LinkSound
  <1>6. Len(Pending(l)) \in Nat /\ l.sends \in [Numbers -> Nat]
    BY <1>1, PendingFacts DEF Links
  <1>7. \A k : ~Leaves(Pending(l), 0, 0, k)
    BY DEF Leaves
  <1>8. \A i \in 1 .. Len(Pending(l)) : i + 0 = i
    OBVIOUS
  <1>9. \A k \in Numbers : m.sends[k] >= l.sends[k]
    <2>1. \A k \in Numbers : l.sends[k] \in Nat
      BY <1>6
    <2> QED BY <1>3, <2>1
  <1>10. 0 \in 0 .. Len(Pending(l)) /\ Len(Pending(m)) = Len(Pending(l)) - 0
    BY <1>4, <1>6
  <1>11. Wrote(l, m, 0)
    BY <1>2, <1>3, <1>4, <1>5, <1>7, <1>8, <1>9, <1>10 DEF Wrote
  <1> QED
    BY <1>11 DEF m

\* Everything pending is written and freed.
LEMMA AllWritten ==
  ASSUME NEW l, LinkOK(l), LinkSound(l), l.next <= MaxFrames,
         Flows(Pending(l), Len(Pending(l)))
  PROVE  Wrote(l, [Flushed(l, Len(Pending(l))) EXCEPT
                     !.cur = <<>>, !.queue = <<>>, !.late = FALSE,
                     !.source = FALSE],
               Len(Pending(l)))
  <1> DEFINE n == Len(Pending(l))
             p == Pending(l)
             x == Flushed(l, n)
             e == <<>>
             m == [x EXCEPT !.cur = e, !.queue = e, !.late = FALSE,
                            !.source = FALSE]
             q == SubSeq(p, n + 1, n)
  <1>1. l \in Links /\ p \in Seq(Commands) /\ n \in Nat
    BY PendingFacts, LenProperties DEF LinkOK
  <1>2. x \in Links /\ x.next = l.next /\ x.sends \in [Numbers -> Nat]
    BY <1>1, FlushedFields DEF Links
  <1>3. /\ Sound(q, l.next, x.fate, x.sends)
        /\ \A f : Behind(p, l.next, f) => Behind(q, l.next, f)
        /\ \A k \in Numbers :
             /\ x.fate[k] = IF Leaves(p, 0, n, k) THEN "sent" ELSE l.fate[k]
             /\ x.sends[k] = IF Leaves(p, 0, n, k) THEN l.sends[k] + 1
                             ELSE l.sends[k]
    <2>1. n <= Len(Pending(l)) /\ Flows(Pending(l), n) /\ n \in Nat
      BY <1>1
    <2> HIDE DEF n
    <2>2. Len(p) = n
      BY DEF n
    <2> QED
      BY <2>1, <2>2, FlushedSound
  <1>4. e \in Seq(Commands) /\ Len(e) = 0 /\ Untried(e)
    BY DEF Untried
  <1>5. q = e
    BY <1>1
  <1> HIDE DEF x, e, p, q, n
  <1>6. /\ m \in Links /\ m.next = x.next /\ m.cur = e /\ m.queue = e
        /\ m.late = FALSE /\ m.fate = x.fate /\ m.sends = x.sends
    BY <1>2, <1>4 DEF Links
  <1> HIDE DEF m
  <1>7. Len(e) <= 1 /\ Len(e) <= QueueMax + 1
    BY <1>4, SizesAssumption
  <1>8. LinkOK(m)
    BY <1>4, <1>6, <1>7 DEF LinkOK
  <1>9. Pending(m) = e
    BY <1>4, <1>6, ConcatEmptySeq DEF Pending
  <1>10. LinkSound(m)
    BY <1>2, <1>3, <1>5, <1>6, <1>9 DEF LinkSound
  <1>11. \A k \in Numbers :
           IF Leaves(p, 0, n, k) THEN m.sends[k] = l.sends[k] + 1
           ELSE m.sends[k] >= l.sends[k]
    <2>1. \A k \in Numbers : l.sends[k] \in Nat
      BY <1>1 DEF Links
    <2> QED
      BY <1>3, <1>6, <2>1
  <1>12. Len(e) = n - n /\ n \in 0 .. n /\ \A i \in 1 .. Len(e) : FALSE
    BY <1>1, <1>4
  <1>13. n = Len(p)
    BY DEF n, p
  <1>14. Wrote(l, m, n)
    BY <1>2, <1>3, <1>5, <1>6, <1>8, <1>9, <1>10, <1>11, <1>12, <1>13
       DEF Wrote, p
  <1> QED
    BY <1>14 DEF m, x, e, n

\* The handler stops at command n + 1 without completing it.
LEMMA ShortWritten ==
  ASSUME NEW l, LinkOK(l), LinkSound(l), l.next <= MaxFrames,
         NEW n \in Nat, n < Len(Pending(l)), Flows(Pending(l), n),
         NEW d \in Commands, d \in {Pending(l)[n + 1], Begun(Pending(l)[n + 1])},
         NEW late \in BOOLEAN, NEW again \in BOOLEAN
  PROVE  Wrote(l, [StoppedAt(l, n, d) EXCEPT !.late = late, !.source = again], n)
  <1> DEFINE x == StoppedAt(l, n, d)
             m == [x EXCEPT !.late = late, !.source = again]
             c == Pending(l)[n + 1]
             rest == SubSeq(Pending(l), n + 2, Len(Pending(l)))
             y == Flushed(l, n)
             e == <<d>>
  <1>1. /\ LinkOK(x) /\ x.next = l.next /\ x.cur = e
        /\ x.queue = rest
        /\ x.fate = y.fate /\ x.sends = y.sends
    BY StoppedAtOK
  <1>2. e # <<>>
    OBVIOUS
  <1> HIDE DEF x, rest, y, e
  <1>3. /\ LinkOK(m) /\ m.next = x.next /\ m.cur = x.cur /\ m.queue = x.queue
        /\ m.fate = x.fate
    BY <1>1, <1>2, SetAfterShort, ZenonT(30)
  <1>4. m.sends = x.sends
    BY <1>1 DEF LinkOK, Links
  <1> HIDE DEF m
  <1>5. c \in Commands
    BY RestFacts
  <1>6. d.kind = c.kind /\ d.seq = c.seq
    BY <1>5 DEF Begun, Commands
  <1>7. ASSUME NEW s, Counted(c, s) PROVE Counted(d, s)
    <2>1. d.retry = c.retry /\ (d.firstrun => c.firstrun)
      BY <1>5 DEF Begun, Commands
    <2>2. (NeedsAck(d) <=> NeedsAck(c)) /\ (Numbered(d) <=> Numbered(c))
      BY <1>6 DEF NeedsAck, Numbered
    <2> HIDE DEF c
    <2> QED
      BY <1>6, <1>7, <2>1, <2>2 DEF Counted, Allowed
  <1>8. Counted(c, y.sends) => Counted(d, m.sends)
    BY <1>1, <1>4, <1>7
  <1>9. \A k \in Numbers :
          \/ m.sends[k] = y.sends[k]
          \/ /\ m.sends[k] = y.sends[k] + 1
             /\ Numbered(d) /\ k = d.seq
    BY <1>1, <1>4
  <1>10. /\ LinkOK(m) /\ m.next = l.next /\ m.cur = e /\ m.queue = rest
         /\ m.fate = y.fate
    BY <1>1, <1>3
  <1>11. Wrote(l, m, n)
    BY <1>6, <1>8, <1>9, <1>10, StoppedSound DEF c, rest, y, e
  <1> QED
    BY <1>11 DEF m, x

\* The handler completes command n + 1, which asks for an answer.
LEMMA AwaitWritten ==
  ASSUME NEW l, LinkOK(l), LinkSound(l), l.next <= MaxFrames,
         NEW n \in Nat, n < Len(Pending(l)), Flows(Pending(l), n),
         NeedsAck(Pending(l)[n + 1]), Pending(l)[n + 1].retry # 0
  PROVE  LET c == Pending(l)[n + 1]
             m == [StoppedAt(l, n, Transmitted(c)) EXCEPT
                     !.late = FALSE, !.source = FALSE,
                     !.sends = Count(@, {c})]
         IN  /\ Wrote(l, m, n)
             /\ Numbered(c) /\ m.sends[c.seq] > 0
             /\ m.sends[c.seq] = Flushed(l, n).sends[c.seq] + 1
  <1> DEFINE c == Pending(l)[n + 1]
             d == Transmitted(c)
             x == StoppedAt(l, n, d)
             rest == SubSeq(Pending(l), n + 2, Len(Pending(l)))
             y == Flushed(l, n)
             e == <<d>>
             g == Count(x.sends, {c})
             m == [x EXCEPT !.late = FALSE, !.source = FALSE, !.sends = g]
  <1>1. c \in Commands
    BY RestFacts
  <1>2. d \in Commands /\ d.kind = c.kind /\ d.seq = c.seq
    BY <1>1, WrittenCommand
  <1>3. /\ d.retry = c.retry - 1 /\ ~d.firstrun
        /\ c.retry \in Nat /\ d.retry \in Nat
    BY <1>1, <1>2 DEF Transmitted, Commands
  <1>4. NeedsAck(c) /\ Numbered(c) /\ NeedsAck(d) /\ Numbered(d)
    BY <1>1, <1>2, RequestsAssumption DEF NeedsAck, Numbered
  <1>5. c.seq \in Numbers
    <2> DEFINE p == Pending(l)
    <2>1. /\ l.next \in Nat /\ p \in Seq(Commands) /\ Ordered(p, l.next)
          /\ Len(p) \in Nat /\ l.next <= MaxFrames
      BY PendingFacts, LenProperties DEF LinkOK, Links, LinkSound, Sound
    <2>2. n + 1 \in 1 .. Len(p)
      BY <2>1
    <2> HIDE DEF p
    <2>3. Numbered(p[n + 1])
      BY <1>4 DEF p
    <2>4. p[n + 1].seq \in Numbers
      BY <2>1, <2>2, <2>3, NumbersDiffer
    <2> QED
      BY <2>4 DEF p
  <1> HIDE DEF c, d
  <1>6. /\ LinkOK(x) /\ x.next = l.next /\ x.cur = e
        /\ x.queue = rest
        /\ x.fate = y.fate /\ x.sends = y.sends
    BY <1>2, StoppedAtOK
  <1>7. e # <<>>
    OBVIOUS
  <1> HIDE DEF x, rest, y, e
  <1>8. x.sends \in [Numbers -> Nat] /\ x \in Links
    BY <1>6 DEF LinkOK, Links
  <1>9. g \in [Numbers -> Nat]
    BY <1>8 DEF Count
  <1>10. \A k \in Numbers : g[k] = IF k = c.seq THEN x.sends[k] + 1
                                   ELSE x.sends[k]
    BY <1>4, <1>8 DEF Count
  <1> HIDE DEF g
  <1>11. /\ LinkOK(m) /\ m.next = x.next /\ m.fate = x.fate
         /\ m.cur = x.cur /\ m.queue = x.queue
    BY <1>6, <1>7, <1>9, SetAfterAwait
  <1>12. m.sends = g
    BY <1>8 DEF Links
  <1> HIDE DEF m
  <1>13. \A k \in Numbers :
           \/ m.sends[k] = y.sends[k]
           \/ /\ m.sends[k] = y.sends[k] + 1
              /\ Numbered(d) /\ k = d.seq
    BY <1>2, <1>4, <1>6, <1>10, <1>12
  <1>14. Counted(c, y.sends) => Counted(d, m.sends)
    <2> SUFFICES ASSUME Counted(c, y.sends) PROVE Counted(d, m.sends)
      OBVIOUS
    <2>1. /\ m.sends[c.seq] = y.sends[c.seq] + 1 /\ y.sends[c.seq] \in Nat
      BY <1>5, <1>6, <1>8, <1>10, <1>12
    <2>2. y.sends[c.seq] + c.retry = Retries
      BY <1>4 DEF Counted, Allowed
    <2>3. m.sends[d.seq] + d.retry = Retries
      BY <1>2, <1>3, <2>1, <2>2 DEF Retries
    <2> QED
      BY <1>3, <1>4, <2>3 DEF Counted, Allowed
  <1>15. /\ LinkOK(m) /\ m.next = l.next /\ m.cur = e /\ m.queue = rest
         /\ m.fate = y.fate
    BY <1>6, <1>11
  <1>16. Wrote(l, m, n)
    BY <1>2, <1>13, <1>14, <1>15, StoppedSound DEF c, rest, y, e
  <1>17. m.sends[c.seq] > 0 /\ m.sends[c.seq] = y.sends[c.seq] + 1
    BY <1>5, <1>6, <1>8, <1>10, <1>12
  <1> QED
    BY <1>4, <1>16, <1>17 DEF m, g, x, c, d, y

----------------------------------------------------------------------------
(****************************************************************************)
(* What went to the wire.                                                  *)
(****************************************************************************)

\* Frame f left link l: nothing that waits there is older, and the command
\* was transmitted.
Left(l, f) ==
  Numbered(f) => Behind(Pending(l), l.next, f) /\ l.sends[f.seq] > 0

\* The frames of the wire are in order, and none is older than one of got.
Along(wire, got) ==
  \A i \in 1 .. Len(wire) : Numbered(wire[i]) =>
    /\ \A f \in got : f.seq <= wire[i].seq
    /\ \A j \in 1 .. Len(wire) :
         i < j /\ Numbered(wire[j]) => wire[i].seq <= wire[j].seq

\* What went to the wire left the link in order.
WireSound(l, wire, got) ==
  /\ \A f \in got : Numbered(f) /\ Left(l, f)
  /\ \A i \in 1 .. Len(wire) : Left(l, wire[i])
  /\ Along(wire, got)

\* What is true of every step of a sound link, for the wire.
Onward(l, m) ==
  /\ \A f \in Sent : Behind(Pending(l), l.next, f) =>
                       Behind(Pending(m), m.next, f)
  /\ \A n \in Numbers : l.sends[n] \in Nat /\ m.sends[n] \in Nat
                        /\ l.sends[n] <= m.sends[n]

\* A numbered frame that left the link has the number of a command.
LEMMA LeftNumber ==
  ASSUME NEW l, LinkOK(l), l.next <= MaxFrames, NEW f \in Sent, Numbered(f),
         Behind(Pending(l), l.next, f)
  PROVE  f.seq \in Numbers /\ f.seq < l.next
  <1>1. l.next \in Nat /\ f.seq \in Nat
    BY DEF LinkOK, Links, Sent
  <1> QED
    BY <1>1, SizesAssumption DEF Behind, Numbers

\* A step of the link takes no frame back.
LEMMA OnwardLeft ==
  ASSUME NEW l, LinkOK(l), l.next <= MaxFrames, NEW m, Onward(l, m),
         NEW f \in Sent, Left(l, f)
  PROVE  Left(m, f)
  <1> SUFFICES ASSUME Numbered(f)
               PROVE  Behind(Pending(m), m.next, f) /\ m.sends[f.seq] > 0
    BY DEF Left
  <1>1. Behind(Pending(l), l.next, f) /\ l.sends[f.seq] > 0
    BY DEF Left
  <1>2. f.seq \in Numbers
    BY <1>1, LeftNumber
  <1> QED
    BY <1>1, <1>2 DEF Onward

\* So it leaves the wire in order.
LEMMA OnwardWire ==
  ASSUME NEW l, LinkOK(l), l.next <= MaxFrames, NEW m, Onward(l, m),
         NEW wire \in Wire, NEW got \in SUBSET Sent, WireSound(l, wire, got)
  PROVE  WireSound(m, wire, got)
  <1>1. \A i \in 1 .. Len(wire) : wire[i] \in Sent
    BY ElementOfSeq DEF Wire, Sent
  <1>2. \A i \in 1 .. Len(wire) : Left(m, wire[i])
    BY <1>1, OnwardLeft DEF WireSound
  <1>3. \A f \in got : Numbered(f) /\ Left(m, f)
    BY OnwardLeft DEF WireSound
  <1> QED
    BY <1>2, <1>3 DEF WireSound

\* The steps of the link are such steps.
LEMMA StepsOnward ==
  ASSUME NEW l, LinkOK(l), NEW m
  PROVE  /\ AsksMore(l, m) => Onward(l, m)
         /\ \A k : Leave(l, m, k, "acked") => Onward(l, m)
         /\ \A k : Leave(l, m, k, "gaveup") => Onward(l, m)
         /\ \A n : Wrote(l, m, n) => Onward(l, m)
  <1>1. \A n \in Numbers : l.sends[n] \in Nat
    BY DEF LinkOK, Links
  <1>2. AsksMore(l, m) => Onward(l, m)
    BY <1>1 DEF AsksMore, Grew, Onward
  <1>3. \A k : Leave(l, m, k, "acked") => Onward(l, m)
    BY <1>1 DEF Leave, SendsAfter, Onward
  <1>4. \A k : Leave(l, m, k, "gaveup") => Onward(l, m)
    BY <1>1 DEF Leave, SendsAfter, Onward
  <1>5. ASSUME NEW n, Wrote(l, m, n) PROVE Onward(l, m)
    <2>1. \A k \in Numbers : m.sends[k] \in Nat
      BY <1>5 DEF Wrote, LinkOK, Links
    <2>2. \A k \in Numbers : l.sends[k] <= m.sends[k]
      BY <1>1, <1>5, <2>1 DEF Wrote
    <2>3. \A f : Behind(Pending(l), l.next, f) => Behind(Pending(m), m.next, f)
      BY <1>5 DEF Wrote
    <2> QED
      BY <1>1, <2>1, <2>2, <2>3 DEF Onward
  <1> QED
    BY <1>2, <1>3, <1>4, <1>5

\* The frames of the first k pending commands.
LEMMA PrefixFrames ==
  ASSUME NEW p \in Seq(Commands), NEW k \in 0 .. Len(p)
  PROVE  LET x == Frames(SubSeq(p, 1, k))
         IN  /\ x \in Wire /\ Len(x) = k
             /\ \A i \in 1 .. k : x[i].kind = p[i].kind /\ x[i].seq = p[i].seq
  <1> DEFINE s == SubSeq(p, 1, k)
  <1>1. /\ Len(p) \in Nat /\ \A i \in 1 .. k : p[i] \in Commands
    BY LenProperties, ElementOfSeq
  <1>2. s \in Seq(Commands) /\ Len(s) = k /\ \A i \in 1 .. k : s[i] = p[i]
    BY <1>1, SubSeqProperties
  <1> HIDE DEF s
  <1>3. /\ Frames(s) \in Wire /\ Len(Frames(s)) = k
        /\ \A i \in 1 .. k : Frames(s)[i] = Frame(p[i])
    BY <1>2, FramesFacts DEF Wire
  <1>4. \A i \in 1 .. k : /\ Frames(s)[i].kind = p[i].kind
                          /\ Frames(s)[i].seq = p[i].seq
    BY <1>3 DEF Frame
  <1> QED
    BY <1>3, <1>4 DEF s

\* Frames the handler adds to the wire leave it in order.
LEMMA WrittenWire ==
  ASSUME NEW l, LinkOK(l), LinkSound(l), l.next <= MaxFrames,
         NEW wire \in Wire, NEW got \in SUBSET Sent, WireSound(l, wire, got),
         NEW m, NEW n, Wrote(l, m, n),
         NEW k, k \in {n, n + 1}, k <= Len(Pending(l)),
         k = n + 1 => /\ Numbered(Pending(l)[n + 1])
                      /\ m.sends[Pending(l)[n + 1].seq] > 0
  PROVE  WireSound(m, wire \o Frames(SubSeq(Pending(l), 1, k)), got)
  <1> DEFINE p == Pending(l)
             q == Pending(m)
             x == Frames(SubSeq(p, 1, k))
             w == wire \o x
             a == Len(wire)
  <1>1. /\ p \in Seq(Commands) /\ Len(p) \in Nat /\ l.next \in Nat
        /\ \A i \in 1 .. Len(p) : p[i] \in Commands
    BY PendingFacts, LenProperties DEF LinkOK, Links
  <1>2. /\ n \in 0 .. Len(p) /\ Len(q) = Len(p) - n /\ m.next = l.next
        /\ \A i \in 1 .. Len(q) : /\ q[i].kind = p[i + n].kind
                                  /\ q[i].seq = p[i + n].seq
        /\ \A i \in Numbers :
             IF Leaves(p, 0, n, i) THEN m.sends[i] = l.sends[i] + 1
             ELSE m.sends[i] >= l.sends[i]
    BY DEF Wrote
  <1>3. Ordered(p, l.next)
    BY DEF LinkSound, Sound
  <1>4. k \in 0 .. Len(p)
    BY <1>1, <1>2
  <1>5. Onward(l, m)
    BY StepsOnward
  <1>6. WireSound(m, wire, got)
    BY <1>5, OnwardWire
  <1>7. k = n + 1 => Numbered(p[n + 1]) /\ m.sends[p[n + 1].seq] > 0
    OBVIOUS
  <1>8. \A i \in Numbers : l.sends[i] \in Nat
    BY DEF LinkOK, Links
  <1>9. /\ \A f \in got : Numbered(f) /\ Behind(p, l.next, f)
        /\ \A i \in 1 .. a : Numbered(wire[i]) => Behind(p, l.next, wire[i])
    BY DEF WireSound, Left
  <1> HIDE DEF p, q
  <1>10. /\ x \in Wire /\ Len(x) = k
         /\ \A i \in 1 .. k : x[i].kind = p[i].kind /\ x[i].seq = p[i].seq
    BY <1>1, <1>4, PrefixFrames
  <1> HIDE DEF x
  <1>11. /\ a \in Nat /\ Len(w) = a + k
         /\ \A i \in 1 .. a : w[i] = wire[i]
         /\ \A i \in a + 1 .. a + k : w[i] = x[i - a]
    <2>1. a \in Nat
      BY LenProperties DEF Wire
    <2>2. /\ Len(w) = a + k
          /\ \A i \in 1 .. a + k : w[i] = IF i <= a THEN wire[i] ELSE x[i - a]
      BY <1>10, ConcatProperties DEF Wire
    <2> QED
      BY <1>1, <1>4, <2>1, <2>2
  <1> HIDE DEF w, a
  <1>12. \A i \in a + 1 .. a + k :
           /\ i - a \in 1 .. k /\ i - a \in 1 .. Len(p)
           /\ w[i].kind = p[i - a].kind /\ w[i].seq = p[i - a].seq
           /\ Numbered(w[i]) <=> Numbered(p[i - a])
    <2>1. \A i \in a + 1 .. a + k : i - a \in 1 .. k /\ i - a \in 1 .. Len(p)
      BY <1>1, <1>4, <1>11
    <2> QED
      BY <1>10, <1>11, <2>1 DEF Numbered
  <1>13. ASSUME NEW i \in 1 .. k, Numbered(p[i])
         PROVE  /\ p[i].seq \in Numbers /\ p[i].seq < l.next
                /\ m.sends[p[i].seq] > 0
                /\ \A j \in 1 .. Len(q) : Numbered(q[j]) => p[i].seq <= q[j].seq
                /\ \A j \in 1 .. k : i < j /\ Numbered(p[j]) => p[i].seq <= p[j].seq
    <2>1. i \in 1 .. Len(p)
      BY <1>1, <1>4
    <2>2. /\ p[i].seq \in Numbers /\ p[i].seq < l.next
          /\ \A j \in 1 .. Len(p) : Numbered(p[j]) =>
               (p[i].seq <= p[j].seq <=> i <= j)
      BY <1>1, <1>3, <1>13, <2>1, NumbersDiffer
    <2>3. m.sends[p[i].seq] > 0
      <3>1. CASE i <= n
        <4>1. i \in 0 + 1 .. 0 + n
          BY <1>2, <3>1
        <4>2. Leaves(p, 0, n, p[i].seq)
          BY <1>13, <4>1 DEF Leaves
        <4> QED
          BY <1>2, <1>8, <2>2, <4>2
      <3>2. CASE ~(i <= n)
        <4>1. k = n + 1 /\ i = n + 1
          BY <1>2, <3>2
        <4> QED
          BY <1>7, <4>1
      <3> QED
        BY <3>1, <3>2
    <2>4. ASSUME NEW j \in 1 .. Len(q), Numbered(q[j])
          PROVE  p[i].seq <= q[j].seq
      <3>1. j + n \in 1 .. Len(p) /\ i <= j + n
        BY <1>1, <1>2
      <3>2. Numbered(p[j + n]) /\ q[j].seq = p[j + n].seq
        BY <1>2, <2>4 DEF Numbered
      <3> QED
        BY <2>2, <3>1, <3>2
    <2>5. ASSUME NEW j \in 1 .. k, i < j, Numbered(p[j])
          PROVE  p[i].seq <= p[j].seq
      <3>1. j \in 1 .. Len(p) /\ i <= j
        BY <1>1, <1>4, <2>5
      <3> QED
        BY <2>2, <2>5, <3>1
    <2> QED
      BY <2>2, <2>3, <2>4, <2>5
  <1>14. \A i \in 1 .. Len(w) : i \in 1 .. a \/ i \in a + 1 .. a + k
    BY <1>4, <1>11
  <1>15. \A i \in 1 .. Len(w) : Left(m, w[i])
    <2>1. \A i \in 1 .. a : Left(m, w[i])
      BY <1>6, <1>11 DEF WireSound, a
    <2>2. \A i \in a + 1 .. a + k : Left(m, w[i])
      BY <1>2, <1>12, <1>13 DEF Left, Behind, q
    <2> QED
      BY <1>14, <2>1, <2>2
  <1>16. ASSUME NEW i \in 1 .. Len(w), Numbered(w[i]), NEW f \in got
         PROVE  f.seq <= w[i].seq
    <2>1. CASE i \in 1 .. a
      BY <1>6, <1>11, <1>16, <2>1 DEF WireSound, Along, a
    <2>2. CASE i \in a + 1 .. a + k
      BY <1>9, <1>12, <1>16, <2>2 DEF Behind
    <2> QED
      BY <1>14, <2>1, <2>2
  <1>17. ASSUME NEW i \in 1 .. Len(w), Numbered(w[i]),
                NEW j \in 1 .. Len(w), i < j, Numbered(w[j])
         PROVE  w[i].seq <= w[j].seq
    <2>1. CASE i \in 1 .. a /\ j \in 1 .. a
      BY <1>6, <1>11, <1>17, <2>1 DEF WireSound, Along, a
    <2>2. CASE i \in 1 .. a /\ j \in a + 1 .. a + k
      BY <1>9, <1>11, <1>12, <1>17, <2>2 DEF Behind
    <2>3. CASE i \in a + 1 .. a + k
      <3>1. j \in a + 1 .. a + k /\ i - a < j - a
        BY <1>11, <1>14, <1>17, <2>3
      <3> QED
        BY <1>12, <1>13, <1>17, <2>3, <3>1
    <2> QED
      BY <1>14, <2>1, <2>2, <2>3
  <1>18. \A f \in got : Numbered(f) /\ Left(m, f)
    BY <1>6 DEF WireSound
  <1> QED
    BY <1>15, <1>16, <1>17, <1>18 DEF WireSound, Along, w, x, p

\* The first frame leaves the wire, and the PMU has it or not.
LEMMA WireTail ==
  ASSUME NEW l, NEW wire \in Wire, wire # <<>>,
         NEW got \in SUBSET Sent, WireSound(l, wire, got)
  PROVE  /\ WireSound(l, Tail(wire), got)
         /\ Numbered(Head(wire)) =>
              WireSound(l, Tail(wire), got \cup {Head(wire)})
  <1> DEFINE t == Tail(wire)
             h == Head(wire)
  <1>1. /\ Len(wire) \in Nat /\ Len(t) = Len(wire) - 1 /\ h = wire[1]
        /\ \A i \in 1 .. Len(t) : t[i] = wire[i + 1]
        /\ 1 \in 1 .. Len(wire)
    BY HeadTailProperties, LenProperties, EmptySeq DEF Wire
  <1> HIDE DEF t, h
  <1>2. \A i \in 1 .. Len(t) : i + 1 \in 1 .. Len(wire) /\ 1 < i + 1
    BY <1>1
  <1>3. \A i \in 1 .. Len(t) : Left(l, t[i])
    BY <1>1, <1>2 DEF WireSound
  <1>4. \A i, j \in 1 .. Len(t) :
          i < j /\ Numbered(t[i]) /\ Numbered(t[j]) => t[i].seq <= t[j].seq
    <2> SUFFICES ASSUME NEW i \in 1 .. Len(t), NEW j \in 1 .. Len(t), i < j,
                        Numbered(t[i]), Numbered(t[j])
                 PROVE  t[i].seq <= t[j].seq
      OBVIOUS
    <2>1. i + 1 < j + 1
      BY <1>1
    <2> QED
      BY <1>1, <1>2, <2>1 DEF WireSound, Along
  <1>5. \A i \in 1 .. Len(t) : Numbered(t[i]) => \A f \in got : f.seq <= t[i].seq
    BY <1>1, <1>2 DEF WireSound, Along
  <1>6. Along(t, got)
    BY <1>4, <1>5 DEF Along
  <1>7. Numbered(h) => /\ Left(l, h)
                       /\ \A i \in 1 .. Len(t) : Numbered(t[i]) => h.seq <= t[i].seq
    BY <1>1, <1>2 DEF WireSound, Along
  <1>8. Numbered(h) => Along(t, got \cup {h})
    BY <1>4, <1>5, <1>7 DEF Along
  <1>9. \A f \in got : Numbered(f) /\ Left(l, f)
    BY DEF WireSound
  <1>10. /\ WireSound(l, t, got)
         /\ Numbered(h) => WireSound(l, t, got \cup {h})
    BY <1>3, <1>6, <1>7, <1>8, <1>9 DEF WireSound
  <1> QED
    BY <1>10 DEF t, h

----------------------------------------------------------------------------
(****************************************************************************)
(* The inductive invariant.                                                *)
(****************************************************************************)

\* Quotient and remainder.
LEMMA DivMod ==
  ASSUME NEW a \in Int, NEW m \in Int, m > 0
  PROVE  /\ a - (a % m) = (a \div m) * m
         /\ a % m \in Int /\ a \div m \in Int
  OBVIOUS
\* Different multiples of m are at least m apart.
LEMMA MultiplesApart ==
  ASSUME NEW m \in Int, m > 0, NEW x \in Int, NEW y \in Int, x < y
  PROVE  x * m + m <= y * m
  <1>1. x + 1 <= y
   OBVIOUS
  <1>2. (x+1) * m <= y * m
    BY <1>1
  <1>3. (x+1) * m = x * m + m
    OBVIOUS
  <1>4. x * m \in Int /\ y * m \in Int
    OBVIOUS
  <1> QED BY <1>2, <1>3, <1>4
\* Numbers less than m apart with the same remainder are equal: this is why
\* a frame number of 16 bits tells the commands apart.
LEMMA SameRemainder ==
  ASSUME NEW a \in Int, NEW b \in Int, NEW m \in Int, m > 0,
         a <= b, b - a < m, a % m = b % m
  PROVE  a = b
  <1> DEFINE x == a \div m
             y == b \div m
             r == a % m
  <1>1. /\ x \in Int /\ y \in Int /\ r \in Int
        /\ a - r = x * m /\ b - r = y * m
    BY DivMod
  <1>4. x * m \in Int /\ y * m \in Int
    BY <1>1
  <1> HIDE DEF x, y, r
  <1>2. ~(x < y)
    BY <1>1, <1>4, MultiplesApart
  <1>3. ~(y < x)
    BY <1>1, <1>4, MultiplesApart
  <1>5. x = y
    BY <1>1, <1>2, <1>3
  <1> QED BY <1>1, <1>5

\* The inductive invariant.  The link is sound, what went to the wire left it
\* in order, and what is answered or acknowledged was received.
IInv ==
  /\ LinkSound(link)
  /\ WireSound(link, toPmu, seen)
  /\ AckedWasReceived

\* What the write handler does: n commands of link l leave, k frames go out.
WroteOut(l, n, k) ==
  /\ n \in Nat /\ k \in {n, n + 1} /\ k <= Len(Pending(l))
  /\ Wrote(l, link', n)
  /\ toPmu' = toPmu \o Frames(SubSeq(Pending(l), 1, k))
  /\ k = n + 1 => /\ Numbered(Pending(l)[n + 1])
                  /\ link'.sends[Pending(l)[n + 1].seq] > 0
                  /\ link'.sends[Pending(l)[n + 1].seq]
                       = Flushed(l, n).sends[Pending(l)[n + 1].seq] + 1
  /\ k = n /\ n < Len(Pending(l)) /\ ~Blocked(link) =>
       \E d \in Range(link'.cur) :
         /\ d.seq = Pending(l)[n + 1].seq
         /\ Pending(l)[n + 1].part => d.part

\* The write handler.
WriteStep == WriteNothing \/ WriteAll \/ WriteAwait \/ WriteShort

\* A timeout leaves a sound link sound.
LEMMA AfterTimeoutFacts ==
  ASSUME NEW l, LinkOK(l), LinkSound(l), l.next <= MaxFrames
  PROVE  LET m == AfterTimeout(l)
         IN  LinkOK(m) /\ LinkSound(m) /\ m.next = l.next
  <1>1. CASE Exhausted(l)
    BY <1>1, AfterTimeoutOK, AfterTimeoutSound DEF Leave
  <1>2. CASE ~Exhausted(l)
    BY <1>2, AfterTimeoutOK, AfterTimeoutSound
  <1> QED
    BY <1>1, <1>2

\* Every outcome of the write handler is of that form.
LEMMA WriteSteps ==
  ASSUME TypeOK, LinkSound(link), WriteStep
  PROVE  \E n, k : WroteOut(AfterTimeout(link), n, k)
  <1> DEFINE l == AfterTimeout(link)
             todo == Pending(l)
  <1>1. LinkOK(link) /\ link.next <= MaxFrames /\ toPmu \in Wire
    BY DEF TypeOK, Wire
  <1>2. LinkOK(l) /\ LinkSound(l) /\ l.next <= MaxFrames /\ l \in Links
    BY <1>1, AfterTimeoutFacts DEF LinkOK
  <1>3. todo \in Seq(Commands) /\ Len(todo) \in Nat
    BY <1>2, PendingFacts, LenProperties
  <1>4. CASE WriteNothing
    <2>1. PICK keep \in BOOLEAN : link' = [l EXCEPT !.source = keep]
      BY <1>4 DEF WriteNothing
    <2>2. toPmu' = toPmu \o Frames(SubSeq(todo, 1, 0))
      <3>1. toPmu' = toPmu
        BY <1>4 DEF WriteNothing
      <3> HIDE DEF todo
      <3> DEFINE x == Frames(SubSeq(todo, 1, 0))
      <3>2. x \in Wire /\ Len(x) = 0
        BY <1>3, PrefixFrames
      <3> HIDE DEF x
      <3>3. x = <<>>
        BY <3>2, EmptySeq DEF Wire
      <3>4. toPmu \o <<>> = toPmu
        BY <1>1, ConcatEmptySeq DEF Wire
      <3> QED
        BY <3>1, <3>3, <3>4 DEF x
    <2> HIDE DEF l
    <2>3. Wrote(l, link', 0)
      BY <1>2, <2>1, NothingWritten
    <2>4. Blocked(link) \/ todo = <<>>
      BY <1>4 DEF WriteNothing, l
    <2>5. WroteOut(l, 0, 0)
      <3>1. 0 # 0 + 1 /\ 0 <= Len(todo) /\ (todo = <<>> => ~(0 < Len(todo)))
        BY <1>3
      <3> QED
        BY <2>2, <2>3, <2>4, <3>1 DEF WroteOut
    <2> QED
      BY <2>5 DEF l
  <1>5. CASE WriteAll
    <2> DEFINE n == Len(todo)
    <2>1. /\ Flows(todo, n)
          /\ link' = [Flushed(l, n) EXCEPT
                        !.cur = <<>>, !.queue = <<>>, !.late = FALSE,
                        !.source = FALSE]
          /\ toPmu' = toPmu \o Frames(todo)
      BY <1>5 DEF WriteAll
    <2> HIDE DEF l
    <2>2. Wrote(l, link', n)
      BY <1>2, <2>1, AllWritten
    <2>3. SubSeq(todo, 1, n) = todo
      BY <1>3, SubSeqFull
    <2>4. WroteOut(l, n, n)
      <3>1. n \in Nat /\ n # n + 1 /\ n <= n /\ ~(n < n)
        BY <1>3
      <3> QED
        BY <2>1, <2>2, <2>3, <3>1 DEF WroteOut
    <2> QED
      BY <2>4 DEF l
  <1>6. CASE WriteAwait
    <2>1. PICK n \in 0 .. Len(todo) - 1 :
            /\ Flows(todo, n) /\ NeedsAck(todo[n + 1])
            /\ link' = [StoppedAt(l, n, Transmitted(todo[n + 1])) EXCEPT
                          !.late = FALSE, !.source = FALSE,
                          !.sends = Count(@, {todo[n + 1]})]
            /\ toPmu' = toPmu \o Frames(SubSeq(todo, 1, n + 1))
      BY <1>6 DEF WriteAwait
    <2>2. n \in Nat /\ n < Len(todo) /\ n + 1 \in 1 .. Len(todo)
          /\ n + 1 <= Len(todo)
      BY <1>3
    <2>3. todo[n + 1].retry # 0
      BY <1>1, <1>6, <2>1, <2>2, Transmittable DEF WriteAwait
    <2> HIDE DEF l
    <2>4. /\ Wrote(l, link', n)
          /\ Numbered(todo[n + 1]) /\ link'.sends[todo[n + 1].seq] > 0
          /\ link'.sends[todo[n + 1].seq]
               = Flushed(l, n).sends[todo[n + 1].seq] + 1
      BY <1>2, <2>1, <2>2, <2>3, AwaitWritten
    <2>5. WroteOut(l, n, n + 1)
      <3>1. n + 1 # n
        BY <2>2
      <3> QED
        BY <2>1, <2>2, <2>4, <3>1 DEF WroteOut
    <2> QED
      BY <2>5 DEF l
  <1>7. CASE WriteShort
    <2> DEFINE e(n, some) == IF some THEN Begun(todo[n + 1]) ELSE todo[n + 1]
    <2>1. PICK n \in 0 .. Len(todo) - 1, some \in BOOLEAN, again \in BOOLEAN :
            /\ Flows(todo, n)
            /\ link' = [StoppedAt(l, n, e(n, some)) EXCEPT
                          !.late = @ /\ n = 0 /\ ~some, !.source = again]
            /\ toPmu' = toPmu \o Frames(SubSeq(todo, 1, n))
      BY <1>7 DEF WriteShort
    <2> DEFINE d == e(n, some)
               late == StoppedAt(l, n, d).late /\ n = 0 /\ ~some
    <2>2. n \in Nat /\ n < Len(todo) /\ n + 1 \in 1 .. Len(todo)
          /\ n <= Len(todo)
      BY <1>3
    <2>3. todo[n + 1] \in Commands
      BY <1>2, <2>2, RestFacts
    <2>4. NeedsAck(todo[n + 1]) => todo[n + 1].retry # 0
      BY <1>1, <1>7, <2>2, Transmittable DEF WriteShort
    <2>5. /\ d \in Commands /\ d \in {todo[n + 1], Begun(todo[n + 1])}
          /\ d.seq = todo[n + 1].seq /\ (todo[n + 1].part => d.part)
      <3>1. /\ Begun(todo[n + 1]) \in Commands
            /\ Begun(todo[n + 1]).seq = todo[n + 1].seq
        BY <2>3, <2>4, WrittenCommand
      <3>2. Begun(todo[n + 1]).part
        BY <2>3 DEF Begun, Commands
      <3> QED
        BY <2>3, <3>1, <3>2
    <2> HIDE DEF l, d
    <2>6. late \in BOOLEAN /\ again \in BOOLEAN
      <3>1. StoppedAt(l, n, d) \in Links
        BY <1>2, <2>2, <2>5, StoppedAtOK DEF LinkOK
      <3> QED
        BY <3>1 DEF Links
    <2>7. link' = [StoppedAt(l, n, d) EXCEPT !.late = late, !.source = again]
      BY <2>1 DEF d
    <2> HIDE DEF late
    <2>8. Wrote(l, [StoppedAt(l, n, d) EXCEPT !.late = late, !.source = again], n)
      BY <1>2, <2>1, <2>2, <2>5, <2>6, ShortWritten
    <2>9. \E g \in Range(link'.cur) :
            g.seq = todo[n + 1].seq /\ (todo[n + 1].part => g.part)
      <3> DEFINE x == StoppedAt(l, n, d)
      <3>1. /\ x.cur = <<d>> /\ x \in Links
        BY <1>2, <2>2, <2>5, StoppedAtOK DEF LinkOK
      <3> HIDE DEF x
      <3>2. link'.cur = <<d>>
        BY <2>7, <3>1 DEF Links, x
      <3>3. d \in Range(link'.cur)
        BY <3>2 DEF Range
      <3> QED
        BY <2>5, <3>3
    <2>10. WroteOut(l, n, n)
      <3>1. n # n + 1
        BY <2>2
      <3> QED
        BY <2>1, <2>2, <2>7, <2>8, <2>9, <3>1 DEF WroteOut
    <2> QED
      BY <2>10 DEF l
  <1> QED
    BY <1>4, <1>5, <1>6, <1>7 DEF WriteStep

\* The link as a step leaves it, with the wire as it was.
LEMMA TimeoutWire ==
  ASSUME TypeOK, LinkSound(link), WireSound(link, toPmu, seen)
  PROVE  WireSound(AfterTimeout(link), toPmu, seen)
  <1>1. /\ LinkOK(link) /\ link.next <= MaxFrames /\ toPmu \in Wire
        /\ seen \in SUBSET Sent
    BY DEF TypeOK, Wire, Sent
  <1>2. CASE Exhausted(link)
    <2>1. Leave(link, AfterTimeout(link), 1, "gaveup")
      BY <1>1, <1>2, AfterTimeoutSound
    <2>2. Onward(link, AfterTimeout(link))
      BY <1>1, <2>1, StepsOnward
    <2> QED
      BY <1>1, <2>2, OnwardWire
  <1>3. CASE ~Exhausted(link)
    BY <1>3 DEF AfterTimeout
  <1> QED
    BY <1>2, <1>3

\* The write handler keeps the link sound and the wire in order.
LEMMA WriteInvariant ==
  ASSUME TypeOK, LinkSound(link), WireSound(link, toPmu, seen), WriteStep
  PROVE  LinkSound(link') /\ WireSound(link', toPmu', seen')
  <1> DEFINE l == AfterTimeout(link)
  <1>1. /\ LinkOK(link) /\ link.next <= MaxFrames /\ toPmu \in Wire
        /\ seen \in SUBSET Sent
    BY DEF TypeOK, Wire, Sent
  <1>2. LinkOK(l) /\ LinkSound(l) /\ l.next <= MaxFrames
    BY <1>1, AfterTimeoutFacts
  <1>3. WireSound(l, toPmu, seen)
    BY TimeoutWire
  <1>4. PICK n, k : WroteOut(l, n, k)
    BY WriteSteps
  <1>5. seen' = seen
    BY DEF WriteStep, WriteNothing, WriteAll, WriteAwait, WriteShort
  <1> HIDE DEF l
  <1>6. /\ Wrote(l, link', n) /\ k \in {n, n + 1} /\ k <= Len(Pending(l))
        /\ toPmu' = toPmu \o Frames(SubSeq(Pending(l), 1, k))
        /\ k = n + 1 => /\ Numbered(Pending(l)[n + 1])
                        /\ link'.sends[Pending(l)[n + 1].seq] > 0
    BY <1>4 DEF WroteOut
  <1>7. WireSound(link', toPmu', seen)
    BY <1>1, <1>2, <1>3, <1>6, WrittenWire
  <1>8. LinkSound(link')
    BY <1>6 DEF Wrote
  <1> QED
    BY <1>5, <1>7, <1>8

\* The flags and the wire play no part in it.
LEMMA AsksAlike ==
  ASSUME NEW l, NEW m, AsksMore(l, m), NEW r, LinkOK(r),
         r.cur = m.cur, r.queue = m.queue, r.next = m.next,
         r.fate = m.fate, r.sends = m.sends
  PROVE  AsksMore(l, r)
  <1>1. Pending(r) = Pending(m)
    BY DEF Pending
  <1> QED
    BY <1>1 DEF AsksMore, LinkSound, Grew

\* The timer, the requests and the notices only ask for more.
QueueStep ==
  \/ \E stopping, retyped \in BOOLEAN : CheckTimeout(stopping, retyped)
  \/ Expire
  \/ \E kind \in Requests : Request(kind)
  \/ ReadFrame /\ ReadNotice(Head(toHost))

LEMMA QueueSteps ==
  ASSUME TypeOK, LinkSound(link), QueueStep
  PROVE  AsksMore(link, link')
  <1>1. LinkOK(link) /\ link.next <= MaxFrames /\ link \in Links
        /\ link.next \in Nat
    BY DEF TypeOK, LinkOK, Links
  <1>2. AsksMore(link, link)
    BY <1>1, AsksNothing
  <1>3. /\ "time_sync" \in Requests \cup {"heartbeat"}
        /\ "threshold" \in Requests \cup {"heartbeat"}
    BY RequestsAssumption
  <1>4. ASSUME NEW stopping \in BOOLEAN, NEW retyped \in BOOLEAN,
               CheckTimeout(stopping, retyped)
        PROVE  AsksMore(link, link')
    <2> DEFINE l == IF stopping THEN link ELSE Enqueue(link, "heartbeat")
               m == IF retyped THEN Enqueue(l, "threshold") ELSE l
               b == m.source \/ NeedsRearm(m)
    <2>1. m.next <= MaxFrames /\ link' = [m EXCEPT !.source = b]
      BY <1>4 DEF CheckTimeout
    <2>2. /\ LinkOK(l) /\ l.next \in Nat
          /\ ~stopping => l.next = link.next + 1
          /\ retyped => m.next = l.next + 1
      <3>1. LinkOK(l) /\ (~stopping => l.next = link.next + 1)
        BY <1>1, EnqueueOK
      <3>2. retyped => m.next = l.next + 1
        <4> HIDE DEF l
        <4> QED BY <1>3, <3>1, EnqueueOK
      <3> QED
        BY <3>1, <3>2 DEF LinkOK, Links
    <2>3. /\ ~stopping => link.next < MaxFrames
          /\ retyped => l.next < MaxFrames
      <3>1. m.next = l.next \/ m.next = l.next + 1
        BY <2>2
      <3> HIDE DEF m
      <3>2. l.next <= MaxFrames
        BY <2>1, <2>2, <3>1, SizesAssumption
      <3>3. retyped => l.next < MaxFrames
        BY <2>1, <2>2, SizesAssumption
      <3>4. ~stopping => link.next < MaxFrames
        <4> HIDE DEF l
        <4> QED BY <1>1, <2>2, <3>2, SizesAssumption
      <3> QED
        BY <3>3, <3>4
    <2>4. AsksMore(link, l)
      <3>1. ~stopping => AsksMore(link, Enqueue(link, "heartbeat"))
        BY <1>1, <2>3, EnqueueSound
      <3> QED
        BY <1>2, <3>1
    <2> HIDE DEF l
    <2>5. AsksMore(link, m)
      <3>1. LinkOK(l) /\ LinkSound(l)
        BY <2>4 DEF AsksMore
      <3>2. retyped => AsksMore(l, Enqueue(l, "threshold"))
        BY <1>3, <2>3, <3>1, EnqueueSound
      <3>3. retyped => AsksMore(link, Enqueue(l, "threshold"))
        BY <1>1, <2>4, <3>2, AsksTwice
      <3> QED
        BY <2>4, <3>3
    <2> HIDE DEF m
    <2>6. LinkOK(m) /\ m \in Links
      BY <2>5 DEF AsksMore, LinkOK
    <2>7. b \in BOOLEAN
      BY <2>6 DEF Links, NeedsRearm
    <2> HIDE DEF b
    <2>8. LinkOK(link')
      BY <2>1, <2>6, <2>7, FlagsOK
    <2>9. /\ link'.cur = m.cur /\ link'.queue = m.queue /\ link'.next = m.next
          /\ link'.fate = m.fate /\ link'.sends = m.sends
      BY <2>1, <2>6 DEF Links
    <2> QED
      BY <2>5, <2>8, <2>9, AsksAlike
  <1>5. CASE Expire
    <2>1. link.cur # <<>> /\ link' = [link EXCEPT !.late = TRUE]
      BY <1>5 DEF Expire, Range
    <2>2. LinkOK(link')
      BY <1>1, <2>1, FlagsOK
    <2>3. /\ link'.cur = link.cur /\ link'.queue = link.queue
          /\ link'.next = link.next /\ link'.fate = link.fate
          /\ link'.sends = link.sends
      BY <1>1, <2>1 DEF Links
    <2> QED
      BY <1>2, <2>2, <2>3, AsksAlike
  <1>6. ASSUME NEW kind \in Requests, Request(kind)
        PROVE  AsksMore(link, link')
    BY <1>1, <1>6, EnqueueSound DEF Request
  <1>7. CASE ReadNotice(Head(toHost))
    <2> DEFINE l(drift) == IF drift THEN Enqueue(link, "time_sync") ELSE link
    <2>1. PICK drift \in BOOLEAN :
            /\ drift => link.next < MaxFrames
            /\ link' = IF Head(toHost).wants THEN Reply(l(drift)) ELSE l(drift)
      BY <1>7 DEF ReadNotice
    <2>2. drift => /\ AsksMore(link, Enqueue(link, "time_sync"))
                   /\ Enqueue(link, "time_sync").next = link.next + 1
      BY <1>1, <1>3, <2>1, EnqueueSound
    <2>3. AsksMore(link, l(drift)) /\ l(drift).next <= MaxFrames
      <3>1. drift => Enqueue(link, "time_sync").next <= MaxFrames
        BY <1>1, <2>1, <2>2, SizesAssumption
      <3> QED
        BY <1>1, <1>2, <2>2, <3>1
    <2> HIDE DEF l
    <2>4. AsksMore(link, Reply(l(drift)))
      <3>1. LinkOK(l(drift)) /\ LinkSound(l(drift))
        BY <2>3 DEF AsksMore
      <3>2. AsksMore(l(drift), Reply(l(drift)))
        BY <2>3, <3>1, ReplySound
      <3> QED
        BY <1>1, <2>3, <3>2, AsksTwice
    <2> QED
      BY <2>1, <2>3, <2>4
  <1> QED
    BY <1>4, <1>5, <1>6, <1>7 DEF QueueStep

\* An answer that is read frees the command it answers, or none.
AnswerStep == ReadFrame /\ ReadAck(Head(toHost))

\* The elements of a sequence, of its tail, and of one that got longer.
LEMMA RangeFacts ==
  ASSUME NEW S, NEW s \in Seq(S)
  PROVE  /\ \A e \in Range(s) : e \in S
         /\ s # <<>> => Head(s) \in Range(s) /\ Head(s) \in S
         /\ s # <<>> => Range(Tail(s)) \subseteq Range(s)
         /\ \A e \in S : Range(Append(s, e)) = Range(s) \cup {e}
  <1>1. Len(s) \in Nat /\ DOMAIN s = 1 .. Len(s) /\ \A i \in 1 .. Len(s) : s[i] \in S
    BY LenProperties, ElementOfSeq
  <1>2. ASSUME s # <<>>
        PROVE  /\ Head(s) \in Range(s) /\ Head(s) \in S
               /\ Range(Tail(s)) \subseteq Range(s)
    <2>1. /\ Tail(s) \in Seq(S) /\ Len(Tail(s)) = Len(s) - 1 /\ Head(s) = s[1]
          /\ \A i \in 1 .. Len(Tail(s)) : Tail(s)[i] = s[i + 1]
      BY <1>2, HeadTailProperties
    <2>2. 1 \in 1 .. Len(s)
      BY <1>1, <1>2, EmptySeq
    <2>3. DOMAIN Tail(s) = 1 .. Len(s) - 1
      BY <2>1, LenProperties
    <2>4. \A i \in 1 .. Len(s) - 1 : i + 1 \in 1 .. Len(s)
      BY <1>1
    <2>5. Head(s) \in Range(s) /\ Head(s) \in S
      BY <1>1, <2>1, <2>2 DEF Range
    <2>6. Range(Tail(s)) \subseteq Range(s)
      BY <1>1, <2>1, <2>3, <2>4 DEF Range
    <2> QED
      BY <2>5, <2>6
  <1>3. ASSUME NEW e \in S PROVE Range(Append(s, e)) = Range(s) \cup {e}
    <2> DEFINE q == Append(s, e)
    <2>1. /\ q \in Seq(S) /\ Len(q) = Len(s) + 1 /\ q[Len(s) + 1] = e
          /\ \A i \in 1 .. Len(s) : q[i] = s[i]
      BY AppendProperties
    <2>2. DOMAIN q = 1 .. Len(s) + 1
      BY <2>1, LenProperties
    <2> HIDE DEF q
    <2>3. \A i : i \in 1 .. Len(s) + 1 <=> i \in 1 .. Len(s) \/ i = Len(s) + 1
      BY <1>1
    <2>4. \A x : x \in Range(q) <=> x \in Range(s) \/ x = e
      BY <1>1, <2>1, <2>2, <2>3 DEF Range
    <2>5. Range(q) = Range(s) \cup {e}
      BY <2>4
    <2> QED
      BY <2>5 DEF q
  <1>4. \A e \in Range(s) : e \in S
    BY <1>1 DEF Range
  <1> QED
    BY <1>2, <1>3, <1>4

\* A recent answer to the current command is the answer to this command.
LEMMA AnswerIsItsOwn ==
  ASSUME TypeOK, IInv, NEW f \in Range(toHost), f.type = "ack", Recent(f),
         Len(Pending(link)) >= 1, Numbered(Pending(link)[1]),
         Answers(f, Pending(link)[1])
  PROVE  /\ [kind |-> f.kind, seq |-> f.seq] \in seen
         /\ f.seq = Pending(link)[1].seq
  <1> DEFINE g == [kind |-> f.kind, seq |-> f.seq]
             c == Pending(link)[1]
             n == link.next
  <1>1. g \in seen /\ g \in Sent
    BY DEF IInv, AckedWasReceived, TypeOK, Sent
  <1>2. Numbered(g) /\ Behind(Pending(link), n, g)
    BY <1>1 DEF IInv, WireSound, Left
  <1>3. /\ n \in Nat /\ c.seq \in Nat /\ c.seq < n /\ 1 \in 1 .. Len(Pending(link))
    <2>1. link \in Links /\ n \in Nat /\ Ordered(Pending(link), n)
      BY DEF IInv, LinkSound, Sound, TypeOK, LinkOK, Links
    <2>2. Len(Pending(link)) \in Nat
      BY <2>1, PendingFacts, LenProperties
    <2>3. 1 \in 1 .. Len(Pending(link))
      BY <2>2
    <2>4. c \in Commands
      BY <2>1, <2>3, PendingFacts
    <2> QED
      BY <2>1, <2>3, <2>4 DEF Ordered, Commands
  <1>4. g.seq <= c.seq
    BY <1>2, <1>3 DEF Behind
  <1>5. f.seq \in Nat /\ f.seq <= c.seq
    BY <1>1, <1>4 DEF Sent
  <1>6. /\ n - f.seq <= FrameModulus
        /\ f.seq % FrameModulus = c.seq % FrameModulus
    BY DEF Recent, Answers
  <1>7. FrameModulus \in Int /\ FrameModulus > 0
    BY SizesAssumption
  <1> HIDE DEF g, c, n
  <1>8. f.seq \in Int /\ c.seq \in Int /\ c.seq - f.seq < FrameModulus
    BY <1>3, <1>5, <1>6, <1>7
  <1>9. f.seq = c.seq
    BY <1>5, <1>6, <1>7, <1>8, SameRemainder
  <1> QED
    BY <1>1, <1>9 DEF g, c

\* Reading an answer frees the first pending command or changes nothing, and
\* the PMU has received the command that is freed.
LEMMA AnswerSteps ==
  ASSUME TypeOK, IInv, AnswerStep
  PROVE  \/ link' = link
         \/ /\ Leave(link, link', 1, "acked")
            /\ Len(Pending(link)) >= 1 /\ Numbered(Pending(link)[1])
            /\ \E f \in seen : f.seq = Pending(link)[1].seq
  <1> DEFINE f == Head(toHost)
  <1>1. LinkOK(link) /\ LinkSound(link) /\ link.next <= MaxFrames
    BY DEF TypeOK, IInv
  <1>2. /\ toHost # <<>> /\ f.type = "ack" /\ Recent(f)
        /\ link' = Answered(link, f)
    BY DEF AnswerStep, ReadFrame, ReadAck
  <1>3. f \in Range(toHost)
    BY <1>2, RangeFacts DEF TypeOK
  <1> HIDE DEF f
  <1>4. \/ link' = link
        \/ /\ Len(Pending(link)) >= 1 /\ Numbered(Pending(link)[1])
           /\ Answers(f, Pending(link)[1])
           /\ Leave(link, link', 1, "acked")
    BY <1>1, <1>2, AnsweredSound
  <1>5. CASE link' = link
    BY <1>5
  <1>6. CASE /\ Len(Pending(link)) >= 1 /\ Numbered(Pending(link)[1])
             /\ Answers(f, Pending(link)[1])
             /\ Leave(link, link', 1, "acked")
    <2>1. /\ [kind |-> f.kind, seq |-> f.seq] \in seen
          /\ f.seq = Pending(link)[1].seq
      BY <1>2, <1>3, <1>6, AnswerIsItsOwn
    <2> QED
      BY <1>6, <2>1
  <1> QED
    BY <1>4, <1>5, <1>6

\* Acknowledged commands were received before, and what was received stays.
LEMMA AckedKept ==
  ASSUME AckedWasReceived, seen \subseteq seen',
         \A n \in Numbers : link'.fate[n] = "acked" =>
           link.fate[n] = "acked" \/ \E f \in seen : f.seq = n,
         \A f \in Range(toHost') : f.type = "ack" =>
           f \in Range(toHost) \/ [kind |-> f.kind, seq |-> f.seq] \in seen'
  PROVE  AckedWasReceived'
  BY DEF AckedWasReceived

\* The initial state.
LEMMA InitInvariant == Init => IInv
  <1> SUFFICES ASSUME Init PROVE IInv
    OBVIOUS
  <1>1. /\ link.cur = <<>> /\ link.queue = <<>> /\ link.next = 0
        /\ \A n \in Numbers : link.fate[n] = "none" /\ link.sends[n] = 0
    BY DEF Init
  <1>2. Pending(link) = <<>> /\ Len(Pending(link)) = 0
    <2>1. Pending(link) = <<>> \o <<>>
      BY <1>1 DEF Pending
    <2>2. <<>> \o <<>> = <<>>
      <3>1. <<>> \in Seq(Commands)
        OBVIOUS
      <3> QED BY <3>1, ConcatEmptySeq
    <2> QED
      BY <2>1, <2>2
  <1>3. LinkSound(link)
    <2>1. \A n \in Numbers : n >= 0
      BY DEF Numbers
    <2> QED
      BY <1>1, <1>2, <2>1
         DEF LinkSound, Sound, Ordered, Holds, Justified
  <1>4. toPmu = <<>> /\ seen = {} /\ toHost = <<>> /\ Len(toPmu) = 0
    BY DEF Init
  <1>5. WireSound(link, toPmu, seen)
    BY <1>4 DEF WireSound, Along
  <1>6. Range(toHost) = {}
    BY <1>4 DEF Range
  <1>7. AckedWasReceived
    BY <1>1, <1>6 DEF AckedWasReceived
  <1> QED
    BY <1>3, <1>5, <1>7 DEF IInv

\* One case for each group of actions.
LEMMA StepInvariant ==
  ASSUME TypeOK, IInv, [Next]_vars
  PROVE  IInv'
  <1>1. /\ LinkOK(link) /\ link.next <= MaxFrames /\ toPmu \in Wire
        /\ seen \in SUBSET Sent /\ link \in Links
        /\ toHost \in Seq(Acks \cup Notices)
        /\ LinkSound(link) /\ WireSound(link, toPmu, seen) /\ AckedWasReceived
    BY DEF TypeOK, Wire, Sent, IInv, LinkOK
  <1>2. ASSUME toHost # <<>>
        PROVE  Range(Tail(toHost)) \subseteq Range(toHost)
    BY <1>1, <1>2, RangeFacts
  <1>3. CASE WriteStep
    <2>1. LinkSound(link') /\ WireSound(link', toPmu', seen')
      BY <1>1, <1>3, WriteInvariant
    <2>2. toHost' = toHost /\ seen' = seen
      BY <1>3 DEF WriteStep, WriteNothing, WriteAll, WriteAwait, WriteShort
    <2>3. PICK n, k : WroteOut(AfterTimeout(link), n, k)
      BY <1>1, <1>3, WriteSteps
    <2>4. \A i \in Numbers : link'.fate[i] = "acked" =>
            AfterTimeout(link).fate[i] = "acked"
      BY <2>3 DEF WroteOut, Wrote
    <2>5. \A i \in Numbers : AfterTimeout(link).fate[i] = "acked" =>
            link.fate[i] = "acked"
      <3>1. CASE Exhausted(link)
        BY <1>1, <3>1, AfterTimeoutSound DEF Leave
      <3>2. CASE ~Exhausted(link)
        BY <3>2 DEF AfterTimeout
      <3> QED
        BY <3>1, <3>2
    <2>6. AckedWasReceived'
      BY <1>1, <2>2, <2>4, <2>5, AckedKept
    <2> QED
      BY <2>1, <2>6 DEF IInv
  <1>4. CASE QueueStep
    <2>1. AsksMore(link, link')
      BY <1>1, <1>4, QueueSteps
    <2>2. toPmu' = toPmu /\ seen' = seen
      BY <1>4 DEF QueueStep, CheckTimeout, Expire, Request, ReadFrame
    <2>3. Range(toHost') \subseteq Range(toHost)
      BY <1>2, <1>4 DEF QueueStep, CheckTimeout, Expire, Request, ReadFrame
    <2>4. \A n \in Numbers : link'.fate[n] = "acked" => link.fate[n] = "acked"
      BY <2>1 DEF AsksMore, Grew
    <2>5. AckedWasReceived'
      BY <1>1, <2>2, <2>3, <2>4, AckedKept
    <2>6. WireSound(link', toPmu', seen')
      <3>1. Onward(link, link')
        BY <1>1, <2>1, StepsOnward
      <3> QED
        BY <1>1, <2>2, <3>1, OnwardWire
    <2> QED
      BY <2>1, <2>5, <2>6 DEF IInv, AsksMore
  <1>5. CASE AnswerStep
    <2>1. toPmu' = toPmu /\ seen' = seen /\ Range(toHost') \subseteq Range(toHost)
      BY <1>2, <1>5 DEF AnswerStep, ReadFrame
    <2>2. CASE link' = link
      <3>1. AckedWasReceived'
        BY <1>1, <2>1, <2>2, AckedKept
      <3> QED
        BY <1>1, <2>1, <2>2, <3>1 DEF IInv
    <2>3. CASE /\ Leave(link, link', 1, "acked")
               /\ Len(Pending(link)) >= 1 /\ Numbered(Pending(link)[1])
               /\ \E f \in seen : f.seq = Pending(link)[1].seq
      <3>1. LinkSound(link')
        BY <2>3 DEF Leave
      <3>2. WireSound(link', toPmu', seen')
        <4>1. Onward(link, link')
          BY <1>1, <2>3, StepsOnward
        <4> QED
          BY <1>1, <2>1, <4>1, OnwardWire
      <3>3. ASSUME NEW n \in Numbers, link'.fate[n] = "acked"
            PROVE  link.fate[n] = "acked" \/ \E f \in seen : f.seq = n
        <4>1. CASE Leaves(Pending(link), 0, 1, n)
          <5>1. \A i \in 0 + 1 .. 0 + 1 : i = 1
            OBVIOUS
          <5>2. Pending(link)[1].seq = n
            BY <4>1, <5>1 DEF Leaves
          <5> QED
            BY <2>3, <5>2
        <4>2. CASE ~Leaves(Pending(link), 0, 1, n)
          BY <2>3, <3>3, <4>2 DEF Leave
        <4> QED
          BY <4>1, <4>2
      <3>4. AckedWasReceived'
        BY <1>1, <2>1, <3>3, AckedKept
      <3> QED
        BY <3>1, <3>2, <3>4 DEF IInv
    <2> QED
      BY <1>1, <1>5, <2>2, <2>3, AnswerSteps
  <1>6. CASE PmuReceive
    <2> DEFINE f == Head(toPmu)
    <2>1. /\ toPmu # <<>> /\ toPmu' = Tail(toPmu) /\ link' = link
          /\ seen' = IF Numbered(f) THEN seen \cup {f} ELSE seen
      BY <1>6 DEF PmuReceive
    <2>2. WireSound(link', toPmu', seen')
      BY <1>1, <2>1, WireTail
    <2>3. f \in Sent
      BY <1>1, <2>1, HeadTailProperties DEF Wire, Sent
    <2>4. ASSUME NEW g \in Range(toHost'), g.type = "ack"
          PROVE  g \in Range(toHost) \/ [kind |-> g.kind, seq |-> g.seq] \in seen'
      <3>1. CASE NeedsAck(f)
        <4> DEFINE a == [type |-> "ack", kind |-> f.kind, seq |-> f.seq]
        <4>1. toHost' = Append(toHost, a)
          BY <1>6, <3>1 DEF PmuReceive
        <4>2. a \in Acks \cup Notices
          BY <2>3, <3>1 DEF Acks, Sent, NeedsAck
        <4>3. [kind |-> a.kind, seq |-> a.seq] = f
          BY <2>3 DEF Sent
        <4>4. f \in seen'
          BY <2>1, <3>1, RequestsAssumption DEF Numbered, NeedsAck
        <4> HIDE DEF a, f
        <4>5. g \in Range(toHost) \/ g = a
          BY <1>1, <2>4, <4>1, <4>2, RangeFacts
        <4> QED
          BY <4>3, <4>4, <4>5
      <3>2. CASE ~NeedsAck(f)
        BY <1>6, <2>4, <3>2 DEF PmuReceive
      <3> QED
        BY <3>1, <3>2
    <2>5. seen \subseteq seen'
      BY <2>1
    <2>6. AckedWasReceived'
      BY <1>1, <2>1, <2>4, <2>5, AckedKept
    <2> QED
      BY <1>1, <2>1, <2>2, <2>6 DEF IInv
  <1>7. CASE PmuNotify
    <2>1. link' = link /\ toPmu' = toPmu /\ seen' = seen
      BY <1>7 DEF PmuNotify
    <2>2. PICK a \in Notices : toHost' = Append(toHost, a)
      BY <1>7 DEF PmuNotify
    <2>3. a \in Acks \cup Notices /\ a.type # "ack"
      BY DEF Notices
    <2>4. \A g \in Range(toHost') : g \in Range(toHost) \/ g = a
      BY <1>1, <2>2, <2>3, RangeFacts
    <2>5. AckedWasReceived'
      BY <1>1, <2>1, <2>3, <2>4, AckedKept
    <2> QED
      BY <1>1, <2>1, <2>5 DEF IInv
  <1>8. CASE LoseToPmu
    <2>1. /\ toPmu # <<>> /\ toPmu' = Tail(toPmu) /\ link' = link /\ seen' = seen
          /\ toHost' = toHost
      BY <1>8 DEF LoseToPmu
    <2>2. WireSound(link', toPmu', seen')
      BY <1>1, <2>1, WireTail
    <2>3. AckedWasReceived'
      BY <1>1, <2>1, AckedKept
    <2> QED
      BY <1>1, <2>1, <2>2, <2>3 DEF IInv
  <1>9. CASE LoseToHost
    <2>1. /\ toPmu' = toPmu /\ link' = link /\ seen' = seen
          /\ Range(toHost') \subseteq Range(toHost)
      BY <1>2, <1>9 DEF LoseToHost
    <2>2. AckedWasReceived'
      BY <1>1, <2>1, AckedKept
    <2> QED
      BY <1>1, <2>1, <2>2 DEF IInv
  <1>10. CASE UNCHANGED vars
    BY <1>10 DEF vars, IInv, AckedWasReceived
  <1> QED
    BY <1>3, <1>4, <1>5, <1>6, <1>7, <1>8, <1>9, <1>10
       DEF Next, WriteStep, QueueStep, AnswerStep, ReadFrame

\* The link is sound at all times, and what leaves it is in order
\* (src/src/pmu-manager.c, all handlers of the serial port and the timer).
THEOREM Invariant == Spec => [](TypeOK /\ IInv)
  <1>1. Init => TypeOK /\ IInv
    BY InitTypes, InitInvariant
  <1>2. TypeOK /\ IInv /\ [Next]_vars => IInv'
    BY StepInvariant
  <1>3. Spec => []TypeOK
    BY TypeCorrect
  <1> QED
    BY <1>1, <1>2, <1>3, PTL DEF Spec

\* What the invariant says of the link, in the words of the properties.
LEMMA InvariantProperties ==
  ASSUME TypeOK, IInv
  PROVE  EveryCommandAccounted /\ FatesJustified /\ InOrder /\ AckedWasReceived
  <1> DEFINE p == Pending(link)
  <1>1. /\ LinkOK(link) /\ link.next <= MaxFrames /\ link.next \in Nat
        /\ link \in Links /\ toPmu \in Wire
    BY DEF TypeOK, LinkOK, Links, Wire
  <1>2. /\ p \in Seq(Commands) /\ Len(p) \in Nat /\ DOMAIN p = 1 .. Len(p)
    BY <1>1, PendingFacts, LenProperties
  <1>3. /\ Ordered(p, link.next)
        /\ \A n \in Numbers : /\ link.fate[n] = "none" <=> n >= link.next
                              /\ link.fate[n] = "open" <=> Holds(p, n)
                              /\ Justified(link.fate[n], link.sends[n])
    BY DEF IInv, LinkSound, Sound
  <1>4. EveryCommandAccounted
    <2>1. \A n \in Numbers : Holds(p, n) <=> IsPending(n)
      BY <1>2 DEF Holds, IsPending, Range
    <2>2. \A i, j \in 1 .. Len(p) :
            i # j /\ Numbered(p[i]) /\ Numbered(p[j]) => p[i].seq # p[j].seq
      BY <1>1, <1>2, <1>3, NumbersDiffer
    <2> QED
      BY <1>2, <1>3, <2>1, <2>2 DEF EveryCommandAccounted
  <1>5. FatesJustified
    BY <1>3 DEF FatesJustified, Justified
  <1>6. PendingInOrder(link)
    BY <1>2, <1>3 DEF PendingInOrder, Ordered
  <1>7. DOMAIN toPmu = 1 .. Len(toPmu)
    BY <1>1, LenProperties DEF Wire
  <1>8. InOrder
    <2>1. \A f \in seen : Numbered(f) /\ NotOvertaken(link, f)
      BY <1>1, NotOvertakenBehind DEF IInv, WireSound, Left
    <2>2. \A i \in DOMAIN toPmu : NotOvertaken(link, toPmu[i])
      <3>1. \A i \in DOMAIN toPmu :
              Numbered(toPmu[i]) => Behind(Pending(link), link.next, toPmu[i])
        BY <1>7 DEF IInv, WireSound, Left
      <3>2. \A i \in DOMAIN toPmu :
              Behind(Pending(link), link.next, toPmu[i])
        BY <3>1 DEF Behind
      <3> QED
        BY <1>1, <3>2, NotOvertakenBehind
    <2>3. WireInOrder(toPmu, seen)
      BY <1>7 DEF IInv, WireSound, Along, WireInOrder
    <2> QED
      BY <1>6, <2>1, <2>2, <2>3 DEF InOrder
  <1> QED
    BY <1>4, <1>5, <1>8 DEF IInv

\* No command is lost or kept twice, whatever the order of writes, answers,
\* timeouts and overflows (pcat_pmu_serial_write_data_request and
\* pcat_pmu_serial_write_watch_func).
THEOREM AllAccounted == Spec => []EveryCommandAccounted
  BY Invariant, InvariantProperties, PTL

\* A command is given up only after all its transmissions, dropped only if it
\* was never transmitted (the retry and overflow branches of the same two).
THEOREM AllJustified == Spec => []FatesJustified
  BY Invariant, InvariantProperties, PTL

\* Commands reach the PMU in the order they were asked for.
THEOREM AllInOrder == Spec => []InOrder
  BY Invariant, InvariantProperties, PTL

\* A command that is freed as acknowledged was received by the PMU: a late or
\* repeated answer completes no later command (the frame number comparison of
\* pcat_pmu_serial_read_data_parse).
THEOREM AllAckedReceived == Spec => []AckedWasReceived
  BY Invariant, InvariantProperties, PTL

\* Queueing leaves a current command alone.
LEMMA CurrentKept ==
  ASSUME NEW l, LinkOK(l), l.cur # <<>>
  PROVE  /\ \A kind \in Requests \cup {"heartbeat"} :
              LinkOK(Enqueue(l, kind)) /\ Enqueue(l, kind).cur = l.cur
         /\ Reply(l).cur = l.cur
  <1>1. ASSUME NEW kind \in Requests \cup {"heartbeat"}
        PROVE  LinkOK(Enqueue(l, kind)) /\ Enqueue(l, kind).cur = l.cur
    <2> DEFINE n == l.next + 1
               m == [l EXCEPT !.next = n]
               c == FreshCommand(kind, l.next)
    <2>1. l \in Links /\ l.next \in Nat /\ n \in Nat
      BY DEF LinkOK, Links
    <2> HIDE DEF n
    <2>2. m \in Links /\ m.cur = l.cur /\ m.queue = l.queue /\ m.late = l.late
      BY <2>1 DEF Links
    <2>3. LinkOK(m)
      BY <2>2 DEF LinkOK
    <2>4. c \in Commands
      BY <2>1, FreshCommandType DEF Kinds
    <2> HIDE DEF m, c
    <2>5. Put(m, c).cur = l.cur
      BY <2>2, <2>3, <2>4, PutFields
    <2> QED
      BY <2>5, EnqueueOK DEF Enqueue, m, c, n
  <1>2. Reply(l).cur = l.cur
    <2> DEFINE c == FreshCommand("reply", 0)
    <2>1. c \in Commands
      BY FreshCommandType DEF Kinds
    <2> HIDE DEF c
    <2>2. Put(l, c).cur = l.cur
      BY <2>1, PutFields
    <2> QED
      BY <2>2 DEF Reply, c
  <1> QED
    BY <1>1, <1>2

\* So the timer, the requests and the notices leave it alone.
LEMMA QueueStepKeeps ==
  ASSUME TypeOK, QueueStep, link.cur # <<>>
  PROVE  link'.cur = link.cur
  <1>1. LinkOK(link) /\ link \in Links
    BY DEF TypeOK, LinkOK
  <1>2. /\ "time_sync" \in Requests \cup {"heartbeat"}
        /\ "threshold" \in Requests \cup {"heartbeat"}
    BY RequestsAssumption
  <1>3. ASSUME NEW stopping \in BOOLEAN, NEW retyped \in BOOLEAN,
               CheckTimeout(stopping, retyped)
        PROVE  link'.cur = link.cur
    <2> DEFINE l == IF stopping THEN link ELSE Enqueue(link, "heartbeat")
               m == IF retyped THEN Enqueue(l, "threshold") ELSE l
               b == m.source \/ NeedsRearm(m)
    <2>1. link' = [m EXCEPT !.source = b]
      BY <1>3 DEF CheckTimeout
    <2>2. LinkOK(l) /\ l.cur = link.cur
      BY <1>1, CurrentKept
    <2> HIDE DEF l
    <2>3. LinkOK(m) /\ m.cur = link.cur
      BY <1>2, <2>2, CurrentKept
    <2> HIDE DEF m, b
    <2> QED
      BY <2>1, <2>3 DEF LinkOK, Links
  <1>4. CASE Expire
    BY <1>1, <1>4 DEF Expire, Links
  <1>5. ASSUME NEW kind \in Requests, Request(kind)
        PROVE  link'.cur = link.cur
    BY <1>1, <1>5, CurrentKept DEF Request
  <1>6. CASE ReadNotice(Head(toHost))
    <2> DEFINE l(drift) == IF drift THEN Enqueue(link, "time_sync") ELSE link
    <2>1. PICK drift \in BOOLEAN :
            link' = IF Head(toHost).wants THEN Reply(l(drift)) ELSE l(drift)
      BY <1>6 DEF ReadNotice
    <2>2. LinkOK(l(drift)) /\ l(drift).cur = link.cur
      BY <1>1, <1>2, CurrentKept
    <2> HIDE DEF l
    <2> QED
      BY <2>1, <2>2, CurrentKept
  <1> QED
    BY <1>3, <1>4, <1>5, <1>6 DEF QueueStep

\* A frame that is partly written is the next to be completed.
LEMMA PartlyWritten ==
  ASSUME TypeOK, IInv, NEW c \in Range(link.cur), c.part, Numbered(c)
  PROVE  /\ link.cur # <<>> /\ c = Pending(link)[1] /\ Len(Pending(link)) \in Nat
         /\ 1 \in 1 .. Len(Pending(link)) /\ c.seq \in Numbers
         /\ AfterTimeout(link) = link /\ ~Blocked(link)
  <1>1. /\ LinkOK(link) /\ link \in Links /\ link.next \in Nat
        /\ link.next <= MaxFrames /\ Ordered(Pending(link), link.next)
    BY DEF TypeOK, LinkOK, Links, IInv, LinkSound, Sound
  <1>2. PICK i \in DOMAIN link.cur : c = link.cur[i]
    BY DEF Range
  <1>3. link.cur # <<>>
    BY <1>2
  <1>4. /\ i = 1 /\ DOMAIN link.cur = 1 .. 1
        /\ Len(Pending(link)) = 1 + Len(link.queue) /\ Len(link.queue) \in Nat
        /\ Pending(link)[1] = link.cur[1]
    BY <1>1, <1>2, <1>3, OneCurrent
  <1>5. 1 \in 1 .. Len(Pending(link)) /\ Pending(link) \in Seq(Commands)
    <2>1. Pending(link) \in Seq(Commands)
      BY <1>1, PendingFacts
    <2>2. 1 \in 1 .. Len(Pending(link))
      BY <1>4
    <2> QED
      BY <2>1, <2>2
  <1>6. c.seq \in Numbers
    BY <1>1, <1>2, <1>4, <1>5, NumbersDiffer
  <1>7. ~Waiting(link)
    BY <1>2, <1>4 DEF Waiting, Range
  <1> QED
    BY <1>2, <1>3, <1>4, <1>5, <1>6, <1>7 DEF AfterTimeout, Exhausted, Blocked

\* A frame of which some bytes went out is completed before anything else is
\* written, or its answer comes first (written_size of the current command).
THEOREM FramesFinished == Spec => FrameFinished
  <1> DEFINE Finished(c) ==
               \/ \E d \in Range(link'.cur) : d.part /\ d.seq = c.seq
               \/ link'.sends[c.seq] = link.sends[c.seq] + 1
               \/ link'.fate[c.seq] = "acked"
  <1>1. ASSUME TypeOK, IInv, Next, NEW c \in Range(link.cur),
               c.part, Numbered(c)
        PROVE  Finished(c)
    <2>1. /\ LinkOK(link) /\ LinkSound(link) /\ link.next <= MaxFrames
      BY <1>1 DEF TypeOK, IInv
    <2> DEFINE p == Pending(link)
    <2>2. /\ link.cur # <<>> /\ c = p[1] /\ Len(p) \in Nat
          /\ 1 \in 1 .. Len(p) /\ c.seq \in Numbers
          /\ AfterTimeout(link) = link /\ ~Blocked(link)
      BY <1>1, PartlyWritten
    <2>3. ASSUME link'.cur = link.cur PROVE Finished(c)
      BY <1>1, <2>3
    <2>4. CASE WriteStep
      <3>1. PICK n, k : WroteOut(link, n, k)
        BY <1>1, <2>1, <2>2, <2>4, WriteSteps
      <3>2. n \in Nat /\ k \in {n, n + 1} /\ Wrote(link, link', n)
        BY <3>1 DEF WroteOut
      <3>3. CASE n # 0
        <4>1. 1 \in 0 + 1 .. 0 + n
          BY <3>2, <3>3
        <4>2. Leaves(p, 0, n, c.seq)
          BY <1>1, <2>2, <4>1 DEF Leaves
        <4> QED
          BY <2>2, <3>2, <4>2 DEF Wrote
      <3>4. CASE n = 0 /\ k = n + 1
        <4>1. Flushed(link, 0).sends[c.seq] = link.sends[c.seq]
          <5>1. ~Leaves(p, 0, 0, c.seq)
            BY DEF Leaves
          <5>2. 0 \in Nat /\ 0 <= Len(p) /\ Flows(p, 0)
            BY <2>2 DEF Flows
          <5> QED
            BY <2>1, <2>2, <5>1, <5>2, FlushedSound
        <4>2. 0 + 1 = 1
          OBVIOUS
        <4> QED
          BY <2>2, <3>1, <3>4, <4>1, <4>2 DEF WroteOut
      <3>5. CASE n = 0 /\ k = n
        <4>1. 0 + 1 = 1 /\ 0 < Len(p)
          BY <2>2
        <4> QED
          BY <1>1, <2>2, <3>1, <3>5, <4>1 DEF WroteOut
      <3> QED
        BY <3>2, <3>3, <3>4, <3>5
    <2>5. CASE QueueStep
      BY <1>1, <2>2, <2>3, <2>5, QueueStepKeeps
    <2>6. CASE AnswerStep
      <3>1. CASE link' = link
        BY <2>3, <3>1
      <3>2. CASE Leave(link, link', 1, "acked")
        <4>1. 1 \in 0 + 1 .. 0 + 1
          OBVIOUS
        <4>2. Leaves(p, 0, 1, c.seq)
          BY <1>1, <2>2, <4>1 DEF Leaves
        <4> QED
          BY <2>2, <3>2, <4>2 DEF Leave
      <3> QED
        BY <1>1, <2>6, <3>1, <3>2, AnswerSteps
    <2>7. CASE PmuReceive \/ PmuNotify \/ LoseToPmu \/ LoseToHost
      BY <2>3, <2>7 DEF PmuReceive, PmuNotify, LoseToPmu, LoseToHost
    <2> QED
      BY <1>1, <2>4, <2>5, <2>6, <2>7
         DEF Next, WriteStep, QueueStep, AnswerStep, ReadFrame
  <1>2. TypeOK /\ IInv /\ [Next]_vars =>
          [\A c \in Range(link.cur) : c.part /\ Numbered(c) => Finished(c)]_vars
    BY <1>1
  <1> QED
    BY <1>2, Invariant, PTL DEF Spec, FrameFinished

----------------------------------------------------------------------------
(****************************************************************************)
(* The refinement of the ordered service.                                  *)
(****************************************************************************)

\* A non-empty set of natural numbers, none above a bound, has a greatest.
LEMMA Greatest ==
  ASSUME NEW J \in SUBSET Nat, J # {}, NEW b \in Nat, \A j \in J : j <= b
  PROVE  \E j \in J : \A i \in J : i <= j
  <1> DEFINE T == {b - j : j \in J}
  <1>1. T \in SUBSET Nat /\ T # {}
    <2>1. \A j \in J : b - j \in Nat
      OBVIOUS
    <2> QED
      BY <2>1
  <1>2. PICK x \in T : \A y \in T : ~(<<y, x>> \in OpToRel(<, Nat))
    <2> HIDE DEF T
    <2> QED
      BY <1>1, NatLessThanWellFounded, WFMin
  <1>3. \A y \in T : ~(y < x)
    BY <1>1, <1>2 DEF OpToRel
  <1>4. PICK j \in J : x = b - j
    OBVIOUS
  <1>5. \A i \in J : b - i \in T
    OBVIOUS
  <1>6. \A i \in J : ~(b - i < b - j)
    BY <1>3, <1>4, <1>5
  <1> QED
    BY <1>6

\* The numbers that leave with the first k commands are those up to one of them.
LEMMA LeavesUpTo ==
  ASSUME NEW p \in Seq(Commands), NEW next \in Nat, next <= MaxFrames,
         Ordered(p, next), NEW k \in 0 .. Len(p),
         NEW h, Leaves(p, 0, k, h)
  PROVE  \E m \in Numbers :
           /\ Leaves(p, 0, k, m)
           /\ \A n \in Numbers : Leaves(p, 0, k, n) <=> Holds(p, n) /\ n <= m
  <1> DEFINE J == {j \in 1 .. k : Numbered(p[j])}
  <1>1. Len(p) \in Nat /\ k \in Nat /\ \A i \in 1 .. k : i \in 1 .. Len(p)
    BY LenProperties
  <1>2. \A n : Leaves(p, 0, k, n) <=> \E i \in J : p[i].seq = n
    BY DEF Leaves
  <1>3. PICK j \in J : \A i \in J : i <= j
    <2>1. J # {}
      BY <1>2
    <2>2. J \in SUBSET Nat /\ \A i \in J : i <= k
      BY <1>1
    <2> HIDE DEF J
    <2> QED
      BY <1>1, <2>1, <2>2, Greatest
  <1>4. j \in 1 .. k /\ j \in 1 .. Len(p) /\ Numbered(p[j])
    BY <1>1
  <1>5. /\ p[j].seq \in Numbers
        /\ \A i \in 1 .. Len(p) : Numbered(p[i]) =>
             (p[j].seq <= p[i].seq <=> j <= i)
    BY <1>4, NumbersDiffer
  <1>6. \A i \in 1 .. Len(p) : Numbered(p[i]) =>
          (p[i].seq <= p[j].seq <=> i <= j)
    BY <1>4, NumbersDiffer
  <1>7. \A i \in 1 .. Len(p) : i <= j => i \in 1 .. k
    BY <1>1, <1>4
  <1>8. ASSUME NEW n \in Numbers
        PROVE  Leaves(p, 0, k, n) <=> Holds(p, n) /\ n <= p[j].seq
    <2>1. ASSUME Leaves(p, 0, k, n) PROVE Holds(p, n) /\ n <= p[j].seq
      BY <1>1, <1>2, <1>3, <1>6, <2>1 DEF Holds
    <2>2. ASSUME Holds(p, n), n <= p[j].seq PROVE Leaves(p, 0, k, n)
      BY <1>2, <1>6, <1>7, <2>2 DEF Holds
    <2> QED
      BY <2>1, <2>2
  <1> QED
    BY <1>2, <1>5, <1>8

\* The fate of a command and its outcome.
LEMMA OutcomeValues ==
  /\ OutcomeOf["none"] = "unasked" /\ OutcomeOf["open"] = "open"
  /\ OutcomeOf["acked"] = "answered" /\ OutcomeOf["gaveup"] = "silent"
  /\ OutcomeOf["sent"] = "written" /\ OutcomeOf["dropped"] = "skipped"
  <1>1. \A f \in Fates : OutcomeOf[f] =
          CASE f = "none" -> "unasked"   [] f = "open" -> "open"
            [] f = "acked" -> "answered" [] f = "gaveup" -> "silent"
            [] f = "sent" -> "written"   [] f = "dropped" -> "skipped"
    BY DEF OutcomeOf
  <1> QED
    BY <1>1 DEF Fates

\* Which outcomes are those of which fates.
LEMMA OutcomeFacts ==
  ASSUME NEW f \in Fates
  PROVE  /\ OutcomeOf[f] = "open" <=> f = "open"
         /\ OutcomeOf[f] = "unasked" <=> f = "none"
         /\ OutcomeOf[f] = "skipped" <=> f = "dropped"
  BY OutcomeValues DEF Fates

\* The commands of the service, and what the PMU has seen of them.
Outcome == [n \in Numbers |-> OutcomeOf[link.fate[n]]]
Delivered == {f.seq : f \in seen}

\* The state of the service, read from the link.
LEMMA ServiceState ==
  ASSUME TypeOK
  PROVE  /\ \A n \in Numbers : Outcome[n] = OutcomeOf[link.fate[n]]
         /\ Service!Open = {n \in Numbers : link.fate[n] = "open"}
         /\ \A n \in Numbers : /\ link.fate[n] \in Fates
                               /\ Outcome[n] = "unasked" <=> link.fate[n] = "none"
                               /\ Outcome[n] = "skipped" <=> link.fate[n] = "dropped"
         /\ Numbers \subseteq Nat
  <1>1. \A n \in Numbers : Outcome[n] = OutcomeOf[link.fate[n]]
    BY DEF Outcome
  <1>2. \A n \in Numbers : link.fate[n] \in Fates
    BY DEF TypeOK, LinkOK, Links
  <1>3. Service!Open = {n \in Numbers : link.fate[n] = "open"}
    BY <1>1, <1>2, OutcomeFacts DEF Service!Open, Outcome
  <1> QED
    BY <1>1, <1>2, <1>3, OutcomeFacts DEF Numbers

\* Asking for more implements Ask.
LEMMA AskImplemented ==
  ASSUME TypeOK, TypeOK', IInv, IInv', AsksMore(link, link'), seen' = seen
  PROVE  \E S, D \in SUBSET Numbers : Service!Ask(S, D)
  <1> DEFINE S == {n \in Numbers : link.next <= n /\ n < link'.next}
             D == {n \in Numbers : link.fate[n] # "dropped"
                                   /\ link'.fate[n] = "dropped"}
             Open == {n \in Numbers : link.fate[n] = "open"}
  <1>1. /\ Numbers \subseteq Nat /\ link.next \in Nat /\ link'.next \in Nat
        /\ \A n \in Numbers : link.fate[n] \in Fates /\ link'.fate[n] \in Fates
    <2>1. link \in Links /\ link' \in Links
      BY DEF TypeOK, LinkOK
    <2>2. /\ link.next \in Nat /\ link'.next \in Nat
          /\ link.fate \in [Numbers -> Fates] /\ link'.fate \in [Numbers -> Fates]
      BY <2>1 DEF Links
    <2>3. Numbers \subseteq Nat
      BY DEF Numbers
    <2> QED
      BY <2>2, <2>3
  <1>2. /\ \A n \in Numbers : link.fate[n] = "none" <=> n >= link.next
        /\ \A n \in Numbers : link'.fate[n] = "none" <=> n >= link'.next
        /\ \A n \in Numbers : Justified(link'.fate[n], link'.sends[n])
    BY DEF IInv, LinkSound, Sound
  <1>3. /\ link.next <= link'.next
        /\ \A n \in Numbers :
             \/ link'.fate[n] = link.fate[n] /\ (n < link.next \/ n >= link'.next)
             \/ /\ link.next <= n /\ n < link'.next
                /\ link'.fate[n] \in {"open", "dropped"}
             \/ link.fate[n] = "open" /\ link'.fate[n] = "dropped"
        /\ \A n, j, k \in Numbers :
             /\ link.fate[n] # "dropped" /\ link'.fate[n] = "dropped"
             /\ link'.fate[j] = "open" /\ link'.fate[k] = "open" /\ j < n /\ k < n
             => j = k
    BY DEF AsksMore, Grew
  <1>4. \A n \in S : Outcome[n] = "unasked"
    BY <1>2, ServiceState
  <1>5. \A n \in S, m \in Numbers : m < n => m \in S \/ Outcome[m] # "unasked"
    BY <1>1, <1>2, ServiceState
  <1>6. D \cap Delivered = {}
    <2> SUFFICES ASSUME NEW f \in seen, f.seq \in D PROVE FALSE
      BY DEF Delivered
    <2>1. Numbered(f) /\ link'.sends[f.seq] > 0
      BY DEF IInv, WireSound, Left
    <2>2. link'.sends[f.seq] = 0
      BY <1>2 DEF Justified
    <2> QED
      BY <2>1, <2>2
  <1>7. D \subseteq Open \cup S
    BY <1>1, <1>3
  <1>8. \A k \in (Open \cup S) \ D : link'.fate[k] = "open"
    BY <1>1, <1>2, <1>3
  <1>9. \A n \in D : \A k, m \in (Open \cup S) \ D : k < n /\ m < n => k = m
    BY <1>3, <1>8
  <1>10. ASSUME NEW n \in Numbers
         PROVE  Outcome'[n] = IF n \in D THEN "skipped"
                              ELSE IF n \in S THEN "open" ELSE Outcome[n]
    <2>1. Outcome'[n] = OutcomeOf[link'.fate[n]]
      BY DEF Outcome
    <2>2. link'.fate[n] = IF n \in D THEN "dropped"
                          ELSE IF n \in S THEN "open" ELSE link.fate[n]
      BY <1>1, <1>2, <1>3
    <2> QED
      BY <2>1, <2>2, OutcomeValues, ServiceState
  <1>11. Outcome' = [n \in Numbers |-> IF n \in D THEN "skipped"
                                       ELSE IF n \in S THEN "open"
                                       ELSE Outcome[n]]
    <2> HIDE DEF S, D
    <2>1. Outcome' = [n \in Numbers |-> Outcome'[n]]
      BY DEF Outcome
    <2> QED
      BY <1>10, <2>1
  <1>12. Service!Open = Open
    BY ServiceState
  <1>13. S \in SUBSET Numbers /\ D \in SUBSET Numbers
    OBVIOUS
  <1>14. Delivered' = Delivered
    BY DEF Delivered
  <1> HIDE DEF S, D, Open
  <1>15. PICK s \in SUBSET Numbers, d \in SUBSET Numbers : s = S /\ d = D
    BY <1>13
  <1>16. Service!Ask(s, d)
    BY <1>4, <1>5, <1>6, <1>7, <1>9, <1>11, <1>12, <1>14, <1>15
       DEF Service!Ask, Outcome, Delivered
  <1> QED
    BY <1>16

\* Reading an answer implements Answer.
LEMMA AnswerImplemented ==
  ASSUME TypeOK, IInv, AnswerStep
  PROVE  \/ link' = link
         \/ \E n \in Numbers : Service!Answer(n)
  <1> DEFINE p == Pending(link)
             n == p[1].seq
  <1>1. /\ link \in Links /\ link.next \in Nat /\ link.next <= MaxFrames
        /\ Ordered(p, link.next)
        /\ \A i \in Numbers : link.fate[i] = "open" <=> Holds(p, i)
    BY DEF TypeOK, LinkOK, Links, IInv, LinkSound, Sound
  <1>2. p \in Seq(Commands) /\ Len(p) \in Nat
    BY <1>1, PendingFacts, LenProperties
  <1> SUFFICES ASSUME Leave(link, link', 1, "acked"), Len(p) >= 1, Numbered(p[1]),
                      \E f \in seen : f.seq = n
               PROVE  \E i \in Numbers : Service!Answer(i)
    BY AnswerSteps
  <1>3. 1 \in 1 .. Len(p)
    BY <1>2
  <1>4. /\ n \in Numbers
        /\ \A j \in 1 .. Len(p) : Numbered(p[j]) => n <= p[j].seq
    <2>1. \A j \in 1 .. Len(p) : 1 <= j
      OBVIOUS
    <2> QED
      BY <1>1, <1>2, <1>3, <2>1, NumbersDiffer
  <1>5. n \in Service!Open /\ Service!UpTo(n) = {n}
    <2>1. Holds(p, n)
      BY <1>3 DEF Holds
    <2>2. \A i \in Numbers : Holds(p, i) => n <= i
      BY <1>4 DEF Holds
    <2>3. Service!Open = {i \in Numbers : Holds(p, i)}
      BY <1>1, ServiceState
    <2>4. \A i \in Numbers : i <= n /\ n <= i => i = n
      BY <1>4 DEF Numbers
    <2>5. n <= n
      BY <1>4 DEF Numbers
    <2> HIDE DEF n
    <2> QED
      BY <1>4, <2>1, <2>2, <2>3, <2>4, <2>5 DEF Service!UpTo
  <1>6. n \in Delivered /\ seen' = seen
    BY DEF Delivered, AnswerStep, ReadFrame
  <1>7. ASSUME NEW i \in Numbers
        PROVE  Outcome'[i] = IF i = n THEN "answered" ELSE Outcome[i]
    <2>1. Outcome'[i] = OutcomeOf[link'.fate[i]] /\ Outcome[i] = OutcomeOf[link.fate[i]]
      BY DEF Outcome
    <2>2. Leaves(p, 0, 1, i) <=> i = n
      <3>1. \A j : j \in 0 + 1 .. 0 + 1 <=> j = 1
        OBVIOUS
      <3> QED
        BY <3>1 DEF Leaves
    <2>3. link'.fate[i] = IF i = n THEN "acked" ELSE link.fate[i]
      BY <2>2 DEF Leave
    <2> QED
      BY <2>1, <2>3, OutcomeValues
  <1>8. Outcome' = [Outcome EXCEPT ![n] = "answered"]
    <2> HIDE DEF n
    <2>1. Outcome' = [i \in Numbers |-> Outcome'[i]]
          /\ Outcome = [i \in Numbers |-> Outcome[i]]
      BY DEF Outcome
    <2> QED
      BY <1>4, <1>7, <2>1
  <1> HIDE DEF n
  <1>9. PICK i \in Numbers : i = n
    BY <1>4
  <1>10. Service!Answer(i)
    BY <1>5, <1>6, <1>8, <1>9 DEF Service!Answer, Outcome, Delivered
  <1> QED
    BY <1>10

\* What the PMU receives implements Deliver.
LEMMA DeliverImplemented ==
  ASSUME TypeOK, IInv, PmuReceive
  PROVE  \/ seen' = seen
         \/ \E n \in Numbers : Service!Deliver(n)
  <1> DEFINE f == Head(toPmu)
             n == f.seq
             p == Pending(link)
  <1>1. /\ LinkOK(link) /\ link.next \in Nat /\ link.next <= MaxFrames
        /\ toPmu \in Wire
        /\ \A i \in Numbers : /\ link.fate[i] = "open" <=> Holds(p, i)
                              /\ link.fate[i] = "none" <=> i >= link.next
                              /\ Justified(link.fate[i], link.sends[i])
        /\ WireSound(link, toPmu, seen)
    BY DEF TypeOK, LinkOK, Links, IInv, LinkSound, Sound, Wire
  <1>2. toPmu # <<>> /\ link' = link
        /\ seen' = IF Numbered(f) THEN seen \cup {f} ELSE seen
    BY DEF PmuReceive
  <1>3. f \in Sent /\ f = toPmu[1] /\ 1 \in 1 .. Len(toPmu)
    <2>1. toPmu \in Seq(Sent)
      BY <1>1 DEF Wire, Sent
    <2>2. f \in Sent /\ f = toPmu[1] /\ Len(toPmu) \in Nat /\ Len(toPmu) # 0
      BY <1>2, <2>1, HeadTailProperties, LenProperties, EmptySeq
    <2> QED
      BY <2>2
  <1> SUFFICES ASSUME Numbered(f)
               PROVE  \E i \in Numbers : Service!Deliver(i)
    BY <1>2
  <1>4. Behind(p, link.next, f) /\ link.sends[n] > 0
    BY <1>1, <1>3 DEF WireSound, Left
  <1>5. n \in Numbers /\ n < link.next
    BY <1>1, <1>3, <1>4, LeftNumber
  <1>6. Outcome[n] \notin {"unasked", "skipped"}
    <2>1. link.fate[n] # "none" /\ link.fate[n] # "dropped"
      BY <1>1, <1>4, <1>5 DEF Justified, Numbers
    <2> QED
      BY <1>5, <2>1, ServiceState
  <1>7. \A m \in Delivered : m <= n
    BY <1>1, <1>3 DEF WireSound, Along, Delivered
  <1>8. \A m \in Service!Open : n <= m
    <2>1. Service!Open = {m \in Numbers : Holds(p, m)}
      BY <1>1, ServiceState
    <2> QED
      BY <1>4, <2>1 DEF Behind, Holds
  <1>9. Delivered' = Delivered \cup {n} /\ Outcome' = Outcome
    BY <1>2 DEF Delivered, Outcome
  <1> HIDE DEF n, f
  <1>10. PICK i \in Numbers : i = n
    BY <1>5
  <1>11. Service!Deliver(i)
    BY <1>6, <1>7, <1>8, <1>9, <1>10 DEF Service!Deliver, Outcome, Delivered
  <1> QED
    BY <1>11

\* The commands that leave the link in a write step, as one prefix of the
\* pending ones: the exhausted one and the ones written.
LEMMA WritePrefix ==
  ASSUME TypeOK, IInv, WriteStep
  PROVE  \E k \in 0 .. Len(Pending(link)) :
           /\ Exhausted(link) => k >= 1 /\ Numbered(Pending(link)[1])
           /\ \A i \in Numbers :
                link'.fate[i] = IF ~Leaves(Pending(link), 0, k, i) THEN link.fate[i]
                                ELSE IF Exhausted(link) /\ i = Pending(link)[1].seq
                                THEN "gaveup" ELSE "sent"
  <1> DEFINE p == Pending(link)
             l == AfterTimeout(link)
             q == Pending(l)
  <1>1. /\ LinkOK(link) /\ LinkSound(link) /\ link \in Links /\ link.next \in Nat
        /\ link.next <= MaxFrames /\ Ordered(p, link.next)
    BY DEF TypeOK, LinkOK, Links, IInv, LinkSound, Sound
  <1>2. p \in Seq(Commands) /\ Len(p) \in Nat
    BY <1>1, PendingFacts, LenProperties
  <1>3. PICK n, k0 : WroteOut(l, n, k0)
    BY <1>1, WriteSteps
  <1>4. /\ n \in 0 .. Len(q)
        /\ \A i \in Numbers :
             link'.fate[i] = IF Leaves(q, 0, n, i) THEN "sent" ELSE l.fate[i]
    BY <1>3 DEF WroteOut, Wrote
  <1>5. CASE ~Exhausted(link)
    <2>1. l = link
      BY <1>5 DEF AfterTimeout
    <2> QED
      BY <1>4, <1>5, <2>1
  <1>6. CASE Exhausted(link)
    <2>1. /\ Len(p) >= 1 /\ Numbered(p[1]) /\ Leave(link, l, 1, "gaveup")
      BY <1>1, <1>6, AfterTimeoutSound
    <2>2. /\ Len(q) = Len(p) - 1
          /\ \A i \in 1 .. Len(q) : q[i] = p[i + 1]
          /\ \A i \in Numbers :
               l.fate[i] = IF Leaves(p, 0, 1, i) THEN "gaveup" ELSE link.fate[i]
      <3>1. /\ Len(q) = Len(p) - 1
            /\ \A i \in 1 .. Len(q) : q[i] = p[IF i <= 0 THEN i ELSE i + 1]
            /\ \A i \in Numbers :
                 l.fate[i] = IF Leaves(p, 0, 1, i) THEN "gaveup" ELSE link.fate[i]
        BY <2>1 DEF Leave, Thinned
      <3>2. \A i \in 1 .. Len(q) : ~(i <= 0)
        OBVIOUS
      <3> QED
        BY <3>1, <3>2
    <2> HIDE DEF p, q, l
    <2>3. n + 1 \in 0 .. Len(p) /\ n + 1 >= 1
      BY <1>2, <1>4, <2>2
    <2>4. 1 \in 1 .. Len(p)
      BY <1>2, <2>1
    <2>5. ASSUME NEW i \in Numbers
          PROVE  /\ Leaves(p, 0, 1, i) <=> i = p[1].seq
                 /\ Leaves(q, 0, n, i) => i # p[1].seq
                 /\ Leaves(p, 0, n + 1, i) <=> i = p[1].seq \/ Leaves(q, 0, n, i)
      <3>1. \A j : j \in 0 + 1 .. 0 + 1 <=> j = 1
        OBVIOUS
      <3>2. Leaves(p, 0, 1, i) <=> i = p[1].seq
        BY <2>1, <3>1 DEF Leaves
      <3>3. \A j \in 0 + 1 .. 0 + n :
              /\ j \in 1 .. Len(q) /\ j + 1 \in 0 + 1 .. 0 + (n + 1)
              /\ j + 1 \in 1 .. Len(p) /\ j + 1 # 1
        BY <1>2, <1>4, <2>2
      <3>4. \A j \in 0 + 1 .. 0 + (n + 1) :
              j = 1 \/ (j - 1 \in 0 + 1 .. 0 + n /\ (j - 1) + 1 = j)
        BY <1>2, <1>4, <2>2
      <3>5. Leaves(q, 0, n, i) => i # p[1].seq
        <4> SUFFICES ASSUME NEW j \in 0 + 1 .. 0 + n, Numbered(q[j])
                     PROVE  q[j].seq # p[1].seq
          BY DEF Leaves
        <4>1. q[j] = p[j + 1] /\ j + 1 \in 1 .. Len(p) /\ j + 1 # 1
          BY <2>2, <3>3
        <4>2. \A e \in 1 .. Len(p) : Numbered(p[e]) =>
                (p[1].seq = p[e].seq => 1 = e)
          BY <1>1, <1>2, <2>1, <2>4, NumbersDiffer DEF p
        <4> QED
          BY <4>1, <4>2
      <3>6. Leaves(p, 0, n + 1, i) => i = p[1].seq \/ Leaves(q, 0, n, i)
        <4> SUFFICES ASSUME NEW j \in 0 + 1 .. 0 + (n + 1), Numbered(p[j]),
                            p[j].seq = i, j # 1
                     PROVE  Leaves(q, 0, n, i)
          BY DEF Leaves
        <4>1. j - 1 \in 0 + 1 .. 0 + n /\ (j - 1) + 1 = j
          BY <3>4
        <4>2. q[j - 1] = p[(j - 1) + 1]
          BY <2>2, <3>3, <4>1
        <4> QED
          BY <4>1, <4>2 DEF Leaves
      <3>7. Leaves(q, 0, n, i) => Leaves(p, 0, n + 1, i)
        <4> SUFFICES ASSUME NEW j \in 0 + 1 .. 0 + n, Numbered(q[j]), q[j].seq = i
                     PROVE  Leaves(p, 0, n + 1, i)
          BY DEF Leaves
        <4>1. q[j] = p[j + 1] /\ j + 1 \in 0 + 1 .. 0 + (n + 1)
          BY <2>2, <3>3
        <4> QED
          BY <4>1 DEF Leaves
      <3>8. i = p[1].seq => Leaves(p, 0, n + 1, i)
        <4>1. 1 \in 0 + 1 .. 0 + (n + 1)
          BY <1>4
        <4> QED
          BY <2>1, <4>1 DEF Leaves
      <3> QED
        BY <3>2, <3>5, <3>6, <3>7, <3>8
    <2>6. ASSUME NEW i \in Numbers
          PROVE  link'.fate[i] = IF ~Leaves(p, 0, n + 1, i) THEN link.fate[i]
                                 ELSE IF i = p[1].seq THEN "gaveup" ELSE "sent"
      BY <1>4, <2>2, <2>5
    <2> QED
      BY <1>6, <2>1, <2>3, <2>6 DEF p
  <1> QED
    BY <1>5, <1>6

\* The write handler implements Advance.
LEMMA AdvanceImplemented ==
  ASSUME TypeOK, IInv, WriteStep
  PROVE  UNCHANGED <<Outcome, Delivered>> \/ Service!Advance
  <1> DEFINE p == Pending(link)
             h == p[1].seq
  <1>1. PICK k \in 0 .. Len(p) :
          /\ Exhausted(link) => k >= 1 /\ Numbered(p[1])
          /\ \A i \in Numbers :
               link'.fate[i] = IF ~Leaves(p, 0, k, i) THEN link.fate[i]
                               ELSE IF Exhausted(link) /\ i = h
                               THEN "gaveup" ELSE "sent"
    BY WritePrefix
  <1>2. /\ link \in Links /\ link.next \in Nat
        /\ link.next <= MaxFrames /\ Ordered(p, link.next)
        /\ \A i \in Numbers : link.fate[i] = "open" <=> Holds(p, i)
    BY DEF TypeOK, LinkOK, Links, IInv, LinkSound, Sound
  <1>3. p \in Seq(Commands) /\ Len(p) \in Nat
    BY <1>2, PendingFacts, LenProperties
  <1>4. Delivered' = Delivered
    BY DEF Delivered, WriteStep, WriteNothing, WriteAll, WriteAwait, WriteShort
  <1>5. \A i \in Numbers : /\ Outcome'[i] = OutcomeOf[link'.fate[i]]
                           /\ Outcome[i] = OutcomeOf[link.fate[i]]
    BY DEF Outcome
  <1>6. /\ Outcome' = [i \in Numbers |-> Outcome'[i]]
        /\ Outcome = [i \in Numbers |-> Outcome[i]]
    BY DEF Outcome
  <1>7. CASE \A i \in Numbers : ~Leaves(p, 0, k, i)
    <2>1. \A i \in Numbers : Outcome'[i] = Outcome[i]
      BY <1>1, <1>5, <1>7
    <2>2. Outcome' = Outcome
      BY <1>6, <2>1
    <2> QED
      BY <1>4, <2>2
  <1>8. CASE \E i \in Numbers : Leaves(p, 0, k, i)
    <2> DEFINE first == IF Exhausted(link) THEN "silent" ELSE "written"
    <2>1. PICK m \in Numbers :
            /\ Leaves(p, 0, k, m)
            /\ \A i \in Numbers : Leaves(p, 0, k, i) <=> Holds(p, i) /\ i <= m
      BY <1>2, <1>3, <1>8, LeavesUpTo
    <2>2. Service!Open = {i \in Numbers : Holds(p, i)}
      BY <1>2, ServiceState
    <2>3. \A j : Service!UpTo(j) = {i \in Numbers : Holds(p, i) /\ i <= j}
      BY <2>2 DEF Service!UpTo
    <2>4. m \in Service!Open
      BY <2>1, <2>2
    <2>5. \A i \in Numbers : i \in Service!UpTo(m) <=> Leaves(p, 0, k, i)
      BY <2>1, <2>3
    <2>6. ASSUME NEW i \in Numbers, Leaves(p, 0, k, i), Exhausted(link)
          PROVE  Service!UpTo(i) = {i} <=> i = h
      <3>1. 1 \in 1 .. Len(p) /\ Numbered(p[1])
        BY <1>1, <1>3, <2>6
      <3>2. \A j \in 1 .. Len(p) : 1 <= j
        OBVIOUS
      <3>3. /\ h \in Numbers
            /\ \A j \in 1 .. Len(p) : Numbered(p[j]) => h <= p[j].seq
        BY <1>2, <1>3, <3>1, <3>2, NumbersDiffer
      <3>4. Holds(p, h)
        BY <3>1 DEF Holds
      <3>5. \A j \in Numbers : Holds(p, j) => h <= j
        BY <3>3 DEF Holds
      <3>6. Holds(p, i)
        BY <2>1, <2>6
      <3> HIDE DEF h, p
      <3>7. ASSUME i = h PROVE Service!UpTo(i) = {i}
        <4>1. \A j \in Numbers : j <= h /\ h <= j <=> j = h
          BY <3>3 DEF Numbers
        <4> QED
          BY <2>3, <3>4, <3>5, <3>7, <4>1
      <3>8. ASSUME i # h PROVE Service!UpTo(i) # {i}
        BY <2>3, <3>3, <3>4, <3>5, <3>6, <3>8
      <3> QED
        BY <3>7, <3>8
    <2>7. ASSUME NEW i \in Numbers
          PROVE  Outcome'[i] = IF i \in Service!UpTo(m)
                               THEN IF Service!UpTo(i) = {i} THEN first
                                    ELSE "written"
                               ELSE Outcome[i]
      <3>1. CASE ~Leaves(p, 0, k, i)
        BY <1>1, <1>5, <2>5, <3>1
      <3>2. CASE Leaves(p, 0, k, i) /\ ~Exhausted(link)
        <4>1. link'.fate[i] = "sent"
          BY <1>1, <3>2
        <4> QED
          BY <1>5, <2>5, <3>2, <4>1, OutcomeValues
      <3>3. CASE Leaves(p, 0, k, i) /\ Exhausted(link)
        <4>1. link'.fate[i] = IF i = h THEN "gaveup" ELSE "sent"
          BY <1>1, <3>3
        <4>2. Service!UpTo(i) = {i} <=> i = h
          BY <2>6, <3>3
        <4> QED
          BY <1>5, <2>5, <3>3, <4>1, <4>2, OutcomeValues
      <3> QED
        BY <3>1, <3>2, <3>3
    <2>8. Outcome' = [i \in Numbers |->
                        IF i \in Service!UpTo(m)
                        THEN IF Service!UpTo(i) = {i} THEN first ELSE "written"
                        ELSE Outcome[i]]
      <3> HIDE DEF first
      <3> QED BY <1>6, <2>7
    <2>9. first \in {"silent", "written"}
      OBVIOUS
    <2> HIDE DEF first
    <2>10. PICK g \in {"silent", "written"} : g = first
      BY <2>9
    <2>11. Outcome' = [i \in Numbers |->
                         IF i \in Service!UpTo(m)
                         THEN IF Service!UpTo(i) = {i} THEN g ELSE "written"
                         ELSE Outcome[i]]
      BY <2>8, <2>10
    <2> QED
      BY <1>4, <2>4, <2>11 DEF Service!Advance, Outcome, Delivered
  <1> QED
    BY <1>7, <1>8

\* The link implements the ordered service of OrderedService.tla: queue, wire,
\* timeouts, retransmission and overflow do not show.
THEOREM LinkIsService == Spec => ServiceSpec
  <1>1. Init => Service!SInit
    <2> SUFFICES ASSUME Init PROVE Service!SInit
      OBVIOUS
    <2>1. \A n \in Numbers : link.fate[n] = "none"
      BY DEF Init
    <2>2. \A n \in Numbers : OutcomeOf[link.fate[n]] = "unasked"
      BY <2>1, OutcomeValues
    <2>3. seen = {}
      BY DEF Init
    <2> QED
      BY <2>2, <2>3 DEF Service!SInit
  <1>2. /\ TypeOK /\ IInv /\ TypeOK' /\ IInv' /\ [Next]_vars
        => [Service!SNext]_(Service!svars)
    <2> SUFFICES ASSUME TypeOK, IInv, TypeOK', IInv', [Next]_vars
                 PROVE  Service!SNext \/ UNCHANGED <<Outcome, Delivered>>
      BY DEF Service!svars, Outcome, Delivered
    <2>1. ASSUME link' = link, seen' = seen
          PROVE  UNCHANGED <<Outcome, Delivered>>
      BY <2>1 DEF Outcome, Delivered
    <2>2. CASE WriteStep
      BY <2>2, AdvanceImplemented DEF Service!SNext
    <2>3. CASE QueueStep
      <3>1. AsksMore(link, link')
        BY <2>3, QueueSteps DEF IInv
      <3>2. seen' = seen
        BY <2>3 DEF QueueStep, CheckTimeout, Expire, Request, ReadFrame
      <3> QED
        BY <3>1, <3>2, AskImplemented DEF Service!SNext
    <2>4. CASE AnswerStep
      <3>1. seen' = seen
        BY <2>4 DEF AnswerStep, ReadFrame
      <3> QED
        BY <2>1, <2>4, <3>1, AnswerImplemented DEF Service!SNext
    <2>5. CASE PmuReceive
      <3>1. link' = link
        BY <2>5 DEF PmuReceive
      <3> QED
        BY <2>1, <2>5, <3>1, DeliverImplemented DEF Service!SNext
    <2>6. CASE PmuNotify \/ LoseToPmu \/ LoseToHost \/ UNCHANGED vars
      BY <2>1, <2>6 DEF PmuNotify, LoseToPmu, LoseToHost, vars
    <2> QED
      BY <2>2, <2>3, <2>4, <2>5, <2>6
         DEF Next, WriteStep, QueueStep, AnswerStep, ReadFrame
  <1> QED
    BY <1>1, <1>2, Invariant, PTL DEF Spec, ServiceSpec, Service!SSpec
==============================================================================
