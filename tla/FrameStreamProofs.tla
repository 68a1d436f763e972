-------------------------- MODULE FrameStreamProofs --------------------------
EXTENDS FrameStream, FiniteSetTheorems, SequenceTheorems, WellFoundedInduction,
        TLAPS

(***************************************************************************)
(* The loop of the parser, taken apart.                                    *)
(***************************************************************************)
StopAt(used) == [used |-> used, found |-> <<>>]

From(b, L, j, used) == IF j > Len(b) THEN StopAt(used) ELSE L[j]

EndOf(b, i) == i + Size(b, i) - 1

FoundAt(b, i) == [body |-> Body(b, i), last |-> EndOf(b, i)]

Step(b, L, i) ==
  LET Skip == From(b, L, EndOf(b, i) + 1, EndOf(b, i))
  IN  IF Waits(b, i) THEN StopAt(i - 1)
      ELSE IF ~Whole(b, i) THEN From(b, L, i + 1, i - 1)
      ELSE IF BadSum(b, i) THEN Skip
      ELSE [Skip EXCEPT !.found = <<FoundAt(b, i)>> \o @]

Loop(b) == CHOOSE L : L = [i \in 1 .. Len(b) |-> Step(b, L, i)]

\* The parser is the loop from the first byte on.
LEMMA ParseIs ==
  ASSUME NEW b
  PROVE  Parse(b) = IF Len(b) < MinLen + Overhead THEN StopAt(0) ELSE Loop(b)[1]
BY DEF Parse, Loop, Step, From, StopAt, EndOf, FoundAt

\* What is true at a position if it is at all later ones is true at all.
LEMMA Downwards ==
  ASSUME NEW n \in Nat, NEW G,
         \A i \in 1 .. n : (\A j \in i + 1 .. n : j \in G) => i \in G
  PROVE  \A i \in 1 .. n : i \in G
<1> DEFINE T == {n - i : i \in (1 .. n) \ G}
<1> SUFFICES ASSUME T # {} PROVE FALSE
  OBVIOUS
<1>1. T \subseteq Nat
  <2>1. \A i \in 1 .. n : n - i \in Nat
    OBVIOUS
  <2> QED BY <2>1
<1>2. PICK x \in T : \A y \in T : ~(<<y, x>> \in OpToRel(<, Nat))
  <2> HIDE DEF T
  <2> QED BY <1>1, NatLessThanWellFounded, WFMin
<1>3. \A y \in T : ~(y < x)
  <2> HIDE DEF T
  <2> QED BY <1>1, <1>2 DEF OpToRel
<1>4. PICK i \in (1 .. n) \ G : x = n - i
  OBVIOUS
<1>5. \A j \in (1 .. n) \ G : n - j \in T
  OBVIOUS
<1>6. \A j \in i + 1 .. n : j \in 1 .. n /\ n - j < x
  BY <1>4
<1>7. \A j \in i + 1 .. n : j \in G
  BY <1>3, <1>5, <1>6
<1> QED BY <1>4, <1>7

\* Where a frame that is all there ends.
LEMMA WholeEnds ==
  ASSUME NEW b \in Seq(Nat), NEW i \in 1 .. Len(b), Whole(b, i)
  PROVE  /\ i + 1 \in 1 .. Len(b) /\ b[i + 1] \in MinLen .. MaxLen
         /\ Size(b, i) = b[i + 1] + Overhead
         /\ EndOf(b, i) \in Nat
         /\ i + MinLen + Overhead - 1 <= EndOf(b, i) /\ EndOf(b, i) <= Len(b)
         /\ EndOf(b, i) <= i + MaxLen + Overhead - 1
<1>1. Len(b) \in Nat /\ MinLen \in Nat /\ MaxLen \in Nat /\ MinLen >= 1
  BY BytesAssumption
<1>2. ~(Len(b) - i + 1 < MinLen + 4)
  BY DEF Whole, Short, Left, Overhead
<1>3. i + 1 \in 1 .. Len(b)
  BY <1>1, <1>2
<1>4. b[i + 1] \in Nat
  BY <1>3
<1>5. ~(b[i + 1] < MinLen) /\ ~(b[i + 1] > MaxLen)
  BY DEF Whole, BadLength
<1>6. ~(b[i + 1] + 4 > Len(b) - i + 1)
  BY DEF Whole, Incomplete, Size, Left, Overhead
<1> DEFINE v == b[i + 1]
<1>7. v \in Nat /\ MinLen <= v /\ v <= MaxLen /\ v + 4 <= Len(b) - i + 1
  <2> DEFINE n == Len(b)
  <2>1. /\ v \in Nat /\ n \in Nat /\ i \in Int
        /\ ~(v < MinLen) /\ ~(v > MaxLen) /\ ~(v + 4 > n - i + 1)
    BY <1>1, <1>4, <1>5, <1>6
  <2> HIDE DEF v, n
  <2>2. v \in Nat /\ MinLen <= v /\ v <= MaxLen /\ v + 4 <= n - i + 1
    BY <1>1, <2>1
  <2> QED BY <2>2 DEF n
<1>8. Size(b, i) = v + 4 /\ EndOf(b, i) = i + (v + 4) - 1
  BY DEF EndOf, Size, Overhead
<1> HIDE DEF v
<1>9. i + (v + 4) - 1 \in Nat /\ i + MinLen + 4 - 1 <= i + (v + 4) - 1
      /\ i + (v + 4) - 1 <= Len(b) /\ i + (v + 4) - 1 <= i + MaxLen + 4 - 1
  BY <1>1, <1>7
<1>10. v \in MinLen .. MaxLen
  BY <1>1, <1>7
<1> QED BY <1>3, <1>8, <1>9, <1>10 DEF v, Overhead

\* A step of the loop depends on the later ones only.
LEMMA StepLooksAhead ==
  ASSUME NEW b \in Seq(Nat), NEW i \in 1 .. Len(b), NEW f, NEW g,
         \A j \in i + 1 .. Len(b) : f[j] = g[j]
  PROVE  Step(b, f, i) = Step(b, g, i)
<1>1. Len(b) \in Nat
  OBVIOUS
<1>2. ASSUME NEW j \in Nat, NEW u, j > i
      PROVE  From(b, f, j, u) = From(b, g, j, u)
  <2>1. j > Len(b) \/ j \in i + 1 .. Len(b)
    BY <1>1, <1>2
  <2> QED BY <1>1, <2>1 DEF From
<1>3. From(b, f, i + 1, i - 1) = From(b, g, i + 1, i - 1)
  BY <1>2
<1>4. CASE Whole(b, i)
  <2>1. EndOf(b, i) + 1 \in Nat /\ EndOf(b, i) + 1 > i
    BY <1>1, <1>4, WholeEnds, BytesAssumption DEF Overhead
  <2>2. From(b, f, EndOf(b, i) + 1, EndOf(b, i)) = From(b, g, EndOf(b, i) + 1, EndOf(b, i))
    BY <1>2, <2>1
  <2> QED BY <1>4, <2>2 DEF Step
<1>5. CASE ~Whole(b, i)
  BY <1>3, <1>5 DEF Step
<1> QED BY <1>4, <1>5

\* So the loop is what its equation says.
LEMMA LoopExists ==
  ASSUME NEW b \in Seq(Nat)
  PROVE  Loop(b) = [i \in 1 .. Len(b) |-> Step(b, Loop(b), i)]
<1> DEFINE n == Len(b)
           G == {i \in 1 .. n + 1 : \E f : f = [j \in i .. n |-> Step(b, f, j)]}
<1>0. n \in Nat
  OBVIOUS
<1>1. ASSUME NEW i \in 1 .. n + 1, \A j \in i + 1 .. n + 1 : j \in G
      PROVE  i \in G
  <2>1. CASE i = n + 1
    <3> DEFINE f == [j \in i .. n |-> {}]
    <3>1. i .. n = {}
      BY <1>0, <2>1
    <3>2. f = [j \in i .. n |-> Step(b, f, j)]
      BY <3>1
    <3> QED BY <3>2
  <2>2. CASE i <= n
    <3>1. i + 1 \in G
      <4>1. i + 1 \in i + 1 .. n + 1
        BY <1>0, <2>2
      <4> HIDE DEF G
      <4> QED BY <1>1, <4>1
    <3>2. PICK f : f = [j \in i + 1 .. n |-> Step(b, f, j)]
      BY <3>1
    <3> DEFINE g == [j \in i .. n |-> IF j = i THEN Step(b, f, i) ELSE f[j]]
    <3>3. \A j \in i + 1 .. n : g[j] = f[j]
      BY <1>0
    <3>4. ASSUME NEW j \in i .. n PROVE Step(b, f, j) = Step(b, g, j)
      <4>1. j \in 1 .. Len(b) /\ \A k \in j + 1 .. Len(b) : k \in i + 1 .. n
        BY <1>0
      <4>2. \A k \in j + 1 .. Len(b) : f[k] = g[k]
        BY <3>3, <4>1
      <4> HIDE DEF g
      <4> QED BY <4>1, <4>2, StepLooksAhead
    <3>5. \A j \in i .. n : g[j] = Step(b, f, j)
      <4>1. \A j \in i .. n : j = i \/ j \in i + 1 .. n
        BY <1>0
      <4>2. \A j \in i + 1 .. n : f[j] = Step(b, f, j)
        BY <3>2
      <4> QED BY <4>1, <4>2
    <3>6. g = [j \in i .. n |-> Step(b, g, j)]
      <4>1. g = [j \in i .. n |-> g[j]]
        OBVIOUS
      <4> HIDE DEF g
      <4> QED BY <3>4, <3>5, <4>1
    <3> HIDE DEF g
    <3> QED BY <3>6
  <2> QED BY <1>0, <2>1, <2>2
<1>2. 1 \in G
  <2>1. n + 1 \in Nat /\ 1 \in 1 .. n + 1
    BY <1>0
  <2> HIDE DEF G, n
  <2> QED BY <1>1, <2>1, Downwards
<1>3. \E L : L = [i \in 1 .. Len(b) |-> Step(b, L, i)]
  BY <1>2
<1> QED BY <1>3 DEF Loop

(***************************************************************************)
(* The loop in one equation: where it waits it stops; else it goes on      *)
(* behind the frame or the byte it has looked at.                          *)
(***************************************************************************)
Gain(b, i) == IF Whole(b, i) /\ ~BadSum(b, i) THEN <<FoundAt(b, i)>> ELSE <<>>
Jump(b, i) == IF Whole(b, i) THEN EndOf(b, i) + 1 ELSE i + 1
Mark(b, i) == IF Whole(b, i) THEN EndOf(b, i) ELSE i - 1

Joined(found, r) == [used |-> r.used, found |-> found \o r.found]

FrameSet == [body: Seq(Nat), last: Nat]
Results == [used: Nat, found: Seq(FrameSet)]

\* A part of a buffer.
LEMMA SliceIs ==
  ASSUME NEW s, NEW a \in Int, NEW z \in Int, a <= z, \A j \in a .. z : s[j] \in Nat
  PROVE  /\ SubSeq(s, a, z) \in Seq(Nat) /\ Len(SubSeq(s, a, z)) = z - a + 1
         /\ \A j \in 1 .. z - a + 1 : SubSeq(s, a, z)[j] = s[a + j - 1]
<1>1. /\ SubSeq(s, a, z) \in Seq(Nat)
      /\ Len(SubSeq(s, a, z)) = IF a <= z THEN z - a + 1 ELSE 0
      /\ \A j \in 1 .. z - a + 1 : SubSeq(s, a, z)[j] = s[a + j - 1]
  BY SubSeqProperties
<1> QED BY <1>1

\* The body of a frame that is all there.
LEMMA BodyIs ==
  ASSUME NEW b \in Seq(Nat), NEW i \in 1 .. Len(b), Whole(b, i)
  PROVE  /\ Body(b, i) \in Seq(Nat) /\ Len(Body(b, i)) = b[i + 1]
         /\ \A k \in 1 .. b[i + 1] : Body(b, i)[k] = b[i + 1 + k]
<1> DEFINE v == b[i + 1]
           m == i + 2
           n == i + 1 + v
<1>1. /\ i + 1 \in 1 .. Len(b) /\ v \in MinLen .. MaxLen
      /\ Size(b, i) = v + Overhead
      /\ EndOf(b, i) \in Nat /\ EndOf(b, i) <= Len(b)
  BY WholeEnds
<1>2. Len(b) \in Nat /\ MinLen \in Nat /\ MaxLen \in Nat /\ MinLen >= 1
  BY BytesAssumption
<1> HIDE DEF v
<1>3. v \in Nat /\ v >= 1
  BY <1>1, <1>2
<1>4. EndOf(b, i) = i + (v + 4) - 1
  BY <1>1 DEF EndOf, Overhead
<1>5. m \in Int /\ n \in Int /\ n - m + 1 = v /\ m <= n
  BY <1>3
<1>6. m .. n \subseteq 1 .. Len(b)
  BY <1>1, <1>2, <1>3, <1>4
<1>7. \A j \in m .. n : b[j] \in Nat
  <2> HIDE DEF m, n
  <2> QED BY <1>6, ElementOfSeq
<1>8. Body(b, i) = SubSeq(b, m, n)
  <2>1. i + Size(b, i) - 3 = i + (v + 4) - 3
    BY <1>1 DEF Overhead
  <2>2. i + (v + 4) - 3 = n
    BY <1>3
  <2> QED BY <2>1, <2>2 DEF Body
<1>9. \A k \in 1 .. v : m + k - 1 = i + 1 + k
  BY <1>3
<1> HIDE DEF m, n
<1>10. /\ SubSeq(b, m, n) \in Seq(Nat)
      /\ Len(SubSeq(b, m, n)) = n - m + 1
      /\ \A k \in 1 .. n - m + 1 : SubSeq(b, m, n)[k] = b[m + k - 1]
  BY <1>5, <1>7, SliceIs
<1> QED BY <1>5, <1>8, <1>9, <1>10 DEF v

\* Where the loop goes from a place and what it takes with it: forwards, with
\* at most the bytes of the buffer, and with a frame only if one is there.
LEMMA Moves ==
  ASSUME NEW b \in Seq(Nat), NEW i \in 1 .. Len(b)
  PROVE  /\ Jump(b, i) \in Nat /\ i < Jump(b, i) /\ Jump(b, i) <= Len(b) + 1
         /\ Mark(b, i) \in Nat /\ Mark(b, i) <= Len(b) /\ i - 1 <= Mark(b, i)
         /\ Mark(b, i) + 1 = IF Whole(b, i) THEN Jump(b, i) ELSE i
         /\ Gain(b, i) \in Seq(FrameSet)
         /\ ~Whole(b, i) => Gain(b, i) = <<>>
<1>1. Len(b) \in Nat
  OBVIOUS
<1>2. CASE Whole(b, i)
  <2>1. /\ EndOf(b, i) \in Nat /\ i < EndOf(b, i) /\ EndOf(b, i) <= Len(b)
    BY <1>2, WholeEnds, BytesAssumption DEF Overhead
  <2>2. FoundAt(b, i) \in FrameSet
    BY <1>2, <2>1, BodyIs DEF FoundAt, FrameSet
  <2>3. Gain(b, i) \in Seq(FrameSet)
    BY <2>2 DEF Gain
  <2> QED BY <1>1, <1>2, <2>1, <2>3 DEF Jump, Mark
<1>3. CASE ~Whole(b, i)
  BY <1>1, <1>3 DEF Jump, Mark, Gain
<1> QED BY <1>2, <1>3

\* Results put together: the frames of the first, then those of the second.
LEMMA JoinedIs ==
  ASSUME NEW r \in Results
  PROVE  /\ Joined(<<>>, r) = r
         /\ \A f \in Seq(FrameSet) : /\ Joined(f, r) \in Results
                                     /\ Joined(f, r).used = r.used
                                     /\ Joined(f, r).found = f \o r.found
         /\ \A f, g \in Seq(FrameSet) : Joined(f, Joined(g, r)) = Joined(f \o g, r)
<1>1. r = [used |-> r.used, found |-> r.found] /\ r.used \in Nat /\ r.found \in Seq(FrameSet)
  BY DEF Results
<1>2. <<>> \o r.found = r.found
  BY <1>1, ConcatEmptySeq
<1>3. \A f \in Seq(FrameSet) : f \o r.found \in Seq(FrameSet)
  BY <1>1, ConcatProperties
<1>4. \A f, g \in Seq(FrameSet) : (f \o g) \o r.found = f \o (g \o r.found)
  BY <1>1, ConcatAssociative
<1>5. \A f \in Seq(FrameSet) : /\ Joined(f, r) \in Results
                               /\ Joined(f, r).used = r.used
                               /\ Joined(f, r).found = f \o r.found
  BY <1>1, <1>3 DEF Joined, Results
<1> QED BY <1>1, <1>2, <1>4, <1>5 DEF Joined

\* The result of a loop that ends at once.
LEMMA StopJoined ==
  ASSUME NEW u \in Nat
  PROVE  /\ StopAt(u) \in Results /\ StopAt(u).used = u /\ StopAt(u).found = <<>>
         /\ \A f \in Seq(FrameSet) : Joined(f, StopAt(u)) = [used |-> u, found |-> f]
BY ConcatEmptySeq DEF StopAt, Results, Joined

\* The results have their type.
LEMMA LoopIs ==
  ASSUME NEW b \in Seq(Nat)
  PROVE  \A i \in 1 .. Len(b) :
           /\ Loop(b)[i] \in Results
           /\ Loop(b)[i] = IF Waits(b, i) THEN StopAt(i - 1)
                           ELSE Joined(Gain(b, i),
                                       From(b, Loop(b), Jump(b, i), Mark(b, i)))
<1> DEFINE n == Len(b)
           L == Loop(b)
           G == {i \in 1 .. n :
                   /\ L[i] \in Results
                   /\ L[i] = IF Waits(b, i) THEN StopAt(i - 1)
                             ELSE Joined(Gain(b, i),
                                         From(b, L, Jump(b, i), Mark(b, i)))}
<1>0. n \in Nat
  OBVIOUS
<1>1. \A i \in 1 .. n : L[i] = Step(b, L, i)
  <2> HIDE DEF L
  <2> QED BY LoopExists DEF L
<1> HIDE DEF L
<1>2. ASSUME NEW i \in 1 .. n, \A j \in i + 1 .. n : j \in G
      PROVE  i \in G
  <2>1. \A j \in i + 1 .. n : L[j] \in Results
    BY <1>2
  <2>2. CASE Waits(b, i)
    <3>1. L[i] = StopAt(i - 1)
      BY <1>1, <2>2 DEF Step
    <3>2. i - 1 \in Nat
      BY <1>0
    <3>3. L[i] \in Results
      BY <3>1, <3>2, StopJoined
    <3> QED BY <2>2, <3>1, <3>3
  <2>3. CASE ~Waits(b, i)
    <3> DEFINE r == From(b, L, Jump(b, i), Mark(b, i))
    <3>1. /\ Jump(b, i) \in Nat /\ i < Jump(b, i) /\ Mark(b, i) \in Nat
          /\ Gain(b, i) \in Seq(FrameSet)
      BY Moves
    <3>2. r \in Results
      <4>1. CASE Jump(b, i) > n
        BY <3>1, <4>1, StopJoined DEF From
      <4>2. CASE ~(Jump(b, i) > n)
        <5>1. Jump(b, i) \in i + 1 .. n
          BY <1>0, <3>1, <4>2
        <5> QED BY <2>1, <4>2, <5>1 DEF From
      <4> QED BY <4>1, <4>2
    <3>3. L[i] = Joined(Gain(b, i), r)
      <4>1. CASE ~Whole(b, i)
        <5>1. L[i] = r
          BY <1>1, <2>3, <4>1 DEF Step, Jump, Mark
        <5>2. Gain(b, i) = <<>>
          BY <4>1 DEF Gain
        <5> HIDE DEF r
        <5> QED BY <3>2, <5>1, <5>2, JoinedIs
      <4>2. CASE Whole(b, i) /\ BadSum(b, i)
        <5>1. L[i] = r
          BY <1>1, <2>3, <4>2 DEF Step, Jump, Mark
        <5>2. Gain(b, i) = <<>>
          BY <4>2 DEF Gain
        <5> HIDE DEF r
        <5> QED BY <3>2, <5>1, <5>2, JoinedIs
      <4>3. CASE Whole(b, i) /\ ~BadSum(b, i)
        <5>1. L[i] = [r EXCEPT !.found = Gain(b, i) \o @]
          BY <1>1, <2>3, <4>3 DEF Step, Jump, Mark, Gain
        <5> HIDE DEF r
        <5>2. r = [used |-> r.used, found |-> r.found]
          BY <3>2 DEF Results
        <5> QED BY <5>1, <5>2 DEF Joined
      <4> QED BY <4>1, <4>2, <4>3
    <3>4. L[i] \in Results
      <4> HIDE DEF r
      <4> QED BY <3>1, <3>2, <3>3, JoinedIs
    <3> QED BY <2>3, <3>3, <3>4
  <2> QED BY <2>2, <2>3
<1>3. \A i \in 1 .. n : i \in G
  <2> HIDE DEF G, n
  <2> QED BY <1>0, <1>2, Downwards
<1> QED BY <1>3 DEF L
----------------------------------------------------------------------------
(***************************************************************************)
(* The same bytes in a longer buffer, k places further on.                 *)
(***************************************************************************)
Window(b, d, k) ==
  Len(b) + k <= Len(d) /\ \A j \in 1 .. Len(b) : d[j + k] = b[j]

Moved(found, k) == [j \in DOMAIN found |-> [found[j] EXCEPT !.last = @ + k]]

MovedBy(r, k) == [used |-> r.used + k, found |-> Moved(r.found, k)]

\* A whole frame of the window is one of the longer buffer.
LEMMA WindowWhole ==
  ASSUME NEW b \in Seq(Nat), NEW d \in Seq(Nat), NEW k \in Nat, Window(b, d, k),
         NEW i \in 1 .. Len(b), Whole(b, i)
  PROVE  /\ i + k \in 1 .. Len(d) /\ Whole(d, i + k) /\ ~Waits(d, i + k)
         /\ EndOf(d, i + k) = EndOf(b, i) + k
         /\ Body(d, i + k) = Body(b, i)
         /\ BadSum(d, i + k) <=> BadSum(b, i)
<1> DEFINE v == b[i + 1]
<1>1. /\ Len(b) \in Nat /\ Len(d) \in Nat /\ Len(b) + k <= Len(d)
      /\ MinLen \in Nat /\ MaxLen \in Nat /\ MinLen >= 1
  <2>1. Len(b) \in Nat /\ Len(d) \in Nat
    OBVIOUS
  <2>2. Len(b) + k <= Len(d)
    BY DEF Window
  <2>3. MinLen \in Nat /\ MaxLen \in Nat /\ MinLen >= 1
    BY BytesAssumption
  <2> QED BY <2>1, <2>2, <2>3
<1>2. /\ i + 1 \in 1 .. Len(b) /\ v \in MinLen .. MaxLen
      /\ Size(b, i) = v + 4
      /\ EndOf(b, i) \in Nat /\ EndOf(b, i) <= Len(b)
  BY WholeEnds DEF Overhead
<1>3. EndOf(b, i) = i + (v + 4) - 1
  BY <1>2 DEF EndOf
<1> HIDE DEF v
<1>4. v \in Nat /\ v >= 1 /\ i + v + 3 <= Len(b)
  BY <1>1, <1>2, <1>3
<1>5. i + k \in 1 .. Len(d) /\ i + k + 1 \in 1 .. Len(d)
  <2> DEFINE m == Len(b)
             n == Len(d)
  <2>1. m \in Nat /\ n \in Nat /\ m + k <= n /\ i \in 1 .. m /\ i + 1 \in 1 .. m
    BY <1>1, <1>2
  <2> HIDE DEF m, n
  <2>2. i + k \in 1 .. n /\ i + k + 1 \in 1 .. n
    BY <2>1
  <2> QED BY <2>2 DEF n
<1>6. d[i + k] = b[i] /\ d[i + k + 1] = v
  <2>1. \A j \in 1 .. Len(b) : d[j + k] = b[j]
    BY DEF Window
  <2>2. d[(i + 1) + k] = v
    BY <1>2, <2>1 DEF v
  <2>3. (i + 1) + k = i + k + 1
    OBVIOUS
  <2> QED BY <2>1, <2>2, <2>3
<1>7. Size(d, i + k) = v + 4
  BY <1>6 DEF Size, Overhead
<1>8. EndOf(d, i + k) = EndOf(b, i) + k
  BY <1>3, <1>4, <1>7 DEF EndOf
<1>9. \A j \in 0 .. v + 3 : i + j \in 1 .. Len(b) /\ d[i + k + j] = b[i + j]
  <2>1. \A j \in 1 .. Len(b) : d[j + k] = b[j]
    BY DEF Window
  <2> TAKE j \in 0 .. v + 3
  <2>2. i + j \in 1 .. Len(b) /\ (i + j) + k = i + k + j
    BY <1>1, <1>4
  <2> QED BY <2>1, <2>2
<1>10. Whole(d, i + k)
  <2>1. d[i + k] = Start
    BY <1>6 DEF Whole
  <2>2. ~Short(d, i + k)
    <3>1. ~(Len(b) - i + 1 < MinLen + 4)
      BY DEF Whole, Short, Left, Overhead
    <3> QED BY <1>1, <3>1 DEF Short, Left, Overhead
  <2>3. ~BadLength(d, i + k)
    BY <1>1, <1>2, <1>6 DEF BadLength
  <2>4. ~Incomplete(d, i + k)
    BY <1>1, <1>4, <1>7 DEF Incomplete, Left
  <2>5. ~NoEnd(d, i + k)
    <3>1. b[i + (v + 4) - 1] = End
      BY <1>2 DEF Whole, NoEnd
    <3>2. v + 3 \in 0 .. v + 3 /\ i + (v + 4) - 1 = i + (v + 3)
          /\ (i + k) + (v + 4) - 1 = i + k + (v + 3)
      BY <1>4
    <3>3. d[(i + k) + (v + 4) - 1] = End
      BY <1>9, <3>1, <3>2
    <3> QED BY <1>7, <3>3 DEF NoEnd
  <2> QED BY <2>1, <2>2, <2>3, <2>4, <2>5 DEF Whole
<1>11. ~Waits(d, i + k)
  BY <1>10 DEF Whole, Waits
<1>12. Body(d, i + k) = Body(b, i)
  <2>1. /\ Body(b, i) \in Seq(Nat) /\ Len(Body(b, i)) = v
        /\ \A j \in 1 .. v : Body(b, i)[j] = b[i + 1 + j]
    BY BodyIs DEF v
  <2>2. /\ Body(d, i + k) \in Seq(Nat) /\ Len(Body(d, i + k)) = v
        /\ \A j \in 1 .. v : Body(d, i + k)[j] = d[i + k + 1 + j]
    <3> HIDE DEF Body
    <3> QED BY <1>5, <1>6, <1>10, BodyIs
  <2>3. \A j \in 1 .. v : d[i + k + 1 + j] = b[i + 1 + j]
    <3> TAKE j \in 1 .. v
    <3>1. j + 1 \in 0 .. v + 3 /\ i + k + (j + 1) = i + k + 1 + j
          /\ i + (j + 1) = i + 1 + j
      BY <1>4
    <3> QED BY <1>9, <3>1
  <2> QED BY <2>1, <2>2, <2>3, SeqEqual
<1>13. BadSum(d, i + k) <=> BadSum(b, i)
  <2> DEFINE s == SubSeq(b, i + 1, i + (v + 1))
             t == SubSeq(d, i + k + 1, i + k + (v + 1))
  <2>1. /\ s \in Seq(Nat) /\ Len(s) = v + 1
        /\ \A j \in 1 .. v + 1 : s[j] = b[i + j]
    <3>1. i + 1 \in Int /\ i + (v + 1) \in Int /\ i + 1 <= i + (v + 1)
          /\ (i + (v + 1)) - (i + 1) + 1 = v + 1
      BY <1>4
    <3>2. \A j \in i + 1 .. i + (v + 1) : b[j] \in Nat
      <4>1. i + 1 .. i + (v + 1) \subseteq 1 .. Len(b)
        BY <1>1, <1>4
      <4> QED BY <4>1, ElementOfSeq
    <3>3. /\ s \in Seq(Nat) /\ Len(s) = (i + (v + 1)) - (i + 1) + 1
          /\ \A j \in 1 .. (i + (v + 1)) - (i + 1) + 1 : s[j] = b[i + 1 + j - 1]
      BY <3>1, <3>2, SliceIs
    <3>4. \A j \in 1 .. v + 1 : i + 1 + j - 1 = i + j
      BY <1>4
    <3> QED BY <3>1, <3>3, <3>4
  <2>2. /\ t \in Seq(Nat) /\ Len(t) = v + 1
        /\ \A j \in 1 .. v + 1 : t[j] = d[i + k + j]
    <3> DEFINE m == i + k
    <3>0. m \in 1 .. Len(d) /\ m + v + 3 <= Len(d)
      BY <1>1, <1>4, <1>5
    <3> HIDE DEF m
    <3>1. m + 1 \in Int /\ m + (v + 1) \in Int /\ m + 1 <= m + (v + 1)
          /\ (m + (v + 1)) - (m + 1) + 1 = v + 1
      BY <1>4, <3>0
    <3>2. \A j \in m + 1 .. m + (v + 1) : d[j] \in Nat
      <4>1. m + 1 .. m + (v + 1) \subseteq 1 .. Len(d)
        BY <1>1, <1>4, <3>0
      <4> QED BY <4>1, ElementOfSeq
    <3>3. /\ SubSeq(d, m + 1, m + (v + 1)) \in Seq(Nat)
          /\ Len(SubSeq(d, m + 1, m + (v + 1))) = (m + (v + 1)) - (m + 1) + 1
          /\ \A j \in 1 .. (m + (v + 1)) - (m + 1) + 1 :
               SubSeq(d, m + 1, m + (v + 1))[j] = d[m + 1 + j - 1]
      <4> DEFINE a == m + 1
                 z == m + (v + 1)
      <4>1. a \in Int /\ z \in Int /\ a <= z /\ \A j \in a .. z : d[j] \in Nat
        BY <3>1, <3>2
      <4> HIDE DEF a, z
      <4>2. /\ SubSeq(d, a, z) \in Seq(Nat) /\ Len(SubSeq(d, a, z)) = z - a + 1
            /\ \A j \in 1 .. z - a + 1 : SubSeq(d, a, z)[j] = d[a + j - 1]
        BY <4>1, SliceIs
      <4> QED BY <4>2 DEF a, z
    <3>4. \A j \in 1 .. v + 1 : m + 1 + j - 1 = m + j
      BY <1>4, <3>0
    <3> QED BY <3>1, <3>3, <3>4 DEF m
  <2>3. s = t
    <3>0. \A j \in 1 .. v + 1 : j \in 0 .. v + 3
      BY <1>4
    <3>1. \A j \in 1 .. v + 1 : d[i + k + j] = b[i + j]
      BY <1>9, <3>0
    <3> HIDE DEF s, t
    <3>2. Len(s) = Len(t) /\ s \in Seq(Nat) /\ t \in Seq(Nat)
      BY <2>1, <2>2
    <3>3. \A j \in 1 .. Len(s) : s[j] = t[j]
      BY <2>1, <2>2, <3>1
    <3> QED BY <3>2, <3>3, SeqEqual
  <2>4. d[i + k + (v + 2)] = b[i + (v + 2)]
    <3>1. v + 2 \in 0 .. v + 3
      BY <1>4
    <3> QED BY <1>9, <3>1
  <2>5. i + Size(b, i) - 3 = i + (v + 1) /\ i + Size(b, i) - 2 = i + (v + 2)
    BY <1>2, <1>4
  <2>6. /\ i + k + Size(d, i + k) - 3 = i + k + (v + 1)
        /\ i + k + Size(d, i + k) - 2 = i + k + (v + 2)
    <3>1. i + k + (v + 4) - 3 = i + k + (v + 1) /\ i + k + (v + 4) - 2 = i + k + (v + 2)
      BY <1>4
    <3> QED BY <1>7, <3>1
  <2> QED BY <2>3, <2>4, <2>5, <2>6 DEF BadSum
<1> QED BY <1>5, <1>8, <1>10, <1>11, <1>12, <1>13

\* Where the shorter buffer is not too short to tell, the longer one tells
\* the same; and where both end together, both wait.
LEMMA WindowTells ==
  ASSUME NEW b \in Seq(Nat), NEW d \in Seq(Nat), NEW k \in Nat, Window(b, d, k),
         NEW i \in 1 .. Len(b), ~Whole(b, i)
  PROVE  /\ ~Waits(b, i) => ~Waits(d, i + k) /\ ~Whole(d, i + k)
         /\ Waits(b, i) /\ Len(b) + k = Len(d) => Waits(d, i + k)
<1>1. /\ Len(b) \in Nat /\ Len(d) \in Nat /\ Len(b) + k <= Len(d)
      /\ MinLen \in Nat /\ MaxLen \in Nat /\ MinLen >= 1
  <2>1. Len(b) \in Nat /\ Len(d) \in Nat
    OBVIOUS
  <2>2. Len(b) + k <= Len(d)
    BY DEF Window
  <2>3. MinLen \in Nat /\ MaxLen \in Nat /\ MinLen >= 1
    BY BytesAssumption
  <2> QED BY <2>1, <2>2, <2>3
<1>2. \A j \in 1 .. Len(b) : d[j + k] = b[j]
  BY DEF Window
<1>3. d[i + k] = b[i]
  BY <1>2
<1>4. CASE b[i] # Start
  BY <1>3, <1>4 DEF Waits, Whole
<1>5. CASE b[i] = Start /\ Short(b, i)
  <2>1. Waits(b, i)
    BY <1>5 DEF Waits
  <2>2. Len(b) + k = Len(d) => Short(d, i + k)
    BY <1>1, <1>5 DEF Short, Left, Overhead
  <2> QED BY <1>3, <1>5, <2>1, <2>2 DEF Waits
<1>6. CASE b[i] = Start /\ ~Short(b, i)
  <2> DEFINE v == b[i + 1]
  <2>1. ~(Len(b) - i + 1 < MinLen + 4)
    BY <1>6 DEF Short, Left, Overhead
  <2>2. i + 1 \in 1 .. Len(b)
    <3> DEFINE n == Len(b)
    <3>1. n \in Nat /\ i \in 1 .. n /\ ~(n - i + 1 < MinLen + 4)
      BY <1>1, <2>1
    <3> HIDE DEF n
    <3>2. i + 1 \in 1 .. n
      BY <1>1, <3>1
    <3> QED BY <3>2 DEF n
  <2>3. v \in Nat /\ d[(i + 1) + k] = v /\ (i + 1) + k = i + k + 1
    <3>1. v \in Nat
      BY <2>2, ElementOfSeq
    <3>2. d[(i + 1) + k] = v
      BY <1>2, <2>2
    <3>3. (i + 1) + k = i + k + 1
      OBVIOUS
    <3> QED BY <3>1, <3>2, <3>3
  <2>4. ~Short(d, i + k)
    BY <1>1, <2>1 DEF Short, Left, Overhead
  <2>5. BadLength(d, i + k) <=> BadLength(b, i)
    BY <2>3 DEF BadLength
  <2>6. Size(b, i) = v + 4 /\ Size(d, i + k) = v + 4
    BY <2>3 DEF Size, Overhead
  <2> HIDE DEF v
  <2>7. ~Incomplete(b, i) => ~Incomplete(d, i + k)
    BY <1>1, <2>3, <2>6 DEF Incomplete, Left
  <2>8. Incomplete(b, i) /\ Len(b) + k = Len(d) => Incomplete(d, i + k)
    BY <1>1, <2>3, <2>6 DEF Incomplete, Left
  <2>9. CASE BadLength(b, i)
    BY <1>6, <2>4, <2>5, <2>9 DEF Waits, Whole
  <2>10. CASE ~BadLength(b, i) /\ Incomplete(b, i)
    BY <1>3, <1>6, <2>5, <2>8, <2>10 DEF Waits
  <2>11. CASE ~BadLength(b, i) /\ ~Incomplete(b, i)
    <3>1. NoEnd(b, i) /\ ~Waits(b, i)
      BY <1>6, <2>11 DEF Whole, Waits
    <3>2. i + (v + 4) - 1 \in 1 .. Len(b)
      <4>1. ~(v + 4 > Len(b) - i + 1)
        BY <2>6, <2>11 DEF Incomplete, Left
      <4> QED BY <1>1, <2>3, <4>1
    <3>3. d[(i + (v + 4) - 1) + k] = b[i + (v + 4) - 1]
      BY <1>2, <3>2
    <3>4. (i + (v + 4) - 1) + k = (i + k) + (v + 4) - 1
      BY <1>1, <2>3
    <3>5. NoEnd(d, i + k)
      BY <2>6, <3>1, <3>3, <3>4 DEF NoEnd
    <3>6. ~Whole(d, i + k) /\ ~Waits(d, i + k)
      BY <2>4, <2>7, <2>11, <3>5 DEF Whole, Waits
    <3> QED BY <3>1, <3>6
  <2> QED BY <2>9, <2>10, <2>11
<1> QED BY <1>4, <1>5, <1>6

\* Frames moved by k places.
LEMMA MovedIs ==
  ASSUME NEW f \in Seq(FrameSet), NEW k \in Nat
  PROVE  /\ Moved(f, k) \in Seq(FrameSet) /\ Len(Moved(f, k)) = Len(f)
         /\ \A j \in 1 .. Len(f) :
              /\ Moved(f, k)[j].body = f[j].body
              /\ Moved(f, k)[j].last = f[j].last + k
         /\ k = 0 => Moved(f, k) = f
<1>1. Len(f) \in Nat /\ DOMAIN f = 1 .. Len(f)
  OBVIOUS
<1> DEFINE e(j) == [f[j] EXCEPT !.last = @ + k]
<1>2. \A j \in 1 .. Len(f) :
        /\ e(j) = [body |-> f[j].body, last |-> f[j].last + k]
        /\ e(j) \in FrameSet
  <2> TAKE j \in 1 .. Len(f)
  <2>1. f[j] \in FrameSet
    BY ElementOfSeq
  <2>2. f[j] = [body |-> f[j].body, last |-> f[j].last] /\ f[j].last + k \in Nat
        /\ f[j].body \in Seq(Nat)
    BY <2>1 DEF FrameSet
  <2> DEFINE r == f[j]
  <2>3. [r EXCEPT !.last = r.last + k] = [body |-> r.body, last |-> r.last + k]
    BY <2>2
  <2> QED BY <2>2, <2>3 DEF FrameSet
<1>3. Moved(f, k) = [j \in 1 .. Len(f) |-> e(j)]
  BY <1>1 DEF Moved
<1> HIDE DEF e
<1>4. Moved(f, k) \in [1 .. Len(f) -> FrameSet]
  BY <1>2, <1>3
<1>5. Moved(f, k) \in Seq(FrameSet) /\ Len(Moved(f, k)) = Len(f)
  <2>1. Moved(f, k) \in Seq(FrameSet)
    BY <1>1, <1>4, SeqDef
  <2>2. DOMAIN Moved(f, k) = 1 .. Len(f)
    BY <1>4
  <2>3. Len(Moved(f, k)) \in Nat /\ DOMAIN Moved(f, k) = 1 .. Len(Moved(f, k))
    BY <2>1, LenProperties
  <2> QED BY <1>1, <2>1, <2>2, <2>3
<1>6. \A j \in 1 .. Len(f) : Moved(f, k)[j] = [body |-> f[j].body, last |-> f[j].last + k]
  BY <1>2, <1>3
<1>7. ASSUME k = 0 PROVE Moved(f, k) = f
  <2>1. \A j \in 1 .. Len(f) : Moved(f, k)[j] = f[j]
    <3> TAKE j \in 1 .. Len(f)
    <3>1. f[j] \in FrameSet
      BY ElementOfSeq
    <3>2. f[j] = [body |-> f[j].body, last |-> f[j].last] /\ f[j].last + k = f[j].last
      BY <1>7, <3>1 DEF FrameSet
    <3> QED BY <1>6, <3>2
  <2> QED BY <1>5, <2>1, SeqEqual
<1>8. \A j \in 1 .. Len(f) : /\ Moved(f, k)[j].body = f[j].body
                               /\ Moved(f, k)[j].last = f[j].last + k
  <2> TAKE j \in 1 .. Len(f)
  <2>1. Moved(f, k)[j] = [body |-> f[j].body, last |-> f[j].last + k]
    BY <1>6
  <2> DEFINE x == Moved(f, k)[j]
  <2> HIDE DEF x
  <2> QED BY <2>1 DEF x
<1> QED BY <1>5, <1>7, <1>8

\* Moving distributes over concatenation.
LEMMA MovedConcat ==
  ASSUME NEW f \in Seq(FrameSet), NEW g \in Seq(FrameSet), NEW k \in Nat
  PROVE  Moved(f \o g, k) = Moved(f, k) \o Moved(g, k)
<1> DEFINE h == f \o g
           m == Moved(f, k)
           n == Moved(g, k)
<1>1. /\ h \in Seq(FrameSet) /\ Len(h) = Len(f) + Len(g)
      /\ \A j \in 1 .. Len(f) + Len(g) :
           h[j] = IF j <= Len(f) THEN f[j] ELSE g[j - Len(f)]
  BY ConcatProperties
<1>2. /\ m \in Seq(FrameSet) /\ Len(m) = Len(f)
      /\ \A j \in 1 .. Len(f) : m[j].body = f[j].body /\ m[j].last = f[j].last + k
  BY MovedIs
<1>3. /\ n \in Seq(FrameSet) /\ Len(n) = Len(g)
      /\ \A j \in 1 .. Len(g) : n[j].body = g[j].body /\ n[j].last = g[j].last + k
  BY MovedIs
<1>4. /\ m \o n \in Seq(FrameSet) /\ Len(m \o n) = Len(f) + Len(g)
      /\ \A j \in 1 .. Len(f) + Len(g) :
           (m \o n)[j] = IF j <= Len(f) THEN m[j] ELSE n[j - Len(f)]
  <2> HIDE DEF m, n
  <2>1. /\ m \o n \in Seq(FrameSet) /\ Len(m \o n) = Len(m) + Len(n)
        /\ \A j \in 1 .. Len(m) + Len(n) :
             (m \o n)[j] = IF j <= Len(m) THEN m[j] ELSE n[j - Len(m)]
    <3>1. m \in Seq(FrameSet) /\ n \in Seq(FrameSet)
      BY <1>2, <1>3
    <3> QED BY <3>1, ConcatProperties
  <2> QED BY <1>2, <1>3, <2>1
<1>5. /\ Moved(h, k) \in Seq(FrameSet) /\ Len(Moved(h, k)) = Len(h)
      /\ \A j \in 1 .. Len(h) : /\ Moved(h, k)[j].body = h[j].body
                               /\ Moved(h, k)[j].last = h[j].last + k
  <2> HIDE DEF h
  <2> QED BY <1>1, MovedIs
<1>6. \A x, y \in FrameSet : x.body = y.body /\ x.last = y.last => x = y
  <2>1. \A x \in FrameSet : x = [body |-> x.body, last |-> x.last]
    BY DEF FrameSet
  <2>2. ASSUME NEW x \in FrameSet, NEW y \in FrameSet, x.body = y.body, x.last = y.last
        PROVE  x = y
    <3>1. x = [body |-> x.body, last |-> x.last]
      BY <2>1
    <3>2. y = [body |-> y.body, last |-> y.last]
      BY <2>1
    <3> QED BY <2>2, <3>1, <3>2
  <2> QED BY <2>2
<1>7. Len(f) \in Nat /\ Len(g) \in Nat
  OBVIOUS
<1> HIDE DEF h, m, n
<1>8. ASSUME NEW j \in 1 .. Len(f) + Len(g)
      PROVE  Moved(h, k)[j] = (m \o n)[j]
  <2>1. Moved(h, k)[j] \in FrameSet /\ (m \o n)[j] \in FrameSet
    BY <1>1, <1>4, <1>5, ElementOfSeq
  <2>2. CASE j <= Len(f)
    <3>1. j \in 1 .. Len(f) /\ j \in 1 .. Len(h)
      BY <1>1, <1>7, <2>2
    <3>2. h[j] = f[j] /\ (m \o n)[j] = m[j]
      BY <1>1, <1>4, <2>2
    <3>3. m[j].body = f[j].body /\ m[j].last = f[j].last + k
      BY <1>2, <3>1
    <3>4. Moved(h, k)[j].body = h[j].body /\ Moved(h, k)[j].last = h[j].last + k
      BY <1>5, <3>1
    <3> QED BY <1>6, <2>1, <3>2, <3>3, <3>4
  <2>3. CASE ~(j <= Len(f))
    <3>1. j - Len(f) \in 1 .. Len(g) /\ j \in 1 .. Len(h)
      BY <1>1, <1>7, <2>3
    <3>2. h[j] = g[j - Len(f)] /\ (m \o n)[j] = n[j - Len(f)]
      BY <1>1, <1>4, <2>3
    <3>3. n[j - Len(f)].body = g[j - Len(f)].body
          /\ n[j - Len(f)].last = g[j - Len(f)].last + k
      BY <1>3, <3>1
    <3>4. Moved(h, k)[j].body = h[j].body /\ Moved(h, k)[j].last = h[j].last + k
      BY <1>5, <3>1
    <3> QED BY <1>6, <2>1, <3>2, <3>3, <3>4
  <2> QED BY <2>2, <2>3
<1>9. Moved(h, k) = m \o n
  <2> DEFINE x == Moved(h, k)
             y == m \o n
  <2>1. x \in Seq(FrameSet) /\ y \in Seq(FrameSet) /\ Len(x) = Len(y)
        /\ \A j \in 1 .. Len(x) : x[j] = y[j]
    BY <1>1, <1>4, <1>5, <1>8
  <2> HIDE DEF x, y
  <2>2. x = y
    BY <2>1, SeqEqual
  <2> QED BY <2>2 DEF x, y
<1> QED BY <1>9 DEF h, m, n

\* What the loop does at a place, in the shorter buffer and in the longer.
LEMMA WindowMoves ==
  ASSUME NEW b \in Seq(Nat), NEW d \in Seq(Nat), NEW k \in Nat, Window(b, d, k),
         NEW i \in 1 .. Len(b), ~Waits(b, i)
  PROVE  /\ i + k \in 1 .. Len(d) /\ ~Waits(d, i + k)
         /\ Jump(d, i + k) = Jump(b, i) + k
         /\ Mark(d, i + k) = Mark(b, i) + k
         /\ Gain(d, i + k) = Moved(Gain(b, i), k)
<1>0. i + k \in 1 .. Len(d)
  BY DEF Window
<1>1. CASE Whole(b, i)
  <2>1. /\ Whole(d, i + k) /\ ~Waits(d, i + k)
        /\ EndOf(d, i + k) = EndOf(b, i) + k
        /\ Body(d, i + k) = Body(b, i)
        /\ BadSum(d, i + k) <=> BadSum(b, i)
    BY <1>1, WindowWhole
  <2>2. EndOf(b, i) \in Nat
    BY <1>1, WholeEnds
  <2>3. Jump(d, i + k) = Jump(b, i) + k /\ Mark(d, i + k) = Mark(b, i) + k
    BY <1>1, <2>1, <2>2 DEF Jump, Mark
  <2>4. Gain(d, i + k) = Moved(Gain(b, i), k)
    <3>1. CASE BadSum(b, i)
      <4>1. Gain(d, i + k) = <<>> /\ Gain(b, i) = <<>>
        BY <2>1, <3>1 DEF Gain
      <4>2. Moved(<<>>, k) = <<>>
        BY DEF Moved
      <4> QED BY <4>1, <4>2
    <3>2. CASE ~BadSum(b, i)
      <4> DEFINE x == FoundAt(b, i)
                 y == FoundAt(d, i + k)
      <4>1. Gain(d, i + k) = <<y>> /\ Gain(b, i) = <<x>>
        BY <1>1, <2>1, <3>2 DEF Gain
      <4>2. y = [x EXCEPT !.last = @ + k]
        BY <2>1, <2>2 DEF FoundAt
      <4> HIDE DEF x, y
      <4>3. Moved(<<x>>, k) = <<[x EXCEPT !.last = @ + k]>>
        BY DEF Moved
      <4> QED BY <4>1, <4>2, <4>3
    <3> QED BY <3>1, <3>2
  <2> QED BY <1>0, <2>1, <2>3, <2>4
<1>2. CASE ~Whole(b, i)
  <2>1. ~Waits(d, i + k) /\ ~Whole(d, i + k)
    BY <1>2, WindowTells
  <2>2. Moved(<<>>, k) = <<>>
    BY DEF Moved
  <2> QED BY <1>0, <1>2, <2>1, <2>2 DEF Jump, Mark, Gain
<1> QED BY <1>1, <1>2
----------------------------------------------------------------------------
(***************************************************************************)
(* What a pass of the loop leaves, and what another pass makes of it.      *)
(***************************************************************************)
\* It uses up all but less than one largest frame.
LEMMA LoopUses ==
  ASSUME NEW b \in Seq(Nat)
  PROVE  \A i \in 1 .. Len(b) :
           /\ Loop(b)[i].used \in Nat
           /\ i - 1 <= Loop(b)[i].used /\ Loop(b)[i].used <= Len(b)
           /\ Len(b) - Loop(b)[i].used < MaxLen + Overhead
<1> DEFINE n == Len(b)
           L == Loop(b)
           G == {i \in 1 .. n : /\ L[i].used \in Nat
                                /\ i - 1 <= L[i].used /\ L[i].used <= n
                                /\ n - L[i].used < MaxLen + Overhead}
<1>0. n \in Nat /\ MinLen \in Nat /\ MaxLen \in Nat /\ MinLen <= MaxLen /\ MinLen >= 1
  BY BytesAssumption
<1>1. \A i \in 1 .. n :
        /\ L[i] \in Results
        /\ L[i] = IF Waits(b, i) THEN StopAt(i - 1)
                  ELSE Joined(Gain(b, i), From(b, L, Jump(b, i), Mark(b, i)))
  BY LoopIs
<1> HIDE DEF L
<1>2. ASSUME NEW i \in 1 .. n, \A j \in i + 1 .. n : j \in G
      PROVE  i \in G
  <2>1. CASE Waits(b, i)
    <3>0. L[i] = StopAt(i - 1)
      BY <1>1, <2>1
    <3>1. L[i].used = i - 1
      BY <3>0 DEF StopAt
    <3>2. n - i + 1 < MaxLen + 4
      <4>1. CASE Short(b, i)
        BY <1>0, <4>1 DEF Short, Left, Overhead
      <4>2. CASE ~Short(b, i)
        <5>1. ~BadLength(b, i) /\ Incomplete(b, i)
          BY <2>1, <4>2 DEF Waits
        <5>2. i + 1 \in 1 .. n
          BY <1>0, <4>2 DEF Short, Left, Overhead
        <5>3. b[i + 1] \in Nat
          BY <5>2
        <5>4. ~(b[i + 1] > MaxLen) /\ b[i + 1] + 4 > n - i + 1
          BY <5>1 DEF BadLength, Incomplete, Size, Left, Overhead
        <5> DEFINE v == b[i + 1]
        <5>5. v \in Nat /\ ~(v > MaxLen) /\ v + 4 > n - i + 1 /\ i \in Int
          BY <5>3, <5>4
        <5> HIDE DEF n, v
        <5> QED BY <1>0, <5>5
      <4> QED BY <4>1, <4>2
    <3> QED BY <1>0, <3>1, <3>2 DEF Overhead
  <2>2. CASE ~Waits(b, i)
    <3> DEFINE J == Jump(b, i)
               M == Mark(b, i)
               r == From(b, L, J, M)
    <3>1. /\ J \in Nat /\ i < J /\ J <= n + 1
          /\ M \in Nat /\ M <= n /\ i - 1 <= M
          /\ M + 1 = J \/ (M + 1 = i /\ J = i + 1)
          /\ Gain(b, i) \in Seq(FrameSet)
      BY Moves DEF Jump
    <3> HIDE DEF J, M
    <3>2. CASE J > n
      <4>1. r = StopAt(M)
        BY <3>2 DEF From
      <4>2. L[i] = Joined(Gain(b, i), r)
        BY <1>1, <2>2 DEF J, M
      <4>3. L[i].used = M
        <5>1. L[i] = Joined(Gain(b, i), StopAt(M))
          BY <4>1, <4>2
        <5> QED BY <5>1 DEF Joined, StopAt
      <4>4. n - M < MaxLen + 4
        BY <1>0, <3>1, <3>2
      <4> QED BY <3>1, <4>3, <4>4 DEF Overhead
    <3>3. CASE ~(J > n)
      <4>1. J \in i + 1 .. n
        BY <1>0, <3>1, <3>3
      <4>2. J \in G
        BY <1>2, <4>1
      <4>3. r = L[J]
        BY <3>3 DEF From
      <4>4. L[i] = Joined(Gain(b, i), L[J])
        BY <1>1, <2>2, <4>3 DEF J, M
      <4>5. L[i].used = L[J].used
        BY <4>4 DEF Joined
      <4>6. /\ L[J].used \in Nat /\ J - 1 <= L[J].used /\ L[J].used <= n
            /\ n - L[J].used < MaxLen + Overhead
        BY <4>2
      <4>7. i - 1 <= L[J].used
        BY <3>1, <4>6
      <4> QED BY <4>5, <4>6, <4>7
    <3> QED BY <3>2, <3>3
  <2> QED BY <2>1, <2>2
<1>3. \A i \in 1 .. n : i \in G
  <2> HIDE DEF G, n
  <2> QED BY <1>0, <1>2, Downwards
<1> QED BY <1>3 DEF L

\* A buffer that is too short for a frame has none.
LEMMA ShortFinds ==
  ASSUME NEW b \in Seq(Nat), Len(b) < MinLen + Overhead
  PROVE  \A i \in 1 .. Len(b) : Loop(b)[i].found = <<>>
<1> DEFINE n == Len(b)
           L == Loop(b)
           G == {i \in 1 .. n : L[i].found = <<>>}
<1>0. n \in Nat
  OBVIOUS
<1>1. \A i \in 1 .. n :
        /\ L[i] \in Results
        /\ L[i] = IF Waits(b, i) THEN StopAt(i - 1)
                  ELSE Joined(Gain(b, i), From(b, L, Jump(b, i), Mark(b, i)))
  BY LoopIs
<1> HIDE DEF L
<1>2. ASSUME NEW i \in 1 .. n, \A j \in i + 1 .. n : j \in G
      PROVE  i \in G
  <2>1. CASE Waits(b, i)
    <3>1. L[i] = StopAt(i - 1)
      BY <1>1, <2>1
    <3> QED BY <3>1 DEF StopAt
  <2>2. CASE ~Waits(b, i)
    <3> DEFINE r == From(b, L, Jump(b, i), Mark(b, i))
    <3>1. ~Whole(b, i)
      <4> SUFFICES ASSUME Whole(b, i) PROVE FALSE
        OBVIOUS
      <4>1. i + MinLen + Overhead - 1 <= EndOf(b, i) /\ EndOf(b, i) <= Len(b)
            /\ EndOf(b, i) \in Nat
        BY WholeEnds
      <4> QED BY <1>0, <4>1, BytesAssumption DEF Overhead
    <3>2. Gain(b, i) = <<>> /\ Jump(b, i) = i + 1 /\ Mark(b, i) = i - 1
      BY <3>1 DEF Gain, Jump, Mark
    <3>3. r \in Results /\ r.found = <<>>
      <4>1. CASE i + 1 > n
        <5>1. i - 1 \in Nat
          BY <1>0
        <5> QED BY <3>2, <4>1, <5>1, StopJoined DEF From
      <4>2. CASE ~(i + 1 > n)
        <5>1. i + 1 \in i + 1 .. n /\ i + 1 \in 1 .. n
          BY <1>0, <4>2
        <5>2. r = L[i + 1]
          BY <3>2, <4>2 DEF From
        <5> QED BY <1>1, <1>2, <5>1, <5>2
      <4> QED BY <4>1, <4>2
    <3>4. L[i] = r
      <4>1. L[i] = Joined(<<>>, r)
        BY <1>1, <2>2, <3>2
      <4> HIDE DEF r
      <4> QED BY <3>3, <4>1, JoinedIs
    <3> QED BY <3>3, <3>4
  <2> QED BY <2>1, <2>2
<1>3. \A i \in 1 .. n : i \in G
  <2> HIDE DEF G, n
  <2> QED BY <1>0, <1>2, Downwards
<1> QED BY <1>3 DEF L

\* With more bytes behind it the loop finds the same frames and goes on at
\* the first byte it would have kept.
LEMMA LoopExtends ==
  ASSUME NEW b \in Seq(Nat), NEW d \in Seq(Nat), Window(b, d, 0), Len(b) < Len(d)
  PROVE  \A i \in 1 .. Len(b) :
           Loop(d)[i] = Joined(Loop(b)[i].found, Loop(d)[Loop(b)[i].used + 1])
<1> DEFINE n == Len(b)
           L == Loop(b)
           K == Loop(d)
           G == {i \in 1 .. n : K[i] = Joined(L[i].found, K[L[i].used + 1])}
<1>0. n \in Nat /\ Len(d) \in Nat /\ n < Len(d)
  OBVIOUS
<1>1. \A i \in 1 .. n :
        /\ L[i] \in Results
        /\ L[i] = IF Waits(b, i) THEN StopAt(i - 1)
                  ELSE Joined(Gain(b, i), From(b, L, Jump(b, i), Mark(b, i)))
  BY LoopIs
<1>2. \A i \in 1 .. Len(d) :
        /\ K[i] \in Results
        /\ K[i] = IF Waits(d, i) THEN StopAt(i - 1)
                  ELSE Joined(Gain(d, i), From(d, K, Jump(d, i), Mark(d, i)))
  BY LoopIs
<1>3. \A i \in 1 .. n : L[i].used \in Nat /\ L[i].used <= n
  BY LoopUses
<1> HIDE DEF L, K
<1>4. ASSUME NEW i \in 1 .. n, \A j \in i + 1 .. n : j \in G
      PROVE  i \in G
  <2>1. i \in 1 .. Len(d) /\ K[i] \in Results
    BY <1>0, <1>2
  <2>2. CASE Waits(b, i)
    <3>0. L[i] = StopAt(i - 1)
      BY <1>1, <2>2
    <3>1. L[i].found = <<>> /\ L[i].used + 1 = i
      BY <3>0 DEF StopAt
    <3>2. Joined(<<>>, K[i]) = K[i]
      BY <2>1, JoinedIs
    <3> QED BY <3>1, <3>2
  <2>3. CASE ~Waits(b, i)
    <3> DEFINE g == Gain(b, i)
               J == Jump(b, i)
               M == Mark(b, i)
    <3>1. /\ J \in Nat /\ i < J /\ J <= n + 1 /\ M \in Nat
          /\ M + 1 = IF Whole(b, i) THEN J ELSE i
          /\ g \in Seq(FrameSet)
          /\ ~Whole(b, i) => g = <<>>
      BY Moves
    <3>2. /\ i + 0 \in 1 .. Len(d) /\ ~Waits(d, i + 0)
          /\ Jump(d, i + 0) = J + 0 /\ Mark(d, i + 0) = M + 0
          /\ Gain(d, i + 0) = Moved(g, 0)
      BY <2>3, WindowMoves
    <3>3. i + 0 = i /\ J + 0 = J /\ M + 0 = M
      <4> HIDE DEF J, M
      <4> QED BY <3>1
    <3>4. Moved(g, 0) = g
      BY <3>1, MovedIs
    <3>5. K[i] = Joined(g, From(d, K, J, M))
      BY <1>2, <2>1, <3>2, <3>3, <3>4
    <3> HIDE DEF g, J, M
    <3>6. From(d, K, J, M) = K[J] /\ J \in 1 .. Len(d)
      <4>1. J \in 1 .. Len(d) /\ ~(J > Len(d))
        <5> DEFINE m == Len(d)
        <5>1. n \in Nat /\ m \in Nat /\ n < m /\ J \in Nat /\ i < J /\ J <= n + 1 /\ i >= 1
              /\ i \in Int
          BY <1>0, <3>1
        <5> HIDE DEF m, n
        <5> QED BY <5>1 DEF m
      <4> QED BY <4>1 DEF From
    <3>7. L[i] = Joined(g, From(b, L, J, M))
      BY <1>1, <2>3 DEF g, J, M
    <3>8. CASE J <= n
      <4>1. J \in i + 1 .. n /\ J \in 1 .. n
        BY <1>0, <3>1, <3>8
      <4>2. From(b, L, J, M) = L[J]
        BY <1>0, <3>1, <3>8 DEF From
      <4>3. L[J] \in Results /\ L[J].found \in Seq(FrameSet)
        BY <1>1, <4>1 DEF Results
      <4>4. L[i].found = g \o L[J].found /\ L[i].used = L[J].used
        <5>1. L[i] = Joined(g, L[J])
          BY <3>7, <4>2
        <5>2. /\ Joined(g, L[J]).used = L[J].used
              /\ Joined(g, L[J]).found = g \o L[J].found
          BY DEF Joined
        <5> QED BY <5>1, <5>2
      <4>5. K[J] = Joined(L[J].found, K[L[J].used + 1])
        BY <1>4, <4>1
      <4>6. L[J].used + 1 \in 1 .. Len(d)
        <5> DEFINE x == L[J].used
        <5>1. x \in Nat /\ x <= n
          BY <1>3, <4>1
        <5> HIDE DEF x
        <5>2. x + 1 \in 1 .. Len(d)
          BY <1>0, <5>1
        <5> QED BY <5>2 DEF x
      <4>7. K[L[J].used + 1] \in Results
        BY <1>2, <4>6
      <4>8. Joined(g, Joined(L[J].found, K[L[J].used + 1]))
              = Joined(g \o L[J].found, K[L[J].used + 1])
        BY <3>1, <4>3, <4>7, JoinedIs
      <4> QED BY <3>5, <3>6, <4>4, <4>5, <4>8
    <3>9. CASE ~(J <= n)
      <4>1. From(b, L, J, M) = StopAt(M)
        BY <1>0, <3>1, <3>9 DEF From
      <4>2. L[i].found = g /\ L[i].used = M
        <5>1. L[i] = Joined(g, StopAt(M))
          BY <3>7, <4>1
        <5>2. Joined(g, StopAt(M)) = [used |-> M, found |-> g]
          BY <3>1, StopJoined
        <5>3. L[i] = [used |-> M, found |-> g]
          BY <5>1, <5>2
        <5> HIDE DEF g, M
        <5> QED BY <5>3
      <4>3. CASE Whole(b, i)
        BY <3>1, <3>5, <3>6, <4>2, <4>3
      <4>4. CASE ~Whole(b, i)
        <5>1. Joined(<<>>, K[i]) = K[i]
          BY <2>1, JoinedIs
        <5> QED BY <3>1, <4>2, <4>4, <5>1
      <4> QED BY <4>3, <4>4
    <3> QED BY <3>8, <3>9
  <2> QED BY <2>2, <2>3
<1>5. \A i \in 1 .. n : i \in G
  <2> HIDE DEF G, n
  <2> QED BY <1>0, <1>4, Downwards
<1> QED BY <1>5 DEF L, K

\* The same for results.
LEMMA MovedJoined ==
  ASSUME NEW r \in Results, NEW f \in Seq(FrameSet), NEW k \in Nat
  PROVE  /\ MovedBy(r, k) \in Results
         /\ MovedBy(r, k).used = r.used + k
         /\ MovedBy(r, k).found = Moved(r.found, k)
         /\ MovedBy(Joined(f, r), k) = Joined(Moved(f, k), MovedBy(r, k))
<1>1. r.used \in Nat /\ r.found \in Seq(FrameSet)
  BY DEF Results
<1>2. Moved(r.found, k) \in Seq(FrameSet)
  BY <1>1, MovedIs
<1>3. Moved(f \o r.found, k) = Moved(f, k) \o Moved(r.found, k)
  BY <1>1, MovedConcat
<1>4. /\ MovedBy(r, k) \in Results
      /\ MovedBy(r, k).used = r.used + k
      /\ MovedBy(r, k).found = Moved(r.found, k)
  BY <1>1, <1>2 DEF MovedBy, Results
<1>5. /\ Joined(f, r).used = r.used /\ Joined(f, r).found = f \o r.found
      /\ Joined(Moved(f, k), MovedBy(r, k))
           = [used |-> r.used + k, found |-> Moved(f, k) \o Moved(r.found, k)]
  BY <1>4 DEF Joined
<1>6. MovedBy(Joined(f, r), k) = [used |-> r.used + k, found |-> Moved(f \o r.found, k)]
  BY <1>5 DEF MovedBy
<1> QED BY <1>3, <1>4, <1>5, <1>6

\* Without the bytes in front the loop does the same.
LEMMA LoopShifts ==
  ASSUME NEW b \in Seq(Nat), NEW d \in Seq(Nat), NEW k \in Nat, Window(b, d, k),
         Len(b) + k = Len(d)
  PROVE  \A i \in 1 .. Len(b) : Loop(d)[i + k] = MovedBy(Loop(b)[i], k)
<1> DEFINE n == Len(b)
           L == Loop(b)
           K == Loop(d)
           G == {i \in 1 .. n : K[i + k] = MovedBy(L[i], k)}
<1>0. n \in Nat /\ Len(d) \in Nat /\ n + k = Len(d)
  OBVIOUS
<1>1. \A i \in 1 .. n :
        /\ L[i] \in Results
        /\ L[i] = IF Waits(b, i) THEN StopAt(i - 1)
                  ELSE Joined(Gain(b, i), From(b, L, Jump(b, i), Mark(b, i)))
  BY LoopIs
<1>2. \A i \in 1 .. Len(d) :
        /\ K[i] \in Results
        /\ K[i] = IF Waits(d, i) THEN StopAt(i - 1)
                  ELSE Joined(Gain(d, i), From(d, K, Jump(d, i), Mark(d, i)))
  BY LoopIs
<1>3. \A u \in Nat : MovedBy(StopAt(u), k) = StopAt(u + k)
  BY DEF MovedBy, StopAt, Moved
<1> HIDE DEF L, K
<1>4. ASSUME NEW i \in 1 .. n, \A j \in i + 1 .. n : j \in G
      PROVE  i \in G
  <2>1. i + k \in 1 .. Len(d)
    BY <1>0
  <2>2. CASE Waits(b, i)
    <3>1. ~Whole(b, i)
      BY <2>2 DEF Waits, Whole
    <3>2. Waits(d, i + k)
      BY <2>2, <3>1, WindowTells
    <3>3. K[i + k] = StopAt(i + k - 1) /\ L[i] = StopAt(i - 1)
      BY <1>1, <1>2, <2>1, <2>2, <3>2
    <3>4. i - 1 \in Nat /\ (i - 1) + k = i + k - 1
      BY <1>0
    <3> QED BY <1>3, <3>3, <3>4
  <2>3. CASE ~Waits(b, i)
    <3> DEFINE g == Gain(b, i)
               J == Jump(b, i)
               M == Mark(b, i)
               r == From(b, L, J, M)
    <3>1. /\ J \in Nat /\ i < J /\ J <= n + 1 /\ M \in Nat
          /\ g \in Seq(FrameSet)
      BY Moves
    <3>2. /\ ~Waits(d, i + k)
          /\ Jump(d, i + k) = J + k /\ Mark(d, i + k) = M + k
          /\ Gain(d, i + k) = Moved(g, k)
      BY <2>3, WindowMoves
    <3>3. K[i + k] = Joined(Moved(g, k), From(d, K, J + k, M + k))
      BY <1>2, <2>1, <3>2
    <3>4. L[i] = Joined(g, r)
      BY <1>1, <2>3
    <3> HIDE DEF g, J, M
    <3>5. r \in Results /\ From(d, K, J + k, M + k) = MovedBy(r, k)
      <4>1. CASE J <= n
        <5>1. J \in i + 1 .. n /\ J \in 1 .. n
          BY <1>0, <3>1, <4>1
        <5>2. r = L[J]
          BY <1>0, <3>1, <4>1 DEF From
        <5>3. From(d, K, J + k, M + k) = K[J + k]
          BY <1>0, <3>1, <4>1 DEF From
        <5> QED BY <1>1, <1>4, <5>1, <5>2, <5>3
      <4>2. CASE ~(J <= n)
        <5>1. r = StopAt(M)
          BY <1>0, <3>1, <4>2 DEF From
        <5>2. From(d, K, J + k, M + k) = StopAt(M + k)
          BY <1>0, <3>1, <4>2 DEF From
        <5> QED BY <1>3, <3>1, <5>1, <5>2, StopJoined
      <4> QED BY <4>1, <4>2
    <3> HIDE DEF r
    <3>6. MovedBy(Joined(g, r), k) = Joined(Moved(g, k), MovedBy(r, k))
      BY <3>1, <3>5, MovedJoined
    <3> QED BY <3>3, <3>4, <3>5, <3>6
  <2> QED BY <2>2, <2>3
<1>5. \A i \in 1 .. n : i \in G
  <2> HIDE DEF G, n
  <2> QED BY <1>0, <1>4, Downwards
<1> QED BY <1>5 DEF L, K
----------------------------------------------------------------------------
(***************************************************************************)
(* Reads.  Of the bytes p read so far u were used up and the frames f      *)
(* found: whatever comes behind p, the loop finds f and goes on behind u.  *)
(***************************************************************************)
Resumes(p, u, f) ==
  \A d \in Seq(Nat) :
    Window(p, d, 0) /\ Len(p) < Len(d) => Loop(d)[1] = Joined(f, Loop(d)[u + 1])

\* A pass over the bytes kept and the new ones, together b, keeps it so.
LEMMA PassResumes ==
  ASSUME NEW p \in Seq(Nat), NEW q \in Seq(Nat), Window(p, q, 0), Len(p) < Len(q),
         NEW u \in 0 .. Len(p), NEW f \in Seq(FrameSet), Resumes(p, u, f),
         NEW b \in Seq(Nat), Window(b, q, u), Len(b) + u = Len(q)
  PROVE  /\ Parse(b).used \in 0 .. Len(b) /\ Parse(b).found \in Seq(FrameSet)
         /\ Len(b) - Parse(b).used < MaxLen + Overhead
         /\ Loop(q)[1].found = f \o Moved(Parse(b).found, u)
         /\ Resumes(q, u + Parse(b).used, f \o Moved(Parse(b).found, u))
<1> DEFINE r == Loop(b)[1]
<1>1. /\ Len(p) \in Nat /\ Len(q) \in Nat /\ Len(b) \in Nat /\ u \in Nat
      /\ 1 \in 1 .. Len(b)
      /\ MinLen \in Nat /\ MaxLen \in Nat /\ MinLen <= MaxLen
  BY BytesAssumption
<1>2. /\ r \in Results /\ r.used \in Nat /\ r.found \in Seq(FrameSet)
      /\ r.used <= Len(b) /\ Len(b) - r.used < MaxLen + Overhead
  <2>1. r \in Results
    BY <1>1, LoopIs
  <2>2. r.used <= Len(b) /\ Len(b) - r.used < MaxLen + Overhead
    BY <1>1, LoopUses
  <2> QED BY <2>1, <2>2 DEF Results
<1> HIDE DEF r
<1>3. Parse(b) = IF Len(b) < MinLen + Overhead THEN StopAt(0) ELSE r
  BY ParseIs DEF r
<1>4. Parse(b).found = r.found
  <2>1. CASE Len(b) < MinLen + Overhead
    <3>1. r.found = <<>>
      BY <1>1, <2>1, ShortFinds DEF r
    <3> QED BY <1>3, <2>1, <3>1 DEF StopAt
  <2>2. CASE ~(Len(b) < MinLen + Overhead)
    BY <1>3, <2>2
  <2> QED BY <2>1, <2>2
<1>5. /\ Parse(b).used \in 0 .. Len(b)
      /\ Len(b) - Parse(b).used < MaxLen + Overhead
  <2>1. CASE Len(b) < MinLen + Overhead
    BY <1>1, <1>3, <2>1 DEF StopAt, Overhead
  <2>2. CASE ~(Len(b) < MinLen + Overhead)
    BY <1>1, <1>2, <1>3, <2>2
  <2> QED BY <2>1, <2>2
<1> DEFINE m == Moved(r.found, u)
<1>6. m \in Seq(FrameSet)
  BY <1>1, <1>2, MovedIs
<1>7. Loop(q)[1].found = f \o m
  <2>1. Loop(q)[1] = Joined(f, Loop(q)[u + 1])
    BY DEF Resumes
  <2>2. Loop(q)[1 + u] = MovedBy(r, u)
    BY <1>1, LoopShifts DEF r
  <2>3. 1 + u = u + 1
    BY <1>1
  <2>4. MovedBy(r, u) \in Results /\ MovedBy(r, u).found = m
    BY <1>1, <1>2, MovedJoined
  <2>5. Loop(q)[1] = Joined(f, MovedBy(r, u))
    BY <2>1, <2>2, <2>3
  <2> QED BY <2>4, <2>5 DEF Joined
<1>8. Resumes(q, u + Parse(b).used, f \o m)
  <2> SUFFICES ASSUME NEW d \in Seq(Nat), Window(q, d, 0), Len(q) < Len(d)
               PROVE  Loop(d)[1] = Joined(f \o m, Loop(d)[u + Parse(b).used + 1])
    BY DEF Resumes
  <2>1. Len(d) \in Nat /\ Len(q) < Len(d) /\ Len(b) + u = Len(q)
    OBVIOUS
  <2>2. Loop(d)[1] = Joined(f, Loop(d)[u + 1])
    <3>1. Window(p, d, 0)
      <4>1. \A j \in 1 .. Len(p) : j + 0 = j /\ j \in 1 .. Len(q)
        BY <1>1
      <4>2. \A j \in 1 .. Len(p) : q[j + 0] = p[j]
        BY DEF Window
      <4>3. \A j \in 1 .. Len(q) : d[j + 0] = q[j]
        BY DEF Window
      <4>4. \A j \in 1 .. Len(p) : d[j + 0] = p[j]
        BY <4>1, <4>2, <4>3
      <4> QED BY <1>1, <2>1, <4>4 DEF Window
    <3> QED BY <1>1, <2>1, <3>1 DEF Resumes
  <2>3. CASE Len(b) < MinLen + Overhead
    <3>1. Parse(b).used = 0 /\ Parse(b).found = <<>>
      BY <1>3, <2>3 DEF StopAt
    <3>2. m = <<>>
      BY <1>4, <3>1 DEF Moved
    <3>3. f \o m = f /\ u + Parse(b).used + 1 = u + 1
      BY <1>1, <3>1, <3>2, ConcatEmptySeq
    <3> QED BY <2>2, <3>3
  <2>4. CASE ~(Len(b) < MinLen + Overhead)
    <3> DEFINE e == SubSeq(d, u + 1, Len(d))
    <3>1. /\ e \in Seq(Nat) /\ Len(e) = Len(d) - u
          /\ \A j \in 1 .. Len(d) - u : e[j] = d[u + j]
      <4>1. u + 1 \in Int /\ Len(d) \in Int /\ u + 1 <= Len(d)
            /\ Len(d) - (u + 1) + 1 = Len(d) - u
        BY <1>1, <2>1
      <4>2. \A j \in u + 1 .. Len(d) : d[j] \in Nat
        <5>1. u + 1 .. Len(d) \subseteq 1 .. Len(d)
          BY <1>1, <2>1
        <5> QED BY <5>1, ElementOfSeq
      <4> HIDE DEF e
      <4>3. /\ e \in Seq(Nat) /\ Len(e) = Len(d) - (u + 1) + 1
            /\ \A j \in 1 .. Len(d) - (u + 1) + 1 : e[j] = d[u + 1 + j - 1]
        <5> DEFINE a == u + 1
                   z == Len(d)
        <5> HIDE DEF a, z
        <5>1. a \in Int /\ z \in Int /\ a <= z /\ \A j \in a .. z : d[j] \in Nat
          BY <4>1, <4>2 DEF a, z
        <5>2. /\ SubSeq(d, a, z) \in Seq(Nat)
              /\ Len(SubSeq(d, a, z)) = z - a + 1
              /\ \A j \in 1 .. z - a + 1 : SubSeq(d, a, z)[j] = d[a + j - 1]
          BY <5>1, SliceIs
        <5> QED BY <5>2 DEF e, a, z
      <4>4. \A j \in 1 .. Len(d) - u : u + 1 + j - 1 = u + j
        BY <1>1, <2>1
      <4> QED BY <4>1, <4>3, <4>4
    <3> HIDE DEF e
    <3>2. Len(e) \in Nat /\ Len(e) + u = Len(d) /\ Len(b) < Len(e)
      <4>1. Len(e) \in Nat /\ Len(e) = Len(d) - u
        BY <3>1
      <4> HIDE DEF r
      <4>2. Len(b) + u < Len(d)
        BY <1>1, <2>1
      <4> QED BY <1>1, <2>1, <4>1, <4>2
    <3>3. Window(e, d, u)
      <4>1. \A j \in 1 .. Len(e) : d[j + u] = e[j]
        <5> TAKE j \in 1 .. Len(e)
        <5>1. j + u = u + j
          BY <1>1, <3>2
        <5> QED BY <3>1, <5>1
      <4> QED BY <1>1, <2>1, <3>2, <4>1 DEF Window
    <3>4. Window(b, e, 0)
      <4>1. \A j \in 1 .. Len(b) : q[j + u] = b[j]
        BY DEF Window
      <4>2. \A j \in 1 .. Len(q) : d[j + 0] = q[j]
        BY DEF Window
      <4>3. ASSUME NEW j \in 1 .. Len(b) PROVE e[j + 0] = b[j]
        <5>1. /\ j + u \in 1 .. Len(q) /\ j + 0 = j /\ (j + u) + 0 = u + j
              /\ j + u = u + j /\ j \in 1 .. Len(d) - u
          <6> DEFINE lb == Len(b)
                     lq == Len(q)
                     ld == Len(d)
          <6>1. /\ j \in 1 .. lb /\ lb \in Nat /\ lq \in Nat /\ ld \in Nat /\ u \in Nat
                /\ lq < ld /\ lb + u = lq
            BY <1>1, <2>1
          <6> HIDE DEF lb, lq, ld
          <6>2. /\ j + u \in 1 .. lq /\ j + 0 = j /\ (j + u) + 0 = u + j
                /\ j + u = u + j /\ j \in 1 .. ld - u
            BY <6>1
          <6> QED BY <6>2 DEF lb, lq, ld
        <5>2. d[(j + u) + 0] = q[j + u]
          BY <4>2, <5>1
        <5> QED BY <3>1, <4>1, <5>1, <5>2
      <4> QED BY <1>1, <3>2, <4>3 DEF Window
    <3>5. Loop(e)[1] = Joined(r.found, Loop(e)[r.used + 1])
      BY <1>1, <3>1, <3>2, <3>4, LoopExtends DEF r
    <3>6. /\ 1 \in 1 .. Len(e) /\ r.used + 1 \in 1 .. Len(e)
          /\ Parse(b).used = r.used
      <4>1. Parse(b).used = r.used
        BY <1>3, <2>4
      <4> DEFINE x == r.used
      <4>2. x \in Nat /\ x <= Len(b)
        BY <1>2
      <4> HIDE DEF x
      <4>3. 1 \in 1 .. Len(e) /\ x + 1 \in 1 .. Len(e)
        <5> DEFINE lb == Len(b)
                   le == Len(e)
        <5>1. lb \in Nat /\ le \in Nat /\ lb < le /\ x \in Nat /\ x <= lb
          BY <1>1, <3>2, <4>2
        <5> HIDE DEF lb, le
        <5>2. 1 \in 1 .. le /\ x + 1 \in 1 .. le
          BY <5>1
        <5> QED BY <5>2 DEF le
      <4> QED BY <4>1, <4>3 DEF x
    <3>7. /\ Loop(d)[1 + u] = MovedBy(Loop(e)[1], u)
          /\ Loop(d)[(r.used + 1) + u] = MovedBy(Loop(e)[r.used + 1], u)
      <4>1. u \in Nat /\ e \in Seq(Nat) /\ Len(e) + u = Len(d)
        BY <1>1, <3>1, <3>2
      <4>2. \A i \in 1 .. Len(e) : Loop(d)[i + u] = MovedBy(Loop(e)[i], u)
        BY <3>3, <4>1, LoopShifts
      <4> QED BY <3>6, <4>2
    <3>8. 1 + u = u + 1 /\ (r.used + 1) + u = u + r.used + 1
      <4> DEFINE x == r.used
      <4>1. x \in Nat /\ u \in Nat
        BY <1>1, <1>2
      <4> HIDE DEF x
      <4>2. 1 + u = u + 1 /\ (x + 1) + u = u + x + 1
        BY <4>1
      <4> QED BY <4>2 DEF x
    <3> DEFINE x == Loop(e)[r.used + 1]
    <3>9. x \in Results
      BY <3>1, <3>6, LoopIs
    <3> HIDE DEF x
    <3>10. /\ MovedBy(Joined(r.found, x), u) = Joined(m, MovedBy(x, u))
           /\ MovedBy(x, u) \in Results
      BY <1>1, <1>2, <3>9, MovedJoined
    <3>11. Joined(f, Joined(m, MovedBy(x, u))) = Joined(f \o m, MovedBy(x, u))
      BY <1>6, <3>10, JoinedIs
    <3> QED BY <2>2, <3>5, <3>6, <3>7, <3>8, <3>10, <3>11 DEF x
  <2> QED BY <2>3, <2>4
<1> QED BY <1>2, <1>4, <1>5, <1>7, <1>8
----------------------------------------------------------------------------
(***************************************************************************)
(* What the PMU sends.                                                     *)
(***************************************************************************)
\* One element of the sum of s, for the places S.
SumStep(s, f, S) == IF S = {} THEN 0 ELSE f[S \ {Max(S)}] + s[Max(S)]

SumOf(s) == CHOOSE f : f = [S \in SUBSET (DOMAIN s) |-> SumStep(s, f, S)]

\* The sum the checksum folds is the recursive function SumOf.
LEMMA SumIs ==
  ASSUME NEW s
  PROVE  FoldLeft(LAMBDA sum, byte : sum + byte, 0, s) = SumOf(s)[DOMAIN s]
BY DEF FoldLeft, MapThenFoldSet, SumOf, SumStep

\* The last of the places is taken off.
LEMMA LastPlace ==
  ASSUME NEW k \in Nat, NEW S \in SUBSET (1 .. k + 1), k + 1 \in S
  PROVE  Max(S) = k + 1 /\ S \ {k + 1} \in SUBSET (1 .. k)
<1>1. \A x \in S : x \in Int /\ x <= k + 1
  OBVIOUS
<1>2. \A x \in S : (\A y \in S : x >= y) <=> x = k + 1
  BY <1>1
<1>3. Max(S) = k + 1
  BY <1>2 DEF Max
<1>4. \A x \in S \ {k + 1} : x \in 1 .. k
  OBVIOUS
<1> QED BY <1>3, <1>4

\* SumOf satisfies its own equation.
LEMMA SumExists ==
  ASSUME NEW s \in Seq(Nat)
  PROVE  SumOf(s) = [S \in SUBSET (DOMAIN s) |-> SumStep(s, SumOf(s), S)]
<1> DEFINE n == Len(s)
           Eq(f, k) == f = [S \in SUBSET (1 .. k) |-> SumStep(s, f, S)]
           G == {i \in 1 .. n + 1 : \E f : Eq(f, n + 1 - i)}
<1>0. n \in Nat /\ DOMAIN s = 1 .. n
  OBVIOUS
<1>1. ASSUME NEW i \in 1 .. n + 1, \A j \in i + 1 .. n + 1 : j \in G
      PROVE  i \in G
  <2>1. CASE i = n + 1
    <3> DEFINE f == [S \in SUBSET (1 .. 0) |-> 0]
    <3>1. \A S \in SUBSET (1 .. 0) : S = {}
      OBVIOUS
    <3>2. Eq(f, 0)
      BY <3>1 DEF SumStep
    <3>3. n + 1 - i = 0
      BY <1>0, <2>1
    <3> HIDE DEF Eq, f
    <3> QED BY <3>2, <3>3
  <2>2. CASE i <= n
    <3> DEFINE k == n - i
    <3>1. k \in Nat /\ n + 1 - (i + 1) = k /\ n + 1 - i = k + 1
          /\ i + 1 \in i + 1 .. n + 1
      <4>1. n \in Nat /\ i \in Int /\ i >= 1
        BY <1>0
      <4> HIDE DEF n
      <4> QED BY <2>2, <4>1
    <3>2. PICK f : Eq(f, k)
      <4>1. i + 1 \in G
        BY <1>1, <3>1
      <4>2. \E f : Eq(f, n + 1 - (i + 1))
        <5> HIDE DEF Eq
        <5> QED BY <4>1
      <4> HIDE DEF Eq, k
      <4> QED BY <3>1, <4>2
    <3> HIDE DEF k
    <3> DEFINE g == [S \in SUBSET (1 .. k + 1) |->
                       IF k + 1 \in S THEN f[S \ {k + 1}] + s[k + 1] ELSE f[S]]
    <3>3. \A S \in SUBSET (1 .. k) : S \in SUBSET (1 .. k + 1) /\ k + 1 \notin S
      BY <3>1
    <3>4. \A S \in SUBSET (1 .. k) : g[S] = f[S]
      BY <3>3
    <3>5. ASSUME NEW S \in SUBSET (1 .. k + 1) PROVE g[S] = SumStep(s, g, S)
      <4>1. CASE k + 1 \in S
        <5>1. Max(S) = k + 1 /\ S \ {k + 1} \in SUBSET (1 .. k) /\ S # {}
          BY <3>1, <4>1, LastPlace
        <5>2. g[S] = f[S \ {k + 1}] + s[k + 1]
          BY <4>1
        <5>3. g[S \ {k + 1}] = f[S \ {k + 1}]
          BY <3>4, <5>1
        <5> HIDE DEF g
        <5> QED BY <5>1, <5>2, <5>3 DEF SumStep
      <4>2. CASE k + 1 \notin S
        <5>1. S \in SUBSET (1 .. k) /\ S \ {Max(S)} \in SUBSET (1 .. k)
          <6>1. \A x \in S : x \in 1 .. k
            BY <3>1, <4>2
          <6> QED BY <6>1
        <5>2. f[S] = SumStep(s, f, S)
          BY <3>2, <5>1
        <5>3. g[S] = f[S] /\ g[S \ {Max(S)}] = f[S \ {Max(S)}]
          BY <3>4, <5>1
        <5> HIDE DEF g
        <5> QED BY <5>2, <5>3 DEF SumStep
      <4> QED BY <4>1, <4>2
    <3>6. Eq(g, k + 1)
      <4>1. g = [S \in SUBSET (1 .. k + 1) |-> g[S]]
        OBVIOUS
      <4> HIDE DEF g
      <4> QED BY <3>5, <4>1
    <3> HIDE DEF Eq, g
    <3> QED BY <3>1, <3>6
  <2> HIDE DEF G
  <2> QED BY <1>0, <2>1, <2>2
<1>2. 1 \in G
  <2>1. n + 1 \in Nat /\ 1 \in 1 .. n + 1
    BY <1>0
  <2> HIDE DEF G, n
  <2> QED BY <1>1, <2>1, Downwards
<1>3. \E f : f = [S \in SUBSET (DOMAIN s) |-> SumStep(s, f, S)]
  <2>1. n + 1 - 1 = n
    BY <1>0
  <2>2. \E f : Eq(f, n)
    <3> HIDE DEF Eq
    <3> QED BY <1>2, <2>1
  <2> QED BY <1>0, <2>2
<1> QED BY <1>3 DEF SumOf

\* A sum of naturals is one.
LEMMA SumIsNat ==
  ASSUME NEW s \in Seq(Nat)
  PROVE  SumOf(s)[DOMAIN s] \in Nat
<1> DEFINE n == Len(s)
           F == SumOf(s)
           G == {i \in 1 .. n + 1 : \A S \in SUBSET (1 .. n + 1 - i) : F[S] \in Nat}
<1>0. n \in Nat /\ DOMAIN s = 1 .. n
  OBVIOUS
<1>1. \A S \in SUBSET (1 .. n) : F[S] = SumStep(s, F, S)
  <2> HIDE DEF F
  <2> QED BY <1>0, SumExists DEF F
<1> HIDE DEF F
<1>2. ASSUME NEW i \in 1 .. n + 1, \A j \in i + 1 .. n + 1 : j \in G
      PROVE  i \in G
  <2>1. ASSUME NEW S \in SUBSET (1 .. n + 1 - i) PROVE F[S] \in Nat
    <3>0. S \in SUBSET (1 .. n)
      BY <1>0
    <3>1. CASE S = {}
      <4>1. F[S] = SumStep(s, F, S)
        BY <1>1, <3>0
      <4> QED BY <3>1, <4>1 DEF SumStep
    <3>2. CASE S # {}
      <4> DEFINE k == n - i
      <4>1. k \in Nat /\ n + 1 - (i + 1) = k /\ n + 1 - i = k + 1
            /\ i + 1 \in i + 1 .. n + 1 /\ k + 1 \in 1 .. n
        <5>1. n \in Nat /\ i \in Int /\ i >= 1 /\ i <= n + 1
          BY <1>0
        <5> HIDE DEF n
        <5>2. PICK x \in 1 .. n + 1 - i : TRUE
          BY <3>2
        <5>3. i <= n
          BY <5>1, <5>2
        <5> QED BY <5>1, <5>3
      <4>2. \A R \in SUBSET (1 .. k) : F[R] \in Nat
        <5>1. i + 1 \in G
          BY <1>2, <4>1
        <5>2. \A R \in SUBSET (1 .. n + 1 - (i + 1)) : F[R] \in Nat
          BY <5>1
        <5> HIDE DEF k
        <5> QED BY <4>1, <5>2
      <4> HIDE DEF k
      <4>3. CASE k + 1 \in S
        <5>1. Max(S) = k + 1 /\ S \ {k + 1} \in SUBSET (1 .. k)
          BY <4>1, <4>3, LastPlace
        <5>2. F[S] = F[S \ {k + 1}] + s[k + 1]
          BY <1>1, <3>0, <3>2, <5>1 DEF SumStep
        <5>3. s[k + 1] \in Nat
          BY <4>1, ElementOfSeq
        <5>4. F[S \ {k + 1}] \in Nat
          BY <4>2, <5>1
        <5> QED BY <5>2, <5>3, <5>4
      <4>4. CASE k + 1 \notin S
        <5>1. S \in SUBSET (1 .. k)
          BY <4>1, <4>4
        <5> QED BY <4>2, <5>1
      <4> QED BY <4>3, <4>4
    <3> QED BY <3>1, <3>2
  <2> QED BY <2>1
<1>3. 1 \in G
  <2>1. n + 1 \in Nat /\ 1 \in 1 .. n + 1
    BY <1>0
  <2> HIDE DEF G, n
  <2> QED BY <1>2, <2>1, Downwards
<1>4. n + 1 - 1 = n
  BY <1>0
<1> QED BY <1>0, <1>3, <1>4 DEF F

\* The checksum is a byte.
LEMMA CheckSumIsByte ==
  ASSUME NEW s \in Seq(Nat)
  PROVE  CheckSum(s) \in Bytes
<1> DEFINE sum == SumOf(s)[DOMAIN s]
           c == Cardinality(Bytes)
<1>1. CheckSum(s) = sum % c
  BY SumIs DEF CheckSum
<1>2. sum \in Nat
  BY SumIsNat
<1>3. c \in Nat /\ Bytes = 0 .. c - 1 /\ Start \in Bytes
  BY BytesAssumption, FS_CardinalityType
<1> HIDE DEF sum, c
<1>4. c > 0
  BY <1>3
<1>5. sum % c \in 0 .. c - 1
  BY <1>2, <1>3, <1>4
<1> QED BY <1>1, <1>3, <1>5

\* Bytes are numbers.
LEMMA BytesAreNat == Bytes \subseteq Nat /\ Seq(Bytes) \subseteq Seq(Nat)
<1>1. Bytes \subseteq Nat
  BY BytesAssumption, FS_CardinalityType
<1> QED BY <1>1, SeqMonotonic

\* The bytes of a frame, one by one.
LEMMA EncodedIs ==
  ASSUME NEW body \in Seq(Bytes), Len(body) \in MinLen .. MaxLen, Len(body) \in Bytes
  PROVE  /\ Encoded(body) \in Seq(Bytes)
         /\ Len(Encoded(body)) = Len(body) + Overhead
         /\ Encoded(body)[1] = Start
         /\ Encoded(body)[2] = Len(body)
         /\ \A j \in 1 .. Len(body) : Encoded(body)[j + 2] = body[j]
         /\ Encoded(body)[Len(body) + 3] = CheckSum(<<Len(body)>> \o body)
         /\ Encoded(body)[Len(body) + 4] = End
<1> DEFINE n == Len(body)
           head == <<n>>
           inner == head \o body
           c == CheckSum(inner)
           start == <<Start>>
           front == start \o inner
           tail == <<c, End>>
<1>1. n \in Nat /\ n \in Bytes /\ Start \in Bytes /\ End \in Bytes
  BY BytesAssumption
<1>2. head \in Seq(Bytes) /\ Len(head) = 1 /\ head[1] = n
  BY <1>1
<1>3. start \in Seq(Bytes) /\ Len(start) = 1 /\ start[1] = Start
  BY <1>1
<1> HIDE DEF head, start
<1>4. /\ inner \in Seq(Bytes) /\ Len(inner) = 1 + n
      /\ \A i \in 1 .. 1 + n :
           inner[i] = IF i <= 1 THEN head[i] ELSE body[i - 1]
  <2>1. head \in Seq(Bytes) /\ Len(head) = 1
    BY <1>2
  <2>2. /\ head \o body \in Seq(Bytes) /\ Len(head \o body) = Len(head) + Len(body)
        /\ \A i \in 1 .. Len(head) + Len(body) :
             (head \o body)[i] = IF i <= Len(head) THEN head[i] ELSE body[i - Len(head)]
    BY <2>1, ConcatProperties
  <2> QED BY <2>1, <2>2
<1> HIDE DEF inner
<1>5. /\ front \in Seq(Bytes) /\ Len(front) = 1 + (1 + n)
      /\ \A i \in 1 .. 1 + (1 + n) :
           front[i] = IF i <= 1 THEN start[i] ELSE inner[i - 1]
  <2>1. start \in Seq(Bytes) /\ inner \in Seq(Bytes)
    BY <1>3, <1>4
  <2>2. Len(start) = 1 /\ Len(inner) = 1 + n
    BY <1>3, <1>4
  <2>3. /\ start \o inner \in Seq(Bytes)
        /\ Len(start \o inner) = Len(start) + Len(inner)
        /\ \A i \in 1 .. Len(start) + Len(inner) :
             (start \o inner)[i] = IF i <= Len(start) THEN start[i]
                                   ELSE inner[i - Len(start)]
    BY <2>1, ConcatProperties
  <2> QED BY <2>2, <2>3
<1>6. c \in Bytes
  <2>1. inner \in Seq(Nat)
    BY <1>4, BytesAreNat
  <2> QED BY <2>1, CheckSumIsByte
<1> HIDE DEF c, front
<1>7. tail \in Seq(Bytes) /\ Len(tail) = 2 /\ tail[1] = c /\ tail[2] = End
  BY <1>1, <1>6
<1> HIDE DEF tail
<1> DEFINE e == front \o tail
<1>8. /\ e \in Seq(Bytes) /\ Len(e) = (1 + (1 + n)) + 2
      /\ \A i \in 1 .. (1 + (1 + n)) + 2 :
           e[i] = IF i <= 1 + (1 + n) THEN front[i] ELSE tail[i - (1 + (1 + n))]
  <2>1. front \in Seq(Bytes) /\ tail \in Seq(Bytes)
    BY <1>5, <1>7
  <2>2. Len(front) = 1 + (1 + n) /\ Len(tail) = 2
    BY <1>5, <1>7
  <2>3. /\ front \o tail \in Seq(Bytes)
        /\ Len(front \o tail) = Len(front) + Len(tail)
        /\ \A i \in 1 .. Len(front) + Len(tail) :
             (front \o tail)[i] = IF i <= Len(front) THEN front[i]
                                  ELSE tail[i - Len(front)]
    BY <2>1, ConcatProperties
  <2> QED BY <2>2, <2>3
<1>9. Encoded(body) = e
  <2>1. Encoded(body) = start \o inner \o <<CheckSum(inner), End>>
    BY DEF Encoded, start, inner, head
  <2> QED BY <2>1 DEF front, tail, c
<1> HIDE DEF e, n
<1>10. Len(e) = n + 4
  BY <1>1, <1>8
<1>11. e[1] = Start
  <2>1. e[1] = front[1]
    BY <1>1, <1>8
  <2>2. front[1] = start[1]
    BY <1>1, <1>5
  <2> QED BY <1>3, <2>1, <2>2
<1>12. e[2] = n
  <2>1. 2 \in 1 .. (1 + (1 + n)) + 2 /\ 2 <= 1 + (1 + n) /\ 2 - 1 = 1
        /\ 2 \in 1 .. 1 + (1 + n) /\ 1 \in 1 .. 1 + n
    BY <1>1
  <2>2. e[2] = front[2]
    BY <1>8, <2>1
  <2>3. front[2] = inner[1]
    BY <1>5, <2>1
  <2>4. inner[1] = head[1]
    BY <1>4, <2>1
  <2> QED BY <1>2, <2>2, <2>3, <2>4
<1>13. ASSUME NEW j \in 1 .. n PROVE e[j + 2] = body[j]
  <2>1. /\ j + 2 \in 1 .. (1 + (1 + n)) + 2 /\ j + 2 <= 1 + (1 + n)
        /\ j + 2 \in 1 .. 1 + (1 + n) /\ ~(j + 2 <= 1) /\ (j + 2) - 1 = j + 1
        /\ j + 1 \in 1 .. 1 + n /\ ~(j + 1 <= 1) /\ (j + 1) - 1 = j
    BY <1>1
  <2>2. e[j + 2] = front[j + 2]
    BY <1>8, <2>1
  <2>3. front[j + 2] = inner[j + 1]
    BY <1>5, <2>1
  <2>4. inner[j + 1] = body[j]
    BY <1>4, <2>1
  <2> QED BY <2>2, <2>3, <2>4
<1>14. e[n + 3] = c /\ e[n + 4] = End
  <2>1. /\ n + 3 \in 1 .. (1 + (1 + n)) + 2 /\ ~(n + 3 <= 1 + (1 + n))
        /\ n + 4 \in 1 .. (1 + (1 + n)) + 2 /\ ~(n + 4 <= 1 + (1 + n))
        /\ (n + 3) - (1 + (1 + n)) = 1 /\ (n + 4) - (1 + (1 + n)) = 2
    BY <1>1
  <2>2. e[n + 3] = tail[1] /\ e[n + 4] = tail[2]
    BY <1>8, <2>1
  <2> QED BY <1>7, <2>2
<1>15. c = CheckSum(<<n>> \o body)
  BY DEF c, inner, head
<1> QED BY <1>8, <1>9, <1>10, <1>11, <1>12, <1>13, <1>14, <1>15 DEF n, Overhead

\* A frame that is among the bytes of p and begins at i is found there.
Holds(p, i, body) ==
  /\ i \in 1 .. Len(p) /\ i + Len(body) + Overhead - 1 <= Len(p)
  /\ \A j \in 1 .. Len(body) + Overhead : p[i + j - 1] = Encoded(body)[j]

\* The loop finds such a frame, with its body, and goes on behind it.
LEMMA FrameFound ==
  ASSUME NEW p \in Seq(Nat), NEW i, NEW body \in Seq(Bytes),
         Len(body) \in MinLen .. MaxLen, Len(body) \in Bytes, Holds(p, i, body)
  PROVE  /\ Whole(p, i) /\ ~Waits(p, i) /\ ~BadSum(p, i)
         /\ FoundAt(p, i) = [body |-> body, last |-> i + Len(body) + Overhead - 1]
         /\ Jump(p, i) = i + Len(body) + Overhead
         /\ Gain(p, i) = <<[body |-> body, last |-> i + Len(body) + Overhead - 1]>>
<1> DEFINE n == Len(body)
           e == Encoded(body)
<1>1. /\ n \in Nat /\ MinLen \in Nat /\ MaxLen \in Nat /\ MinLen <= n /\ n <= MaxLen
      /\ Len(p) \in Nat /\ i \in 1 .. Len(p) /\ i + n + 4 - 1 <= Len(p) /\ i \in Nat
  BY BytesAssumption DEF Holds, Overhead
<1>2. /\ e[1] = Start /\ e[2] = n
      /\ \A j \in 1 .. n : e[j + 2] = body[j]
      /\ e[n + 3] = CheckSum(<<n>> \o body) /\ e[n + 4] = End
  BY EncodedIs
<1>3. \A j \in 1 .. n + 4 : p[i + j - 1] = e[j]
  BY DEF Holds, Overhead
<1>4. body \in Seq(Nat)
  BY BytesAreNat
<1> HIDE DEF e, n
<1>5. p[i] = Start /\ p[i + 1] = n /\ p[i + (n + 2)] = CheckSum(<<n>> \o body)
      /\ p[i + (n + 3)] = End
  <2>1. /\ 1 \in 1 .. n + 4 /\ 2 \in 1 .. n + 4 /\ n + 3 \in 1 .. n + 4 /\ n + 4 \in 1 .. n + 4
        /\ i + 1 - 1 = i /\ i + 2 - 1 = i + 1 /\ i + (n + 3) - 1 = i + (n + 2)
        /\ i + (n + 4) - 1 = i + (n + 3)
    BY <1>1
  <2>2. p[i + 1 - 1] = e[1] /\ p[i + 2 - 1] = e[2]
    BY <1>3, <2>1
  <2>3. p[i + (n + 3) - 1] = e[n + 3] /\ p[i + (n + 4) - 1] = e[n + 4]
    BY <1>3, <2>1
  <2> QED BY <1>2, <2>1, <2>2, <2>3
<1>6. Size(p, i) = n + 4 /\ EndOf(p, i) = i + (n + 4) - 1
  BY <1>5 DEF Size, EndOf, Overhead
<1>7. Whole(p, i)
  <2>1. ~Short(p, i)
    BY <1>1 DEF Short, Left, Overhead
  <2>2. ~BadLength(p, i)
    BY <1>1, <1>5 DEF BadLength
  <2>3. ~Incomplete(p, i)
    BY <1>1, <1>6 DEF Incomplete, Left
  <2>4. ~NoEnd(p, i)
    <3>1. i + (n + 4) - 1 = i + (n + 3)
      BY <1>1
    <3> QED BY <1>5, <1>6, <3>1 DEF NoEnd
  <2> QED BY <1>5, <2>1, <2>2, <2>3, <2>4 DEF Whole
<1>8. ~Waits(p, i)
  BY <1>7 DEF Whole, Waits
<1>9. Body(p, i) = body
  <2>1. /\ Body(p, i) \in Seq(Nat) /\ Len(Body(p, i)) = n
        /\ \A j \in 1 .. n : Body(p, i)[j] = p[i + 1 + j]
    BY <1>1, <1>5, <1>7, BodyIs
  <2>2. ASSUME NEW j \in 1 .. n PROVE p[i + 1 + j] = body[j]
    <3>1. j + 2 \in 1 .. n + 4 /\ i + (j + 2) - 1 = i + 1 + j
      BY <1>1
    <3>2. p[i + (j + 2) - 1] = e[j + 2]
      BY <1>3, <3>1
    <3> QED BY <1>2, <3>1, <3>2
  <2> DEFINE x == Body(p, i)
  <2>3. x \in Seq(Nat) /\ Len(x) = Len(body) /\ \A j \in 1 .. Len(x) : x[j] = body[j]
    BY <2>1, <2>2 DEF n
  <2> HIDE DEF x
  <2>4. x = body
    BY <1>4, <2>3, SeqEqual
  <2> QED BY <2>4 DEF x
<1>10. ~BadSum(p, i)
  <2> DEFINE s == SubSeq(p, i + 1, i + (n + 1))
             head == <<n>>
             t == head \o body
  <2>1. /\ s \in Seq(Nat) /\ Len(s) = n + 1
        /\ \A j \in 1 .. n + 1 : s[j] = p[i + j]
    <3> DEFINE a == i + 1
               z == i + (n + 1)
    <3>1. a \in Int /\ z \in Int /\ a <= z /\ z - a + 1 = n + 1
          /\ a .. z \subseteq 1 .. Len(p)
      BY <1>1
    <3>2. \A j \in 1 .. n + 1 : a + j - 1 = i + j
      BY <1>1
    <3> HIDE DEF a, z
    <3>3. \A j \in a .. z : p[j] \in Nat
      BY <3>1, ElementOfSeq
    <3>4. /\ SubSeq(p, a, z) \in Seq(Nat) /\ Len(SubSeq(p, a, z)) = z - a + 1
          /\ \A j \in 1 .. z - a + 1 : SubSeq(p, a, z)[j] = p[a + j - 1]
      BY <3>1, <3>3, SliceIs
    <3> QED BY <3>1, <3>2, <3>4 DEF a, z
  <2>2. head \in Seq(Nat) /\ Len(head) = 1 /\ head[1] = n
    BY <1>1
  <2>3. Len(body) = n
    BY DEF n
  <2> HIDE DEF head
  <2>4. /\ t \in Seq(Nat) /\ Len(t) = 1 + n
        /\ \A j \in 1 .. 1 + n : t[j] = IF j <= 1 THEN head[j] ELSE body[j - 1]
    <3>1. head \in Seq(Nat) /\ Len(head) = 1
      BY <2>2
    <3>2. /\ head \o body \in Seq(Nat) /\ Len(head \o body) = Len(head) + Len(body)
          /\ \A j \in 1 .. Len(head) + Len(body) :
               (head \o body)[j] = IF j <= Len(head) THEN head[j] ELSE body[j - Len(head)]
      BY <1>4, <3>1, ConcatProperties
    <3> QED BY <2>3, <3>1, <3>2
  <2> HIDE DEF s, t
  <2>5. ASSUME NEW j \in 1 .. n + 1 PROVE s[j] = t[j]
    <3>0. s[j] = p[i + j]
      BY <2>1
    <3>1. CASE j = 1
      <4>1. 1 \in 1 .. 1 + n
        BY <1>1
      <4>2. t[1] = head[1]
        BY <2>4, <4>1
      <4>3. s[1] = p[i + 1]
        BY <3>0, <3>1
      <4> QED BY <1>5, <2>2, <3>1, <4>2, <4>3
    <3>2. CASE j # 1
      <4>1. j - 1 \in 1 .. n /\ j + 1 \in 1 .. n + 4 /\ i + (j + 1) - 1 = i + j
            /\ (j - 1) + 2 = j + 1 /\ j \in 1 .. 1 + n /\ ~(j <= 1)
        BY <1>1, <3>2
      <4>2. p[i + (j + 1) - 1] = e[j + 1]
        BY <1>3, <4>1
      <4>3. e[(j - 1) + 2] = body[j - 1]
        BY <1>2, <4>1
      <4>4. t[j] = body[j - 1]
        BY <2>4, <4>1
      <4> QED BY <3>0, <4>1, <4>2, <4>3, <4>4
    <3> QED BY <3>1, <3>2
  <2>6. s = t
    <3>1. Len(s) = Len(t) /\ \A j \in 1 .. Len(s) : s[j] = t[j]
      BY <1>1, <2>1, <2>4, <2>5
    <3> QED BY <2>1, <2>4, <3>1, SeqEqual
  <2>7. i + Size(p, i) - 2 = i + (n + 2) /\ i + Size(p, i) - 3 = i + (n + 1)
    <3>1. i + (n + 4) - 2 = i + (n + 2) /\ i + (n + 4) - 3 = i + (n + 1)
      BY <1>1
    <3> QED BY <1>6, <3>1
  <2>8. p[i + (n + 2)] = CheckSum(t)
    BY <1>5 DEF t, head
  <2> QED BY <2>6, <2>7, <2>8 DEF BadSum, s
<1>11. EndOf(p, i) = i + n + Overhead - 1 /\ EndOf(p, i) + 1 = i + n + Overhead
  BY <1>1, <1>6 DEF Overhead
<1>12. FoundAt(p, i) = [body |-> body, last |-> i + n + Overhead - 1]
  BY <1>9, <1>11 DEF FoundAt
<1> QED BY <1>7, <1>8, <1>10, <1>11, <1>12 DEF Jump, Gain, n
----------------------------------------------------------------------------
(***************************************************************************)
(* The specification.  What was read so far, Taken, ends with the buffer,  *)
(* and a loop over it, with whatever behind it, finds the accepted frames  *)
(* and goes on where the buffer begins.                                    *)
(***************************************************************************)
Prefix(k) == SubSeq(line, 1, k)

Taken == Prefix(position)

Used == position - Len(buffer)

LineInv ==
  /\ line \in Seq(Bytes) /\ position \in 0 .. Len(line)
  /\ \A k \in DOMAIN sent : IsFrame(sent[k])
  /\ noise \subseteq 1 .. Len(line)

BufferInv ==
  /\ buffer \in Seq(Bytes) /\ Len(buffer) < MaxLen + Overhead
  /\ Len(buffer) <= position
  /\ Window(buffer, Taken, Used)

FramesInv ==
  /\ frames \in Seq(FrameSet)
  /\ frames = IF position = 0 THEN <<>> ELSE Loop(Taken)[1].found
  /\ Resumes(Taken, Used, frames)

SplitInv == LineInv /\ BufferInv /\ FramesInv

\* A part of a sequence.
LEMMA PartIs ==
  ASSUME NEW S, NEW s \in Seq(S), NEW m \in Nat \ {0}, NEW n \in 0 .. Len(s), m <= n + 1
  PROVE  /\ SubSeq(s, m, n) \in Seq(S) /\ Len(SubSeq(s, m, n)) = n - m + 1
         /\ \A i \in 1 .. n - m + 1 : SubSeq(s, m, n)[i] = s[m + i - 1]
<1>1. Len(s) \in Nat
  OBVIOUS
<1>2. m .. n \subseteq 1 .. Len(s)
  BY <1>1
<1>3. \A i \in m .. n : s[i] \in S
  BY <1>2, ElementOfSeq
<1>4. /\ SubSeq(s, m, n) \in Seq(S)
      /\ Len(SubSeq(s, m, n)) = IF m <= n THEN n - m + 1 ELSE 0
      /\ \A i \in 1 .. n - m + 1 : SubSeq(s, m, n)[i] = s[m + i - 1]
  BY <1>1, <1>3, SubSeqProperties
<1> QED BY <1>1, <1>4

\* The first k bytes of the line.
LEMMA PrefixIs ==
  ASSUME LineInv, NEW k \in 0 .. Len(line)
  PROVE  /\ Prefix(k) \in Seq(Bytes) /\ Prefix(k) \in Seq(Nat) /\ Len(Prefix(k)) = k
         /\ \A i \in 1 .. k : Prefix(k)[i] = line[i]
<1> DEFINE p == SubSeq(line, 1, k)
<1>1. line \in Seq(Bytes) /\ k \in Nat /\ k - 1 + 1 = k /\ \A i \in 1 .. k : 1 + i - 1 = i
  BY DEF LineInv
<1>2. /\ p \in Seq(Bytes) /\ Len(p) = k - 1 + 1
      /\ \A i \in 1 .. k - 1 + 1 : p[i] = line[1 + i - 1]
  BY <1>1, PartIs
<1> HIDE DEF p
<1>3. p \in Seq(Nat)
  BY <1>2, BytesAreNat
<1> QED BY <1>1, <1>2, <1>3 DEF p, Prefix

\* A frame that is found is good, whatever the bytes are.
LEMMA FoundIsGood ==
  ASSUME NEW b \in Seq(Bytes)
  PROVE  \A i \in 1 .. Len(b) : \A k \in DOMAIN Loop(b)[i].found :
           LET f == Loop(b)[i].found[k]
           IN  /\ f.body \in Seq(Bytes) /\ Len(f.body) \in MinLen .. MaxLen
               /\ f.last \in 1 .. Len(b)
<1> DEFINE n == Len(b)
           L == Loop(b)
           Good(f) == /\ f.body \in Seq(Bytes) /\ Len(f.body) \in MinLen .. MaxLen
                      /\ f.last \in 1 .. n
           G == {i \in 1 .. n : \A k \in DOMAIN L[i].found : Good(L[i].found[k])}
<1>0. n \in Nat /\ b \in Seq(Nat)
  BY BytesAreNat
<1>1. \A i \in 1 .. n :
        /\ L[i] \in Results
        /\ L[i] = IF Waits(b, i) THEN StopAt(i - 1)
                  ELSE Joined(Gain(b, i), From(b, L, Jump(b, i), Mark(b, i)))
  BY <1>0, LoopIs
<1> HIDE DEF L
<1>2. ASSUME NEW i \in 1 .. n, Whole(b, i)
      PROVE  Good(FoundAt(b, i))
  <2> DEFINE v == b[i + 1]
  <2>1. /\ i + 1 \in 1 .. n /\ v \in MinLen .. MaxLen
        /\ EndOf(b, i) \in Nat /\ EndOf(b, i) <= n
        /\ i + MinLen + Overhead - 1 <= EndOf(b, i)
    BY <1>0, <1>2, WholeEnds
  <2>2. /\ Body(b, i) \in Seq(Nat) /\ Len(Body(b, i)) = v
        /\ \A k \in 1 .. v : Body(b, i)[k] = b[i + 1 + k]
    BY <1>0, <1>2, BodyIs
  <2>3. \A k \in 1 .. v : b[i + 1 + k] \in Bytes
    <3>1. MinLen \in Nat /\ MaxLen \in Nat /\ EndOf(b, i) = i + (v + 4) - 1
      BY <1>0, <1>2, WholeEnds, BytesAssumption DEF EndOf, Overhead
    <3>2. v \in Nat
      BY <2>1, <3>1
    <3> HIDE DEF v, n
    <3>3. \A k \in 1 .. v : i + 1 + k \in 1 .. n
      BY <1>0, <2>1, <3>1, <3>2
    <3> QED BY <3>3, ElementOfSeq DEF n
  <2>4. Body(b, i) \in Seq(Bytes)
    <3> DEFINE x == Body(b, i)
    <3>1. x \in Seq(Nat) /\ \A k \in 1 .. Len(x) : x[k] \in Bytes
      BY <2>2, <2>3
    <3> HIDE DEF x
    <3>2. x = [k \in 1 .. Len(x) |-> x[k]] /\ Len(x) \in Nat
      BY <3>1
    <3> DEFINE m == Len(x)
    <3>3. x = [k \in 1 .. m |-> x[k]] /\ m \in Nat /\ \A k \in 1 .. m : x[k] \in Bytes
      BY <3>1, <3>2
    <3> HIDE DEF m
    <3>4. x \in [1 .. m -> Bytes]
      BY <3>3
    <3>5. x \in Seq(Bytes)
      BY <3>3, <3>4
    <3> QED BY <3>5 DEF x
  <2>5. EndOf(b, i) \in 1 .. n
    <3>1. MinLen \in Nat
      BY BytesAssumption
    <3> QED BY <1>0, <2>1, <3>1 DEF Overhead
  <2> QED BY <2>1, <2>2, <2>4, <2>5 DEF FoundAt
<1> HIDE DEF Good
<1>3. ASSUME NEW i \in 1 .. n, \A j \in i + 1 .. n : j \in G
      PROVE  i \in G
  <2>1. CASE Waits(b, i)
    <3>1. L[i] = StopAt(i - 1)
      BY <1>1, <2>1
    <3>2. L[i].found = <<>>
      BY <3>1 DEF StopAt
    <3> QED BY <3>2
  <2>2. CASE ~Waits(b, i)
    <3> DEFINE r == From(b, L, Jump(b, i), Mark(b, i))
               g == Gain(b, i)
    <3>1. /\ Jump(b, i) \in Nat /\ i < Jump(b, i) /\ Mark(b, i) \in Nat
          /\ g \in Seq(FrameSet) /\ (~Whole(b, i) => g = <<>>)
      BY <1>0, Moves
    <3>2. r \in Results /\ \A k \in DOMAIN r.found : Good(r.found[k])
      <4>1. CASE Jump(b, i) > n
        <5>1. r = StopAt(Mark(b, i))
          BY <4>1 DEF From
        <5>2. r \in Results /\ r.found = <<>>
          BY <3>1, <5>1, StopJoined
        <5> QED BY <5>2
      <4>2. CASE ~(Jump(b, i) > n)
        <5>1. Jump(b, i) \in i + 1 .. n
          BY <1>0, <3>1, <4>2
        <5>2. r = L[Jump(b, i)]
          BY <4>2 DEF From
        <5>3. Jump(b, i) \in G /\ Jump(b, i) \in 1 .. n
          BY <1>3, <5>1
        <5> HIDE DEF r
        <5> QED BY <1>1, <5>2, <5>3
      <4> QED BY <4>1, <4>2
    <3>3. \A k \in DOMAIN g : Good(g[k])
      <4>1. CASE Whole(b, i) /\ ~BadSum(b, i)
        <5>1. g = <<FoundAt(b, i)>>
          BY <4>1 DEF Gain
        <5>2. Good(FoundAt(b, i))
          BY <1>2, <4>1
        <5> HIDE DEF g
        <5> QED BY <5>1, <5>2
      <4>2. CASE ~(Whole(b, i) /\ ~BadSum(b, i))
        <5>1. g = <<>>
          BY <4>2 DEF Gain
        <5> HIDE DEF g
        <5> QED BY <5>1
      <4> QED BY <4>1, <4>2
    <3>4. L[i].found = g \o r.found
      <4>1. L[i] = Joined(g, r)
        BY <1>1, <2>2
      <4> HIDE DEF g, r
      <4> QED BY <4>1 DEF Joined
    <3> HIDE DEF g, r
    <3> DEFINE h == r.found
    <3>5. h \in Seq(FrameSet)
      BY <3>2 DEF Results
    <3>6. \A k \in DOMAIN h : Good(h[k])
      BY <3>2
    <3> HIDE DEF h
    <3>7. \A k \in DOMAIN (g \o h) : Good((g \o h)[k])
      <4>1. /\ g \o h \in Seq(FrameSet) /\ Len(g \o h) = Len(g) + Len(h)
            /\ \A k \in 1 .. Len(g) + Len(h) :
                 (g \o h)[k] = IF k <= Len(g) THEN g[k] ELSE h[k - Len(g)]
        BY <3>1, <3>5, ConcatProperties
      <4>2. /\ DOMAIN (g \o h) = 1 .. Len(g) + Len(h)
            /\ DOMAIN g = 1 .. Len(g) /\ DOMAIN h = 1 .. Len(h)
            /\ Len(g) \in Nat /\ Len(h) \in Nat
        BY <3>1, <3>5, <4>1
      <4>3. \A k \in 1 .. Len(g) + Len(h) :
              IF k <= Len(g) THEN k \in DOMAIN g ELSE k - Len(g) \in DOMAIN h
        BY <4>2
      <4> QED BY <3>3, <3>6, <4>1, <4>2, <4>3
    <3> QED BY <3>4, <3>7 DEF h
  <2> QED BY <2>1, <2>2
<1>4. \A i \in 1 .. n : i \in G
  <2> HIDE DEF G, n
  <2> QED BY <1>0, <1>3, Downwards
<1> QED BY <1>4 DEF L, Good

\* A longer prefix of the line continues a shorter one.
LEMMA PrefixGrows ==
  ASSUME LineInv, NEW k \in 0 .. Len(line), NEW m \in 0 .. Len(line), k <= m
  PROVE  Window(Prefix(k), Prefix(m), 0)
<1>1. \A i \in 1 .. k : i \in 1 .. m /\ i + 0 = i
  OBVIOUS
<1>2. Len(Prefix(k)) = k /\ Len(Prefix(m)) = m /\ k + 0 <= m
  BY PrefixIs
<1>3. \A i \in 1 .. k : Prefix(k)[i] = line[i]
  BY PrefixIs
<1>4. \A i \in 1 .. m : Prefix(m)[i] = line[i]
  BY PrefixIs
<1>5. \A i \in 1 .. k : Prefix(m)[i + 0] = Prefix(k)[i]
  BY <1>1, <1>3, <1>4
<1> QED BY <1>2, <1>5 DEF Window

\* At the start nothing was read.
LEMMA SplitInit == Init => SplitInv
<1> SUFFICES ASSUME Init PROVE SplitInv
  OBVIOUS
<1>1. /\ line = <<>> /\ position = 0 /\ buffer = <<>>
      /\ frames = <<>> /\ sent = <<>> /\ noise = {}
  BY DEF Init
<1>2. LineInv
  <2>1. line \in Seq(Bytes) /\ Len(line) = 0
    BY <1>1
  <2> QED BY <1>1, <2>1 DEF LineInv
<1>3. Taken \in Seq(Nat) /\ Len(Taken) = 0
  <2>1. 0 \in 0 .. Len(line)
    BY <1>1
  <2> QED BY <1>1, <1>2, <2>1, PrefixIs DEF Taken
<1>4. Used = 0
  <2>1. Len(buffer) = 0 /\ position = 0
    BY <1>1
  <2> QED BY <2>1 DEF Used
<1>5. BufferInv
  <2>1. MaxLen \in Nat
    BY BytesAssumption
  <2>2. buffer \in Seq(Bytes) /\ Len(buffer) = 0
    BY <1>1
  <2> QED BY <1>1, <1>3, <1>4, <2>1, <2>2 DEF BufferInv, Window, Overhead
<1>6. Resumes(Taken, 0, <<>>)
  <2> SUFFICES ASSUME NEW d \in Seq(Nat), Len(Taken) < Len(d)
               PROVE  Loop(d)[1] = Joined(<<>>, Loop(d)[0 + 1])
    BY DEF Resumes
  <2>1. 1 \in 1 .. Len(d) /\ 0 + 1 = 1
    BY <1>3
  <2>2. Loop(d)[1] \in Results
    BY <2>1, LoopIs
  <2> QED BY <2>1, <2>2, JoinedIs
<1>7. FramesInv
  BY <1>1, <1>4, <1>6 DEF FramesInv
<1> QED BY <1>2, <1>5, <1>7 DEF SplitInv

\* The bytes of the buffer and of the read: the end of the longer prefix.
LEMMA GrownIs ==
  ASSUME SplitInv, NEW n \in 1 .. ChunkMax, position + n <= Len(line)
  PROVE  LET b == Grown(SubSeq(line, position + 1, position + n))
         IN  /\ b \in Seq(Bytes) /\ Len(b) + Used = position + n
             /\ Window(b, Prefix(position + n), Used)
<1> DEFINE m == Len(buffer)
           c == SubSeq(line, position + 1, position + n)
           b == buffer \o c
           q == Prefix(position + n)
<1>1. /\ line \in Seq(Bytes) /\ position \in Nat /\ buffer \in Seq(Bytes)
      /\ m \in Nat /\ m < MaxLen + Overhead /\ m <= position
      /\ Len(line) \in Nat /\ ChunkMax \in Nat /\ MaxLen \in Nat /\ n \in Nat
      /\ LineInv
  BY BytesAssumption DEF SplitInv, LineInv, BufferInv
<1>2. /\ c \in Seq(Bytes) /\ Len(c) = n
      /\ \A i \in 1 .. n : c[i] = line[position + i]
  <2> DEFINE a == position + 1
             z == position + n
  <2>1. /\ a \in Nat \ {0} /\ z \in 0 .. Len(line) /\ a <= z + 1 /\ z - a + 1 = n
        /\ \A i \in 1 .. n : a + i - 1 = position + i
    BY <1>1
  <2> HIDE DEF a, z
  <2>2. /\ SubSeq(line, a, z) \in Seq(Bytes) /\ Len(SubSeq(line, a, z)) = z - a + 1
        /\ \A i \in 1 .. z - a + 1 : SubSeq(line, a, z)[i] = line[a + i - 1]
    BY <1>1, <2>1, PartIs
  <2> QED BY <2>1, <2>2 DEF a, z
<1> HIDE DEF c
<1>3. /\ b \in Seq(Bytes) /\ Len(b) = m + n
      /\ \A i \in 1 .. m + n : b[i] = IF i <= m THEN buffer[i] ELSE c[i - m]
  <2>1. buffer \in Seq(Bytes) /\ c \in Seq(Bytes)
    BY <1>1, <1>2
  <2>2. /\ buffer \o c \in Seq(Bytes) /\ Len(buffer \o c) = Len(buffer) + Len(c)
        /\ \A i \in 1 .. Len(buffer) + Len(c) :
             (buffer \o c)[i] = IF i <= Len(buffer) THEN buffer[i] ELSE c[i - Len(buffer)]
    BY <2>1, ConcatProperties
  <2> QED BY <1>2, <2>2
<1> HIDE DEF b, m
<1>4. Grown(c) = b
  <2>1. ~(Len(b) > TrimAt)
    BY <1>1, <1>3, BytesAssumption, TrimAssumption DEF Overhead
  <2> QED BY <2>1 DEF Grown, b
<1>5. Len(b) + Used = position + n /\ Used = position - m /\ Used \in Nat
  BY <1>1, <1>3 DEF Used, m
<1>6. /\ Len(q) = position + n
      /\ \A i \in 1 .. position + n : q[i] = line[i]
  <2> HIDE DEF q
  <2>1. position + n \in 0 .. Len(line)
    BY <1>1
  <2> QED BY <1>1, <2>1, PrefixIs DEF q
<1>7. ASSUME NEW i \in 1 .. Len(b) PROVE q[i + Used] = b[i]
  <2>1. i \in 1 .. m + n
    BY <1>3
  <2>2. CASE i <= m
    <3>1. Taken[i + Used] = buffer[i]
      BY <2>1, <2>2 DEF SplitInv, BufferInv, Window, m
    <3>2. i + Used \in 1 .. position /\ i + Used \in 1 .. position + n
      BY <1>1, <1>5, <2>1, <2>2
    <3>3. Taken[i + Used] = line[i + Used]
      <4>1. position \in 0 .. Len(line)
        BY <1>1 DEF LineInv
      <4> QED BY <1>1, <3>2, <4>1, PrefixIs DEF Taken
    <3> QED BY <1>3, <1>6, <2>1, <2>2, <3>1, <3>2, <3>3
  <2>3. CASE ~(i <= m)
    <3>1. /\ i - m \in 1 .. n /\ position + (i - m) = i + Used
          /\ i + Used \in 1 .. position + n
      BY <1>1, <1>5, <2>1, <2>3
    <3>2. b[i] = c[i - m]
      BY <1>3, <2>1, <2>3
    <3>3. c[i - m] = line[i + Used]
      BY <1>2, <3>1
    <3> QED BY <1>6, <3>1, <3>2, <3>3
  <2> QED BY <2>2, <2>3
<1>8. Window(b, q, Used)
  <2>1. Len(b) + Used <= Len(q)
    BY <1>1, <1>5, <1>6
  <2> HIDE DEF q
  <2> QED BY <1>7, <2>1 DEF Window
<1> QED BY <1>3, <1>4, <1>5, <1>8 DEF c

\* What Read does to the buffer.
LEMMA RestIs ==
  ASSUME NEW b \in Seq(Bytes), NEW used \in 0 .. Len(b), NEW q, NEW u \in Nat,
         Window(b, q, u), Len(b) + u = Len(q)
  PROVE  /\ Rest(b, used) \in Seq(Bytes) /\ Len(Rest(b, used)) = Len(b) - used
         /\ Window(Rest(b, used), q, u + used)
<1> DEFINE n == Len(b)
           a == used + 1
           r == SubSeq(b, a, n)
<1>1. n \in Nat /\ used \in Nat /\ used <= n
  OBVIOUS
<1>2. /\ a \in Nat \ {0} /\ n \in 0 .. n /\ a <= n + 1 /\ n - a + 1 = n - used
      /\ \A i \in 1 .. n - used : a + i - 1 = used + i
  BY <1>1
<1>3. /\ r \in Seq(Bytes) /\ Len(r) = n - a + 1
      /\ \A i \in 1 .. n - a + 1 : r[i] = b[a + i - 1]
  <2> HIDE DEF a
  <2> QED BY <1>2, PartIs
<1> HIDE DEF r, a
<1>4. r \in Seq(Bytes) /\ Len(r) = n - used /\ \A i \in 1 .. n - used : r[i] = b[used + i]
  BY <1>2, <1>3
<1>5. Window(r, q, u + used)
  <2>1. \A i \in 1 .. n : q[i + u] = b[i]
    BY DEF Window
  <2>2. ASSUME NEW i \in 1 .. Len(r) PROVE q[i + (u + used)] = r[i]
    <3> HIDE DEF n
    <3>1. used + i \in 1 .. n /\ (used + i) + u = i + (u + used) /\ i \in 1 .. n - used
      BY <1>1, <1>4
    <3> QED BY <1>4, <2>1, <3>1
  <2>3. Len(r) + (u + used) <= Len(q)
    <3>1. n + u = Len(q)
      OBVIOUS
    <3> HIDE DEF n
    <3> QED BY <1>1, <1>4, <3>1
  <2> QED BY <2>2, <2>3 DEF Window
<1> QED BY <1>4, <1>5 DEF Rest, r, a

\* A read keeps the invariant.
LEMMA SplitRead == SplitInv /\ Read => SplitInv'
<1> SUFFICES ASSUME SplitInv, Read PROVE SplitInv'
  OBVIOUS
<1>0. /\ LineInv /\ BufferInv /\ FramesInv /\ position \in Nat /\ Len(line) \in Nat
      /\ Len(buffer) \in Nat /\ Len(buffer) <= position /\ line \in Seq(Bytes)
      /\ frames \in Seq(FrameSet) /\ Resumes(Taken, Used, frames)
  BY DEF SplitInv, LineInv, BufferInv, FramesInv
<1>1. PICK n \in 1 .. ChunkMax :
        /\ position + n <= Len(line)
        /\ position' = position + n
        /\ LET b == Grown(SubSeq(line, position + 1, position + n))
               result == Parse(b)
               before == position + n - Len(b)
               Placed(f) == [f EXCEPT !.last = @ + before]
           IN  /\ frames' = frames \o [k \in DOMAIN result.found |->
                                         Placed(result.found[k])]
               /\ buffer' = Rest(b, result.used)
        /\ UNCHANGED <<line, sent, noise>>
  BY DEF Read
<1> DEFINE b == Grown(SubSeq(line, position + 1, position + n))
           q == Prefix(position + n)
           m == Moved(Parse(b).found, Used)
           used == Parse(b).used
<1>2. n \in Nat /\ n >= 1 /\ position + n \in Nat /\ position + n \in 0 .. Len(line)
  <2>1. ChunkMax \in Nat
    BY BytesAssumption
  <2> QED BY <1>0, <1>1, <2>1
<1>3. b \in Seq(Bytes) /\ Len(b) + Used = position + n /\ Window(b, q, Used)
  BY <1>1, GrownIs
<1>4. position + n - Len(b) = Used /\ Used \in 0 .. position /\ Len(b) \in Nat
  <2>1. Len(b) \in Nat
    BY <1>3
  <2> HIDE DEF b
  <2> QED BY <1>0, <1>2, <1>3, <2>1 DEF Used
<1>5. frames' = frames \o m /\ buffer' = Rest(b, used)
  BY <1>1, <1>4 DEF Moved
<1>6. /\ q \in Seq(Nat) /\ q \in Seq(Bytes) /\ Len(q) = position + n
      /\ Taken \in Seq(Nat) /\ Len(Taken) = position /\ Window(Taken, q, 0)
  <2> HIDE DEF q
  <2>1. q \in Seq(Nat) /\ q \in Seq(Bytes) /\ Len(q) = position + n
    BY <1>0, <1>2, PrefixIs DEF q
  <2>2. position \in 0 .. Len(line)
    BY <1>0 DEF LineInv
  <2>3. Taken \in Seq(Nat) /\ Len(Taken) = position
    BY <1>0, <2>2, PrefixIs DEF Taken
  <2>4. position <= position + n
    BY <1>0, <1>2
  <2>5. Window(Taken, q, 0)
    BY <1>0, <1>2, <2>2, <2>4, PrefixGrows DEF Taken, q
  <2> QED BY <2>1, <2>3, <2>5
<1> HIDE DEF b, q
<1>7. /\ used \in 0 .. Len(b) /\ Parse(b).found \in Seq(FrameSet)
      /\ Len(b) - used < MaxLen + Overhead
      /\ Loop(q)[1].found = frames \o m
      /\ Resumes(q, Used + used, frames \o m)
  <2>1. Len(Taken) < Len(q) /\ Used \in 0 .. Len(Taken) /\ Len(b) + Used = Len(q)
    BY <1>0, <1>2, <1>3, <1>4, <1>6
  <2>2. b \in Seq(Nat)
    BY <1>3, BytesAreNat
  <2> QED BY <1>0, <1>3, <1>6, <2>1, <2>2, PassResumes
<1>8. m \in Seq(FrameSet)
  <2>1. Used \in Nat
    BY <1>0, <1>4
  <2> QED BY <1>7, <2>1, MovedIs
<1> HIDE DEF m, used
<1>9. /\ buffer' \in Seq(Bytes) /\ Len(buffer') = Len(b) - used
      /\ Window(buffer', q, Used + used)
  <2>1. Used \in Nat /\ Len(b) + Used = Len(q)
    BY <1>0, <1>3, <1>4, <1>6
  <2> QED BY <1>3, <1>5, <1>7, <2>1, RestIs
<1>10. /\ line' = line /\ sent' = sent /\ noise' = noise /\ position' = position + n
       /\ Taken' = q
  BY <1>1 DEF Taken, Prefix, q
<1>11. Used' = Used + used /\ Len(buffer') <= position'
  <2>1. Used' = position' - Len(buffer')
    BY DEF Used
  <2> DEFINE k == Len(b)
             v == Used
  <2>2. position' = position + n /\ k + v = position + n /\ used \in 0 .. k
        /\ k \in Nat /\ v \in Nat /\ Len(buffer') = k - used
    BY <1>0, <1>3, <1>4, <1>7, <1>9, <1>10
  <2> HIDE DEF k, v
  <2>3. position' - (k - used) = v + used /\ k - used <= position'
    BY <1>0, <1>2, <2>2
  <2> QED BY <2>1, <2>2, <2>3 DEF v
<1>12. LineInv'
  BY <1>0, <1>2, <1>10 DEF LineInv, IsFrame
<1>13. BufferInv'
  BY <1>7, <1>9, <1>10, <1>11 DEF BufferInv
<1>14. FramesInv'
  <2>1. frames' \in Seq(FrameSet)
    BY <1>0, <1>5, <1>8, ConcatProperties
  <2>2. position' # 0
    BY <1>0, <1>2, <1>10
  <2>3. frames' = Loop(Taken')[1].found
    BY <1>5, <1>7, <1>10
  <2>4. Resumes(Taken', Used', frames')
    BY <1>5, <1>7, <1>10, <1>11
  <2> QED BY <2>1, <2>2, <2>3, <2>4 DEF FramesInv
<1> QED BY <1>12, <1>13, <1>14 DEF SplitInv

\* More bytes on the line do not touch the ones that were read.
LEMMA SplitLonger ==
  ASSUME SplitInv, LineInv', NEW s \in Seq(Bytes), line' = line \o s,
         UNCHANGED <<position, buffer, frames>>
  PROVE  SplitInv'
<1>1. /\ line \in Seq(Bytes) /\ position \in 0 .. Len(line) /\ LineInv
      /\ Len(line) \in Nat /\ Len(s) \in Nat
  BY DEF SplitInv, LineInv
<1>2. /\ line' \in Seq(Bytes) /\ Len(line') = Len(line) + Len(s)
      /\ \A i \in 1 .. Len(line) : line'[i] = line[i]
  <2>1. /\ line \o s \in Seq(Bytes) /\ Len(line \o s) = Len(line) + Len(s)
        /\ \A i \in 1 .. Len(line) + Len(s) :
             (line \o s)[i] = IF i <= Len(line) THEN line[i] ELSE s[i - Len(line)]
    BY <1>1, ConcatProperties
  <2>2. \A i \in 1 .. Len(line) : i \in 1 .. Len(line) + Len(s) /\ i <= Len(line)
    BY <1>1
  <2> QED BY <2>1, <2>2
<1>3. Taken' = Taken
  <2> DEFINE x == SubSeq(line, 1, position)
             y == SubSeq(line', 1, position)
  <2>1. /\ x \in Seq(Bytes) /\ Len(x) = position
        /\ \A i \in 1 .. position : x[i] = line[i]
    BY <1>1, PrefixIs DEF Prefix
  <2>2. /\ y \in Seq(Bytes) /\ Len(y) = position
        /\ \A i \in 1 .. position : y[i] = line'[i]
    <3>1. /\ position \in 0 .. Len(line') /\ position - 1 + 1 = position
          /\ \A i \in 1 .. position : 1 + i - 1 = i
      BY <1>1, <1>2
    <3> HIDE DEF y
    <3>2. /\ y \in Seq(Bytes) /\ Len(y) = position - 1 + 1
          /\ \A i \in 1 .. position - 1 + 1 : y[i] = line'[1 + i - 1]
      BY <1>1, <1>2, <3>1, PartIs DEF y
    <3> QED BY <3>1, <3>2
  <2> HIDE DEF x, y
  <2>3. \A i \in 1 .. position : x[i] = y[i]
    <3>1. \A i \in 1 .. position : i \in 1 .. Len(line)
      BY <1>1
    <3> QED BY <1>2, <2>1, <2>2, <3>1
  <2>4. x = y
    BY <2>1, <2>2, <2>3, SeqEqual
  <2> QED BY <2>4 DEF x, y, Taken, Prefix
<1>4. Used' = Used
  BY DEF Used
<1>5. BufferInv'
  BY <1>3, <1>4 DEF SplitInv, BufferInv
<1>6. FramesInv'
  BY <1>3, <1>4 DEF SplitInv, FramesInv
<1> QED BY <1>5, <1>6 DEF SplitInv

\* The frame of a body the PMU sends.
LEMMA BodyIsSent ==
  ASSUME NEW body \in Bodies
  PROVE  /\ body \in Seq(Bytes) /\ Len(body) \in MinLen .. MaxLen /\ Len(body) \in Bytes
         /\ Encoded(body) \in Seq(Bytes) /\ Len(Encoded(body)) = Len(body) + Overhead
<1>1. body \in Seq(Bytes) /\ Len(body) \in (MinLen .. MaxLen) \cap Bytes
  BY BytesAssumption
<1> QED BY <1>1, EncodedIs

\* The two steps of the other side of the line make it longer.
LEMMA SplitSend == SplitInv /\ SendFrame => SplitInv'
<1> SUFFICES ASSUME SplitInv, SendFrame PROVE SplitInv'
  OBVIOUS
<1>1. PICK body \in Bodies :
        /\ line' = line \o Encoded(body)
        /\ sent' = Append(sent, [body |-> body, last |-> Len(line')])
        /\ UNCHANGED <<position, buffer, frames, noise>>
  BY DEF SendFrame
<1>2. /\ body \in Seq(Bytes) /\ Len(body) \in MinLen .. MaxLen
      /\ Encoded(body) \in Seq(Bytes) /\ Len(Encoded(body)) = Len(body) + Overhead
  BY BodyIsSent
<1>3. /\ line \in Seq(Bytes) /\ Len(line) \in Nat /\ position \in 0 .. Len(line)
      /\ \A k \in DOMAIN sent : IsFrame(sent[k])
      /\ noise \subseteq 1 .. Len(line)
  BY DEF SplitInv, LineInv
<1>4. line' \in Seq(Bytes) /\ Len(line') = Len(line) + (Len(body) + Overhead)
  BY <1>1, <1>2, <1>3, ConcatProperties
<1>5. Len(line') \in Nat /\ Len(line) < Len(line')
  <2>1. Len(body) \in Nat
    BY <1>2
  <2> QED BY <1>3, <1>4, <2>1 DEF Overhead
<1>6. LineInv'
  <2>1. position' \in 0 .. Len(line') /\ noise' \subseteq 1 .. Len(line')
    BY <1>1, <1>3, <1>5
  <2>2. ASSUME NEW k \in DOMAIN sent'
        PROVE  /\ sent'[k].body \in Seq(Bytes)
               /\ Len(sent'[k].body) \in MinLen .. MaxLen
               /\ sent'[k].last \in 1 .. Len(line')
    <3>1. CASE k \in DOMAIN sent /\ sent'[k] = sent[k]
      <4>1. IsFrame(sent[k])
        BY <1>3, <3>1
      <4> QED BY <1>3, <1>5, <3>1, <4>1 DEF IsFrame
    <3>2. CASE sent'[k] = [body |-> body, last |-> Len(line')]
      <4>1. Len(line') \in 1 .. Len(line')
        BY <1>3, <1>5
      <4> DEFINE f == [body |-> body, last |-> Len(line')]
      <4>2. f.body = body /\ f.last = Len(line')
        OBVIOUS
      <4> HIDE DEF f
      <4>3. sent'[k] = f
        BY <3>2 DEF f
      <4> QED BY <1>2, <4>1, <4>2, <4>3
    <3>3. \/ k \in DOMAIN sent /\ sent'[k] = sent[k]
          \/ sent'[k] = [body |-> body, last |-> Len(line')]
      BY <1>1
    <3> QED BY <3>1, <3>2, <3>3
  <2> QED BY <1>4, <2>1, <2>2 DEF LineInv, IsFrame
<1> QED BY <1>1, <1>2, <1>6, SplitLonger

\* A byte of noise likewise.
LEMMA SplitNoise == SplitInv /\ Noise => SplitInv'
<1> SUFFICES ASSUME SplitInv, Noise PROVE SplitInv'
  OBVIOUS
<1>1. PICK byte \in Bytes : line' = Append(line, byte)
  BY DEF Noise
<1>2. /\ noise' = noise \cup {Len(line')}
      /\ UNCHANGED <<position, buffer, frames, sent>>
  BY DEF Noise
<1>3. /\ line \in Seq(Bytes) /\ Len(line) \in Nat /\ position \in 0 .. Len(line)
      /\ \A k \in DOMAIN sent : IsFrame(sent[k])
      /\ noise \subseteq 1 .. Len(line)
  BY DEF SplitInv, LineInv
<1>4. /\ line' \in Seq(Bytes) /\ Len(line') = Len(line) + 1
      /\ line' = line \o <<byte>> /\ <<byte>> \in Seq(Bytes)
  <2>1. Append(line, byte) \in Seq(Bytes) /\ Len(Append(line, byte)) = Len(line) + 1
    BY <1>3, AppendProperties
  <2>2. Append(line, byte) = line \o <<byte>>
    BY <1>3, AppendIsConcat
  <2>3. <<byte>> \in Seq(Bytes)
    OBVIOUS
  <2> QED BY <1>1, <2>1, <2>2, <2>3
<1>5. LineInv'
  <2>1. position' \in 0 .. Len(line') /\ noise' \subseteq 1 .. Len(line')
    <3>1. Len(line') = Len(line) + 1 /\ Len(line) \in Nat
      BY <1>3, <1>4
    <3>2. 1 .. Len(line) \subseteq 1 .. Len(line') /\ Len(line') \in 1 .. Len(line')
      BY <3>1
    <3>3. position \in 0 .. Len(line')
      BY <1>3, <3>1
    <3> QED BY <1>2, <1>3, <3>2, <3>3
  <2>2. \A k \in DOMAIN sent : IsFrame(sent[k])'
    BY <1>2, <1>3, <1>4 DEF IsFrame
  <2> QED BY <1>2, <1>4, <2>1, <2>2 DEF LineInv
<1> QED BY <1>2, <1>4, <1>5, SplitLonger

\* The invariant holds.
THEOREM SplitInvariant == Spec => []SplitInv
<1>1. SplitInv /\ [Next]_vars => SplitInv'
  <2> SUFFICES ASSUME SplitInv, [Next]_vars PROVE SplitInv'
    OBVIOUS
  <2>1. CASE Read
    BY <2>1, SplitRead
  <2>2. CASE SendFrame
    BY <2>2, SplitSend
  <2>3. CASE Noise
    BY <2>3, SplitNoise
  <2>4. CASE UNCHANGED vars
    <3>1. UNCHANGED <<LineInv, BufferInv, FramesInv>>
      BY <2>4 DEF vars, LineInv, BufferInv, FramesInv, IsFrame, Taken, Prefix, Used
    <3> QED BY <3>1 DEF SplitInv
  <2> QED BY <2>1, <2>2, <2>3, <2>4 DEF Next
<1> QED BY SplitInit, <1>1, PTL DEF Spec

\* The accepted frames are good ones, so the state is well formed, and the
\* buffer holds less than one largest frame.
LEMMA SplitIsTyped == SplitInv => TypeOK
<1> SUFFICES ASSUME SplitInv PROVE TypeOK
  OBVIOUS
<1>1. ASSUME NEW k \in DOMAIN frames PROVE IsFrame(frames[k])
  <2>1. /\ position \in 0 .. Len(line) /\ position \in Nat /\ Len(line) \in Nat
        /\ LineInv /\ position # 0
        /\ frames = Loop(Taken)[1].found
    BY <1>1 DEF SplitInv, LineInv, FramesInv
  <2>2. Taken \in Seq(Bytes) /\ Len(Taken) = position
    BY <2>1, PrefixIs DEF Taken
  <2>3. 1 \in 1 .. Len(Taken)
    BY <2>1, <2>2
  <2>4. /\ frames[k].body \in Seq(Bytes) /\ Len(frames[k].body) \in MinLen .. MaxLen
        /\ frames[k].last \in 1 .. Len(Taken)
    BY <2>1, <2>2, <2>3, FoundIsGood
  <2>5. frames[k].last \in 1 .. Len(line)
    BY <2>1, <2>2, <2>4
  <2> QED BY <2>4, <2>5 DEF IsFrame
<1> QED BY <1>1 DEF TypeOK, SplitInv, LineInv, BufferInv

\* TypeOK for every line, every way to cut it into reads and all constants:
\* the buffer never holds a largest frame, so it is never trimmed.
THEOREM TypeCorrect == Spec => []TypeOK
BY SplitInvariant, SplitIsTyped, PTL

\* However the bytes are cut into reads, the accepted frames are those one
\* parse of all of them finds.
LEMMA SplitIsIndependent == SplitInv => SplitIndependent
<1> SUFFICES ASSUME SplitInv PROVE SplitIndependent
  OBVIOUS
<1>1. /\ position \in 0 .. Len(line) /\ position \in Nat /\ LineInv
      /\ frames = IF position = 0 THEN <<>> ELSE Loop(Taken)[1].found
  BY DEF SplitInv, LineInv, FramesInv
<1>2. Taken \in Seq(Nat) /\ Len(Taken) = position
  BY <1>1, PrefixIs DEF Taken
<1>3. Parse(Taken) = IF Len(Taken) < MinLen + Overhead THEN StopAt(0) ELSE Loop(Taken)[1]
  BY ParseIs
<1>4. CASE Len(Taken) < MinLen + Overhead
  <2>1. Parse(Taken).found = <<>>
    BY <1>3, <1>4 DEF StopAt
  <2>2. position # 0 => Loop(Taken)[1].found = <<>>
    <3>1. position # 0 => 1 \in 1 .. Len(Taken)
      BY <1>1, <1>2
    <3> QED BY <1>2, <1>4, <3>1, ShortFinds
  <2> QED BY <1>1, <2>1, <2>2 DEF SplitIndependent, Taken, Prefix
<1>5. CASE ~(Len(Taken) < MinLen + Overhead)
  <2>1. position # 0
    BY <1>1, <1>2, <1>5, BytesAssumption DEF Overhead
  <2> QED BY <1>1, <1>3, <1>5, <2>1 DEF SplitIndependent, Taken, Prefix
<1> QED BY <1>4, <1>5

\* SplitIndependent: pcat_pmu_serial_read_data_parse called after each read()
\* accepts what one call with all the bytes would.
THEOREM SplitsDontMatter == Spec => []SplitIndependent
BY SplitInvariant, SplitIsIndependent, PTL
----------------------------------------------------------------------------
(***************************************************************************)
(* What is on the line: whole frames and single bytes of noise.            *)
(***************************************************************************)
SentSet == {sent[k] : k \in DOMAIN sent}

Covers(f, i) == FirstByte(f) <= i /\ i <= f.last

Lies(f) ==
  /\ f \in FrameSet /\ f.body \in Bodies
  /\ f.last <= Len(line) /\ Holds(line, FirstByte(f), f.body)

FramesLie == sent \in Seq(FrameSet) /\ \A f \in SentSet : Lies(f)

FramesApart ==
  \A f, g \in SentSet : f = g \/ f.last < FirstByte(g) \/ g.last < FirstByte(f)

AllCovered == \A i \in 1 .. Len(line) : i \in noise \/ \E f \in SentSet : Covers(f, i)

NoiseApart == \A i \in noise, f \in SentSet : ~Covers(f, i)

LayoutInv == FramesLie /\ FramesApart /\ AllCovered /\ NoiseApart

\* Where a frame begins and ends.
LEMMA LiesIs ==
  ASSUME NEW f, Lies(f)
  PROVE  /\ f.body \in Seq(Bytes) /\ Len(f.body) \in MinLen .. MaxLen
         /\ Len(f.body) \in Bytes /\ f.last \in Nat /\ Len(f.body) \in Nat
         /\ FirstByte(f) \in Nat /\ FirstByte(f) >= 1 /\ FirstByte(f) <= f.last
         /\ FirstByte(f) + Len(f.body) + Overhead - 1 = f.last
         /\ FirstByte(f) + MinLen + Overhead - 1 <= f.last
         /\ f = [body |-> f.body, last |-> f.last]
<1>1. /\ f.body \in Seq(Bytes) /\ Len(f.body) \in MinLen .. MaxLen
      /\ Len(f.body) \in Bytes
  BY BodyIsSent DEF Lies
<1>2. f.last \in Nat /\ f = [body |-> f.body, last |-> f.last]
  BY DEF Lies, FrameSet
<1>3. FirstByte(f) \in 1 .. Len(line)
  BY DEF Lies, Holds
<1>4. FirstByte(f) = f.last - Len(f.body) - 4 + 1
  BY DEF FirstByte, Overhead
<1> DEFINE n == Len(f.body)
           l == f.last
           b == FirstByte(f)
<1>5. /\ n \in Nat /\ MinLen \in Nat /\ MinLen <= n /\ l \in Nat /\ b = l - n - 4 + 1
      /\ b \in Nat /\ b >= 1
  BY <1>1, <1>2, <1>3, <1>4, BytesAssumption
<1> HIDE DEF n, l, b
<1>6. b <= l /\ b + n + 4 - 1 = l /\ b + MinLen + 4 - 1 <= l
  BY <1>5
<1> QED BY <1>1, <1>2, <1>5, <1>6 DEF n, l, b, Overhead

\* More bytes do not change what is on the line already.
LEMMA LiesStill ==
  ASSUME LineInv, NEW s \in Seq(Bytes), line' = line \o s, NEW f, Lies(f)
  PROVE  /\ f \in FrameSet /\ f.body \in Bodies
         /\ f.last <= Len(line') /\ Holds(line', FirstByte(f), f.body)
<1> DEFINE n == Len(f.body)
           b == FirstByte(f)
<1>1. line \in Seq(Bytes) /\ Len(line) \in Nat /\ Len(s) \in Nat
  BY DEF LineInv
<1>2. /\ line' \in Seq(Bytes) /\ Len(line') = Len(line) + Len(s)
      /\ \A i \in 1 .. Len(line) : line'[i] = line[i]
  <2>1. /\ line \o s \in Seq(Bytes) /\ Len(line \o s) = Len(line) + Len(s)
        /\ \A i \in 1 .. Len(line) + Len(s) :
             (line \o s)[i] = IF i <= Len(line) THEN line[i] ELSE s[i - Len(line)]
    BY <1>1, ConcatProperties
  <2>2. \A i \in 1 .. Len(line) : i \in 1 .. Len(line) + Len(s) /\ i <= Len(line)
    BY <1>1
  <2> QED BY <2>1, <2>2
<1>3. /\ b \in 1 .. Len(line) /\ b + n + 4 - 1 <= Len(line) /\ n \in Nat
      /\ \A j \in 1 .. n + 4 : line[b + j - 1] = Encoded(f.body)[j]
  BY LiesIs DEF Lies, Holds, Overhead
<1>4. f.last \in Nat /\ f.last <= Len(line)
  BY LiesIs DEF Lies
<1> HIDE DEF n, b
<1>5. /\ b \in 1 .. Len(line') /\ b + n + 4 - 1 <= Len(line')
      /\ \A j \in 1 .. n + 4 : b + j - 1 \in 1 .. Len(line)
  BY <1>1, <1>2, <1>3
<1>6. \A j \in 1 .. n + 4 : line'[b + j - 1] = Encoded(f.body)[j]
  BY <1>2, <1>3, <1>5
<1>7. Holds(line', b, f.body)
  BY <1>5, <1>6 DEF Holds, Overhead, n
<1>8. f.last <= Len(line')
  BY <1>1, <1>2, <1>4
<1> QED BY <1>7, <1>8 DEF Lies, b

\* At the start the line is empty.
LEMMA LayoutInit == Init => LayoutInv
<1> SUFFICES ASSUME Init PROVE LayoutInv
  OBVIOUS
<1>1. SentSet = {} /\ noise = {} /\ Len(line) = 0
  BY DEF Init, SentSet
<1>2. sent \in Seq(FrameSet)
  BY DEF Init
<1> QED BY <1>1, <1>2 DEF LayoutInv, FramesLie, FramesApart, AllCovered, NoiseApart

\* A frame is put behind all others.
LEMMA LayoutSend == SplitInv /\ LayoutInv /\ SendFrame => LayoutInv'
<1> SUFFICES ASSUME SplitInv, LayoutInv, SendFrame PROVE LayoutInv'
  OBVIOUS
<1>0. LineInv /\ line \in Seq(Bytes) /\ Len(line) \in Nat /\ noise \subseteq 1 .. Len(line)
  BY DEF SplitInv, LineInv
<1>1. PICK body \in Bodies :
        /\ line' = line \o Encoded(body)
        /\ sent' = Append(sent, [body |-> body, last |-> Len(line')])
        /\ UNCHANGED <<position, buffer, frames, noise>>
  BY DEF SendFrame
<1> DEFINE e == Encoded(body)
           n == Len(body)
           w == [body |-> body, last |-> Len(line')]
<1>2. body \in Seq(Bytes) /\ n \in Nat /\ e \in Seq(Bytes) /\ Len(e) = n + 4
  BY BodyIsSent DEF Overhead
<1> HIDE DEF e
<1>3. /\ line' \in Seq(Bytes) /\ Len(line') = Len(line) + (n + 4)
      /\ \A i \in 1 .. Len(line) + (n + 4) :
           line'[i] = IF i <= Len(line) THEN line[i] ELSE e[i - Len(line)]
  <2>1. /\ line \o e \in Seq(Bytes) /\ Len(line \o e) = Len(line) + Len(e)
        /\ \A i \in 1 .. Len(line) + Len(e) :
             (line \o e)[i] = IF i <= Len(line) THEN line[i] ELSE e[i - Len(line)]
    BY <1>0, <1>2, ConcatProperties
  <2> QED BY <1>1, <1>2, <2>1 DEF e
<1>4. SentSet' = SentSet \cup {w}
  <2>1. sent \in Seq(FrameSet)
    BY DEF LayoutInv, FramesLie
  <2> HIDE DEF w
  <2>2. /\ sent' = Append(sent, w) /\ DOMAIN sent = 1 .. Len(sent) /\ Len(sent) \in Nat
        /\ DOMAIN Append(sent, w) = 1 .. Len(sent) + 1
        /\ \A k \in 1 .. Len(sent) : Append(sent, w)[k] = sent[k]
        /\ Append(sent, w)[Len(sent) + 1] = w
    BY <1>1, <2>1 DEF w
  <2> QED BY <2>2 DEF SentSet
<1>5. FirstByte(w) = Len(line) + 1 /\ w.last = Len(line') /\ w.body = body
  <2>1. w.last = Len(line') /\ w.body = body
    OBVIOUS
  <2> HIDE DEF w
  <2>2. FirstByte(w) = Len(line') - n - 4 + 1
    BY <2>1 DEF FirstByte, Overhead
  <2> HIDE DEF n
  <2> QED BY <1>0, <1>2, <1>3, <2>1, <2>2
<1> HIDE DEF n
<1>6. w \in FrameSet
  BY <1>0, <1>2, <1>3, BytesAreNat DEF FrameSet
<1>7. Holds(line', Len(line) + 1, body)
  <2>1. Len(line) + 1 \in 1 .. Len(line') /\ Len(line) + 1 + n + 4 - 1 <= Len(line')
    BY <1>0, <1>2, <1>3
  <2>2. ASSUME NEW j \in 1 .. n + 4 PROVE line'[Len(line) + 1 + j - 1] = e[j]
    <3>1. /\ Len(line) + 1 + j - 1 = Len(line) + j
          /\ Len(line) + j \in 1 .. Len(line) + (n + 4)
          /\ ~(Len(line) + j <= Len(line)) /\ (Len(line) + j) - Len(line) = j
      BY <1>0, <1>2
    <3> QED BY <1>3, <3>1
  <2> QED BY <2>1, <2>2 DEF Holds, Overhead, n, e
<1> HIDE DEF w
<1>8. FramesLie'
  <2>1. sent' \in Seq(FrameSet)
    <3>1. sent \in Seq(FrameSet)
      BY DEF LayoutInv, FramesLie
    <3> QED BY <1>1, <1>6, <3>1, AppendProperties DEF w
  <2>2. ASSUME NEW f \in SentSet'
        PROVE  /\ f \in FrameSet /\ f.body \in Bodies
               /\ f.last <= Len(line') /\ Holds(line', FirstByte(f), f.body)
    <3>1. CASE f \in SentSet
      <4>1. Lies(f)
        BY <3>1 DEF LayoutInv, FramesLie
      <4>2. e \in Seq(Bytes) /\ line' = line \o e
        BY <1>1, <1>2 DEF e
      <4> QED BY <1>0, <4>1, <4>2, LiesStill
    <3>2. CASE f = w
      <4>1. Len(line') <= Len(line')
        BY <1>0, <1>2, <1>3
      <4> QED BY <1>5, <1>6, <1>7, <3>2, <4>1
    <3> QED BY <1>4, <3>1, <3>2
  <2> QED BY <2>1, <2>2 DEF FramesLie, Lies, FirstByte
<1>9. \A f \in SentSet : /\ f.last \in Nat /\ FirstByte(f) \in Nat
                        /\ FirstByte(f) <= f.last /\ f.last <= Len(line)
  <2> TAKE f \in SentSet
  <2>1. Lies(f)
    BY DEF LayoutInv, FramesLie
  <2> QED BY <2>1, LiesIs DEF Lies
<1>10. FramesApart'
  <2> SUFFICES ASSUME NEW f \in SentSet', NEW g \in SentSet'
               PROVE  f = g \/ f.last < FirstByte(g) \/ g.last < FirstByte(f)
    BY DEF FramesApart, FirstByte
  <2>1. CASE f \in SentSet /\ g \in SentSet
    BY <2>1 DEF LayoutInv, FramesApart
  <2>2. CASE f \in SentSet /\ g = w
    BY <1>0, <1>5, <1>9, <2>2
  <2>3. CASE f = w /\ g \in SentSet
    BY <1>0, <1>5, <1>9, <2>3
  <2> QED BY <1>4, <2>1, <2>2, <2>3
<1>11. AllCovered'
  <2> SUFFICES ASSUME NEW i \in 1 .. Len(line')
               PROVE  i \in noise' \/ \E f \in SentSet' : Covers(f, i)
    BY DEF AllCovered, Covers, FirstByte
  <2>1. CASE i <= Len(line)
    <3>1. i \in 1 .. Len(line)
      BY <1>0, <2>1
    <3>2. i \in noise \/ \E f \in SentSet : Covers(f, i)
      BY <3>1 DEF LayoutInv, AllCovered
    <3> QED BY <1>1, <1>4, <3>2
  <2>2. CASE ~(i <= Len(line))
    <3>1. FirstByte(w) <= i /\ i <= w.last
      BY <1>0, <1>5, <2>2
    <3> QED BY <1>4, <3>1 DEF Covers
  <2> QED BY <2>1, <2>2
<1>12. NoiseApart'
  <2> SUFFICES ASSUME NEW i \in noise', NEW f \in SentSet' PROVE ~Covers(f, i)
    BY DEF NoiseApart, Covers, FirstByte
  <2>1. i \in noise /\ i \in 1 .. Len(line)
    BY <1>0, <1>1
  <2>2. CASE f \in SentSet
    BY <2>1, <2>2 DEF LayoutInv, NoiseApart
  <2>3. CASE f = w
    BY <1>0, <1>5, <2>1, <2>3 DEF Covers
  <2> QED BY <1>4, <2>2, <2>3
<1> QED BY <1>8, <1>10, <1>11, <1>12 DEF LayoutInv

\* So is a byte of noise.
LEMMA LayoutNoise == SplitInv /\ LayoutInv /\ Noise => LayoutInv'
<1> SUFFICES ASSUME SplitInv, LayoutInv, Noise PROVE LayoutInv'
  OBVIOUS
<1>0. LineInv /\ line \in Seq(Bytes) /\ Len(line) \in Nat /\ noise \subseteq 1 .. Len(line)
  BY DEF SplitInv, LineInv
<1>1. PICK byte \in Bytes : line' = Append(line, byte)
  BY DEF Noise
<1>2. noise' = noise \cup {Len(line')} /\ sent' = sent
  BY DEF Noise
<1>3. /\ Len(line') = Len(line) + 1 /\ line' = line \o <<byte>> /\ <<byte>> \in Seq(Bytes)
  <2>1. Len(Append(line, byte)) = Len(line) + 1
    BY <1>0, AppendProperties
  <2>2. Append(line, byte) = line \o <<byte>>
    BY <1>0, AppendIsConcat
  <2>3. <<byte>> \in Seq(Bytes)
    OBVIOUS
  <2> QED BY <1>1, <2>1, <2>2, <2>3
<1>4. SentSet' = SentSet
  BY <1>2 DEF SentSet
<1>5. FramesLie'
  <2>1. ASSUME NEW f \in SentSet
        PROVE  /\ f \in FrameSet /\ f.body \in Bodies
               /\ f.last <= Len(line') /\ Holds(line', FirstByte(f), f.body)
    <3>1. Lies(f)
      BY DEF LayoutInv, FramesLie
    <3> QED BY <1>0, <1>3, <3>1, LiesStill
  <2>2. sent' \in Seq(FrameSet)
    BY <1>2 DEF LayoutInv, FramesLie
  <2> QED BY <1>4, <2>1, <2>2 DEF FramesLie, Lies, FirstByte
<1>6. \A f \in SentSet : f.last \in Nat /\ f.last <= Len(line)
  <2> TAKE f \in SentSet
  <2>1. Lies(f)
    BY DEF LayoutInv, FramesLie
  <2> QED BY <2>1, LiesIs DEF Lies
<1>7. FramesApart'
  BY <1>4 DEF LayoutInv, FramesApart, FirstByte
<1>8. AllCovered'
  <2> SUFFICES ASSUME NEW i \in 1 .. Len(line')
               PROVE  i \in noise' \/ \E f \in SentSet' : Covers(f, i)
    BY DEF AllCovered, Covers, FirstByte
  <2>1. i \in 1 .. Len(line) \/ i = Len(line')
    BY <1>0, <1>3
  <2>2. CASE i \in 1 .. Len(line)
    <3>1. i \in noise \/ \E f \in SentSet : Covers(f, i)
      BY <2>2 DEF LayoutInv, AllCovered
    <3> QED BY <1>2, <1>4, <3>1
  <2> QED BY <1>2, <2>1, <2>2
<1>9. NoiseApart'
  <2> SUFFICES ASSUME NEW i \in noise', NEW f \in SentSet PROVE ~Covers(f, i)
    BY <1>4 DEF NoiseApart, Covers, FirstByte
  <2>1. CASE i \in noise
    BY <2>1 DEF LayoutInv, NoiseApart
  <2>2. CASE i = Len(line')
    BY <1>0, <1>3, <1>6, <2>2 DEF Covers
  <2> QED BY <1>2, <2>1, <2>2
<1> QED BY <1>5, <1>7, <1>8, <1>9 DEF LayoutInv

\* The line consists of the frames that were sent and the noise.
LEMMA LayoutInvariant == Spec => []LayoutInv
<1>1. SplitInv /\ LayoutInv /\ [Next]_vars => LayoutInv'
  <2> SUFFICES ASSUME SplitInv, LayoutInv, [Next]_vars PROVE LayoutInv'
    OBVIOUS
  <2>1. CASE UNCHANGED <<line, sent, noise>>
    <3>1. SentSet' = SentSet
      BY <2>1 DEF SentSet
    <3>2. FramesLie'
      BY <2>1, <3>1 DEF LayoutInv, FramesLie, Lies, Holds, FirstByte
    <3>3. FramesApart' /\ AllCovered' /\ NoiseApart'
      BY <2>1, <3>1 DEF LayoutInv, FramesApart, AllCovered, NoiseApart, Covers, FirstByte
    <3> QED BY <3>2, <3>3 DEF LayoutInv
  <2>2. Read \/ UNCHANGED vars => UNCHANGED <<line, sent, noise>>
    BY DEF Read, vars
  <2>3. CASE SendFrame
    BY <2>3, LayoutSend
  <2>4. CASE Noise
    BY <2>4, LayoutNoise
  <2> QED BY <2>1, <2>2, <2>3, <2>4 DEF Next
<1> QED BY LayoutInit, SplitInvariant, <1>1, PTL DEF Spec
----------------------------------------------------------------------------
(***************************************************************************)
(* Which of the frames on the line the loop finds.                         *)
(***************************************************************************)
Rng(s) == {s[k] : k \in DOMAIN s}

\* The frames of two results.
LEMMA RngConcat ==
  ASSUME NEW f \in Seq(FrameSet), NEW g \in Seq(FrameSet)
  PROVE  Rng(f \o g) = Rng(f) \cup Rng(g)
<1>1. /\ Len(f) \in Nat /\ Len(g) \in Nat
      /\ DOMAIN f = 1 .. Len(f) /\ DOMAIN g = 1 .. Len(g)
  OBVIOUS
<1>2. /\ f \o g \in Seq(FrameSet) /\ Len(f \o g) = Len(f) + Len(g)
      /\ \A k \in 1 .. Len(f) + Len(g) :
           (f \o g)[k] = IF k <= Len(f) THEN f[k] ELSE g[k - Len(f)]
  BY ConcatProperties
<1> DEFINE h == f \o g
           m == Len(f)
           n == Len(g)
<1>3. DOMAIN h = 1 .. m + n /\ m \in Nat /\ n \in Nat
  BY <1>1, <1>2
<1>4. \A k \in 1 .. m + n : h[k] = IF k <= m THEN f[k] ELSE g[k - m]
  BY <1>2
<1> HIDE DEF h, m, n
<1>5. \A k \in 1 .. m + n : IF k <= m THEN k \in 1 .. m ELSE k - m \in 1 .. n
  BY <1>3
<1>6. \A k \in 1 .. m : k \in 1 .. m + n /\ h[k] = f[k]
  BY <1>3, <1>4
<1>7. \A k \in 1 .. n : k + m \in 1 .. m + n /\ h[k + m] = g[k]
  <2> TAKE k \in 1 .. n
  <2>1. k + m \in 1 .. m + n /\ ~(k + m <= m) /\ (k + m) - m = k
    BY <1>3
  <2> QED BY <1>4, <2>1
<1>8. DOMAIN f = 1 .. m /\ DOMAIN g = 1 .. n
  BY <1>1 DEF m, n
<1>9. Rng(h) \subseteq Rng(f) \cup Rng(g)
  <2> SUFFICES ASSUME NEW k \in 1 .. m + n PROVE h[k] \in Rng(f) \cup Rng(g)
    BY <1>3 DEF Rng
  <2> QED BY <1>4, <1>5, <1>8 DEF Rng
<1>10. Rng(f) \subseteq Rng(h)
  BY <1>3, <1>6, <1>8 DEF Rng
<1>11. Rng(g) \subseteq Rng(h)
  BY <1>3, <1>7, <1>8 DEF Rng
<1> QED BY <1>9, <1>10, <1>11 DEF h

\* What the loop finds from a position on, as a set.
Finds(p, i) == Rng(Loop(p)[i].found)

\* The equation of the loop, for the set of frames.
LEMMA FindsIs ==
  ASSUME NEW p \in Seq(Nat), NEW i \in 1 .. Len(p)
  PROVE  /\ Waits(p, i) => Finds(p, i) = {}
         /\ ~Waits(p, i) =>
              Finds(p, i) = Rng(Gain(p, i))
                              \cup (IF Jump(p, i) > Len(p) THEN {} ELSE Finds(p, Jump(p, i)))
<1> DEFINE r == From(p, Loop(p), Jump(p, i), Mark(p, i))
           g == Gain(p, i)
<1>1. Loop(p)[i] = IF Waits(p, i) THEN StopAt(i - 1) ELSE Joined(g, r)
  BY LoopIs
<1>2. CASE Waits(p, i)
  <2>1. Loop(p)[i] = StopAt(i - 1)
    BY <1>1, <1>2
  <2>2. Loop(p)[i].found = <<>>
    BY <2>1 DEF StopAt
  <2>3. Rng(<<>>) = {}
    BY DEF Rng
  <2> QED BY <1>2, <2>2, <2>3 DEF Finds
<1>3. CASE ~Waits(p, i)
  <2>1. /\ Jump(p, i) \in Nat /\ i < Jump(p, i) /\ Mark(p, i) \in Nat
        /\ g \in Seq(FrameSet)
    BY Moves
  <2>2. /\ r \in Results
        /\ Rng(r.found) = IF Jump(p, i) > Len(p) THEN {} ELSE Finds(p, Jump(p, i))
    <3>1. CASE Jump(p, i) > Len(p)
      <4>1. r = StopAt(Mark(p, i))
        BY <3>1 DEF From
      <4>2. r \in Results /\ r.found = <<>>
        BY <2>1, <4>1, StopJoined
      <4>3. Rng(<<>>) = {}
        BY DEF Rng
      <4> QED BY <3>1, <4>2, <4>3
    <3>2. CASE ~(Jump(p, i) > Len(p))
      <4>1. r = Loop(p)[Jump(p, i)]
        BY <3>2 DEF From
      <4>2. Jump(p, i) \in 1 .. Len(p)
        BY <2>1, <3>2
      <4>3. r \in Results
        BY <4>1, <4>2, LoopIs
      <4> QED BY <3>2, <4>1, <4>3 DEF Finds
    <3> QED BY <3>1, <3>2
  <2> HIDE DEF r, g
  <2>3. Loop(p)[i] = Joined(g, r)
    BY <1>1, <1>3
  <2>4. Loop(p)[i].found = g \o r.found
    <3> DEFINE x == Loop(p)[i]
    <3>1. x = [used |-> r.used, found |-> g \o r.found]
      BY <2>3 DEF Joined
    <3> HIDE DEF x
    <3>2. x.found = g \o r.found
      BY <3>1
    <3> QED BY <3>2 DEF x
  <2>5. r.found \in Seq(FrameSet)
    BY <2>2 DEF Results
  <2>6. Rng(g \o r.found) = Rng(g) \cup Rng(r.found)
    BY <2>1, <2>5, RngConcat
  <2> QED BY <1>3, <2>2, <2>4, <2>6 DEF Finds, g
<1> QED BY <1>2, <1>3

\* A frame that was received is found where it begins, and the loop goes on
\* behind it.
LEMMA DueIsFound ==
  ASSUME SplitInv, LayoutInv, NEW f \in Due
  PROVE  /\ f \in SentSet /\ Lies(f)
         /\ FirstByte(f) \in 1 .. position /\ f.last \in 1 .. position
         /\ ~Waits(Taken, FirstByte(f))
         /\ Jump(Taken, FirstByte(f)) = f.last + 1
         /\ Rng(Gain(Taken, FirstByte(f))) = {f}
<1> DEFINE i == FirstByte(f)
           n == Len(f.body)
<1>1. f \in SentSet /\ f.last <= position
  BY DEF Due, SentSet
<1>2. Lies(f)
  BY <1>1 DEF LayoutInv, FramesLie
<1>3. LineInv /\ position \in 0 .. Len(line) /\ position \in Nat
  BY DEF SplitInv, LineInv
<1>4. /\ f.body \in Seq(Bytes) /\ n \in MinLen .. MaxLen /\ n \in Bytes
      /\ f.last \in Nat /\ n \in Nat /\ i \in Nat /\ i >= 1 /\ i <= f.last
      /\ i + n + 4 - 1 = f.last /\ f = [body |-> f.body, last |-> f.last]
  BY <1>2, LiesIs DEF Overhead
<1>5. /\ Taken \in Seq(Nat) /\ Len(Taken) = position
      /\ \A j \in 1 .. position : Taken[j] = line[j]
  BY <1>3, PrefixIs DEF Taken
<1>6. \A j \in 1 .. n + 4 : line[i + j - 1] = Encoded(f.body)[j]
  BY <1>2 DEF Lies, Holds, Overhead
<1> HIDE DEF i
<1>7. Holds(Taken, i, f.body)
  <2>1. i \in 1 .. Len(Taken) /\ i + n + 4 - 1 <= Len(Taken)
    BY <1>1, <1>3, <1>4, <1>5
  <2>2. \A j \in 1 .. n + 4 : i + j - 1 \in 1 .. position
    <3> HIDE DEF n
    <3> QED BY <1>1, <1>3, <1>4
  <2>3. \A j \in 1 .. n + 4 : Taken[i + j - 1] = Encoded(f.body)[j]
    BY <1>5, <1>6, <2>2
  <2> QED BY <2>1, <2>3 DEF Holds, Overhead
<1>8. /\ ~Waits(Taken, i) /\ Jump(Taken, i) = i + n + 4
      /\ Gain(Taken, i) = <<[body |-> f.body, last |-> i + n + 4 - 1]>>
  BY <1>4, <1>5, <1>7, FrameFound DEF Overhead
<1> HIDE DEF n
<1>9. Jump(Taken, i) = f.last + 1
  BY <1>4, <1>8
<1>10. Gain(Taken, i) = <<f>>
  BY <1>4, <1>8
<1>11. Rng(<<f>>) = {f}
  BY DEF Rng
<1>12. i \in 1 .. position /\ f.last \in 1 .. position
  BY <1>1, <1>3, <1>4
<1> QED BY <1>1, <1>2, <1>8, <1>9, <1>10, <1>11, <1>12 DEF i

\* A frame of which only the first bytes were received makes the loop wait.
LEMMA PartIsAwaited ==
  ASSUME SplitInv, LayoutInv, NEW f \in SentSet, FirstByte(f) <= position,
         f.last > position
  PROVE  Waits(Taken, FirstByte(f))
<1> DEFINE i == FirstByte(f)
           n == Len(f.body)
<1>1. Lies(f)
  BY DEF LayoutInv, FramesLie
<1>2. LineInv /\ position \in 0 .. Len(line) /\ position \in Nat
  BY DEF SplitInv, LineInv
<1>3. /\ f.body \in Seq(Bytes) /\ n \in MinLen .. MaxLen /\ n \in Bytes
      /\ f.last \in Nat /\ n \in Nat /\ i \in Nat /\ i >= 1
      /\ i + n + 4 - 1 = f.last
  BY <1>1, LiesIs DEF Overhead
<1>4. Len(Taken) = position /\ \A j \in 1 .. position : Taken[j] = line[j]
  BY <1>2, PrefixIs DEF Taken
<1>5. /\ \A j \in 1 .. n + 4 : line[i + j - 1] = Encoded(f.body)[j]
      /\ Encoded(f.body)[1] = Start /\ Encoded(f.body)[2] = n
  BY <1>1, <1>3, EncodedIs DEF Lies, Holds, Overhead
<1>6. MinLen \in Nat /\ MaxLen \in Nat /\ MinLen <= n /\ n <= MaxLen
  BY <1>3, BytesAssumption
<1> HIDE DEF i, n
<1>7. Taken[i] = Start
  <2>1. 1 \in 1 .. n + 4 /\ i + 1 - 1 = i /\ i \in 1 .. position
    BY <1>2, <1>3 DEF i
  <2>2. line[i + 1 - 1] = Start
    BY <1>5, <2>1
  <2> QED BY <1>4, <2>1, <2>2
<1>8. ASSUME ~Short(Taken, i)
      PROVE  ~BadLength(Taken, i) /\ Incomplete(Taken, i)
  <2>1. ~(position - i + 1 < MinLen + 4)
    BY <1>4, <1>8 DEF Short, Left, Overhead
  <2>2. 2 \in 1 .. n + 4 /\ i + 2 - 1 = i + 1 /\ i + 1 \in 1 .. position
    BY <1>2, <1>3, <1>6, <2>1
  <2>3. line[i + 2 - 1] = n
    BY <1>5, <2>2
  <2>4. Taken[i + 1] = n
    BY <1>4, <2>2, <2>3
  <2>5. ~BadLength(Taken, i)
    BY <1>3, <1>6, <2>4 DEF BadLength
  <2>6. Incomplete(Taken, i)
    <3>1. n + 4 > position - i + 1
      BY <1>2, <1>3
    <3> QED BY <1>4, <2>4, <3>1 DEF Incomplete, Size, Left, Overhead
  <2> QED BY <2>5, <2>6
<1>9. Waits(Taken, i)
  BY <1>7, <1>8 DEF Waits
<1> QED BY <1>9 DEF i

\* Accepted are the frames a loop over all bytes finds.
LEMMA AcceptedIs ==
  ASSUME SplitInv
  PROVE  Accepted = IF position = 0 THEN {} ELSE Finds(Taken, 1)
<1>1. Accepted = Rng(frames)
  BY DEF Accepted, Rng
<1>2. frames = IF position = 0 THEN <<>> ELSE Loop(Taken)[1].found
  BY DEF SplitInv, FramesInv
<1>3. Rng(<<>>) = {}
  BY DEF Rng
<1> QED BY <1>1, <1>2, <1>3 DEF Finds
----------------------------------------------------------------------------
\* No frame lies across i.
Boundary(i) == \A f \in SentSet : ~(FirstByte(f) < i /\ i <= f.last)

Later(i) == {f \in Due : FirstByte(f) >= i}

\* Behind noise and behind a frame is a boundary.
LEMMA NextBoundary ==
  ASSUME SplitInv, LayoutInv
  PROVE  /\ Boundary(1)
         /\ \A i \in noise : Boundary(i + 1)
         /\ \A f \in SentSet : Boundary(f.last + 1)
<1>1. \A f \in SentSet : /\ f.last \in Nat /\ FirstByte(f) \in Nat
                        /\ 1 <= FirstByte(f) /\ FirstByte(f) <= f.last
  <2> TAKE f \in SentSet
  <2>1. Lies(f)
    BY DEF LayoutInv, FramesLie
  <2> QED BY <2>1, LiesIs
<1>2. Boundary(1)
  BY <1>1 DEF Boundary
<1>3. ASSUME NEW i \in noise PROVE Boundary(i + 1)
  <2>1. i \in Nat
    BY DEF SplitInv, LineInv
  <2>2. \A f \in SentSet : ~(FirstByte(f) <= i /\ i <= f.last)
    BY DEF LayoutInv, NoiseApart, Covers
  <2> QED BY <1>1, <2>1, <2>2 DEF Boundary
<1>4. ASSUME NEW f \in SentSet, NEW g \in SentSet
      PROVE  ~(FirstByte(g) < f.last + 1 /\ f.last + 1 <= g.last)
  <2>1. f = g \/ f.last < FirstByte(g) \/ g.last < FirstByte(f)
    BY DEF LayoutInv, FramesApart
  <2> QED BY <1>1, <2>1
<1> QED BY <1>2, <1>3, <1>4 DEF Boundary

\* From a boundary on the loop finds the received frames that begin there or
\* later, and no others, if the noise is none.
LEMMA LoopDelivers ==
  ASSUME SplitInv, LayoutInv, \A n \in noise : line[n] # Start
  PROVE  \A i \in 1 .. position : Boundary(i) => Finds(Taken, i) = Later(i)
<1> DEFINE G == {i \in 1 .. position : Boundary(i) => Finds(Taken, i) = Later(i)}
<1>1. /\ LineInv /\ position \in 0 .. Len(line) /\ position \in Nat /\ Len(line) \in Nat
  BY DEF SplitInv, LineInv
<1>2. /\ Taken \in Seq(Nat) /\ Len(Taken) = position
      /\ \A j \in 1 .. position : Taken[j] = line[j]
  BY <1>1, PrefixIs DEF Taken
<1>3. \A f \in SentSet : /\ f.last \in Nat /\ FirstByte(f) \in Nat
                        /\ 1 <= FirstByte(f) /\ FirstByte(f) <= f.last
                        /\ FirstByte(f) < f.last
  <2> TAKE f \in SentSet
  <2>1. Lies(f)
    BY DEF LayoutInv, FramesLie
  <2>2. FirstByte(f) + MinLen + 4 - 1 <= f.last /\ MinLen \in Nat
    BY <2>1, LiesIs, BytesAssumption DEF Overhead
  <2> QED BY <2>1, <2>2, LiesIs
<1>4. \A f : f \in Due <=> f \in SentSet /\ f.last <= position
  BY DEF Due, SentSet
<1>5. ASSUME NEW i \in 1 .. position, \A j \in i + 1 .. position : j \in G
      PROVE  i \in G
  <2> SUFFICES ASSUME Boundary(i) PROVE Finds(Taken, i) = Later(i)
    OBVIOUS
  <2>0. i \in Nat /\ i \in 1 .. Len(line) /\ i \in 1 .. Len(Taken)
    BY <1>1, <1>2
  <2>1. CASE i \in noise
    <3>1. Taken[i] # Start
      BY <1>2, <2>1
    <3>2. ~Waits(Taken, i) /\ ~Whole(Taken, i)
      BY <3>1 DEF Waits, Whole
    <3>3. Jump(Taken, i) = i + 1 /\ Gain(Taken, i) = <<>>
      BY <3>2 DEF Jump, Gain
    <3>4. Rng(<<>>) = {}
      BY DEF Rng
    <3>5. Finds(Taken, i) = IF i + 1 > position THEN {} ELSE Finds(Taken, i + 1)
      <4>1. Finds(Taken, i) =
              Rng(Gain(Taken, i))
                \cup (IF Jump(Taken, i) > Len(Taken) THEN {}
                      ELSE Finds(Taken, Jump(Taken, i)))
        BY <1>2, <2>0, <3>2, FindsIs
      <4>2. Finds(Taken, i) =
              {} \cup (IF i + 1 > position THEN {} ELSE Finds(Taken, i + 1))
        BY <1>2, <3>3, <3>4, <4>1
      <4> QED BY <4>2
    <3>6. \A f \in SentSet : FirstByte(f) # i
      BY <1>3, <2>0, <2>1 DEF LayoutInv, NoiseApart, Covers
    <3>7. CASE i + 1 > position
      <4>1. Later(i) = {}
        BY <1>1, <1>3, <1>4, <2>0, <3>7 DEF Later
      <4> QED BY <3>5, <3>7, <4>1
    <3>8. CASE ~(i + 1 > position)
      <4>1. i + 1 \in i + 1 .. position
        BY <1>1, <2>0, <3>8
      <4>2. i + 1 \in G
        BY <1>5, <4>1
      <4>3. Boundary(i + 1)
        BY <2>1, NextBoundary
      <4>4. Finds(Taken, i + 1) = Later(i + 1)
        BY <4>2, <4>3
      <4>5. Later(i) = Later(i + 1)
        BY <1>3, <1>4, <2>0, <3>6 DEF Later
      <4> QED BY <3>5, <3>8, <4>4, <4>5
    <3> QED BY <3>7, <3>8
  <2>2. CASE i \notin noise
    <3>1. PICK f \in SentSet : Covers(f, i)
      BY <2>0, <2>2 DEF LayoutInv, AllCovered
    <3>2. FirstByte(f) = i
      BY <1>3, <2>0, <3>1 DEF Covers, Boundary
    <3>3. \A g \in SentSet : g = f \/ f.last < FirstByte(g) \/ g.last < i
      BY <3>2 DEF LayoutInv, FramesApart
    <3>4. CASE f.last > position
      <4>1. Waits(Taken, i)
        BY <1>1, <2>0, <3>2, <3>4, PartIsAwaited
      <4>2. Finds(Taken, i) = {}
        BY <1>2, <2>0, <4>1, FindsIs
      <4>3. Later(i) = {}
        <5>1. ASSUME NEW g \in Due, FirstByte(g) >= i PROVE FALSE
          <6>1. g \in SentSet /\ g.last <= position
            BY <1>4
          <6> QED BY <1>1, <1>3, <2>0, <3>3, <3>4, <5>1, <6>1
        <5> QED BY <5>1 DEF Later
      <4> QED BY <4>2, <4>3
    <3>5. CASE ~(f.last > position)
      <4>1. f \in Due
        BY <1>1, <1>3, <1>4, <3>5
      <4>2. /\ ~Waits(Taken, i) /\ Jump(Taken, i) = f.last + 1
            /\ Rng(Gain(Taken, i)) = {f}
        BY <3>2, <4>1, DueIsFound
      <4>3. Finds(Taken, i) =
              {f} \cup (IF f.last + 1 > position THEN {} ELSE Finds(Taken, f.last + 1))
        BY <1>2, <2>0, <4>2, FindsIs
      <4>4. \A g \in Due : FirstByte(g) >= i <=> g = f \/ FirstByte(g) >= f.last + 1
        <5> TAKE g \in Due
        <5>1. g \in SentSet
          BY <1>4
        <5> QED BY <1>3, <2>0, <3>2, <3>3, <5>1
      <4>5. Later(i) = {f} \cup Later(f.last + 1)
        BY <4>1, <4>4 DEF Later
      <4>6. CASE f.last + 1 > position
        <5>1. Later(f.last + 1) = {}
          BY <1>1, <1>3, <1>4, <4>6 DEF Later
        <5> QED BY <4>3, <4>5, <4>6, <5>1
      <4>7. CASE ~(f.last + 1 > position)
        <5>1. f.last + 1 \in i + 1 .. position
          BY <1>1, <1>3, <2>0, <3>2, <4>7
        <5>2. f.last + 1 \in G
          BY <1>5, <5>1
        <5>3. Boundary(f.last + 1)
          BY NextBoundary
        <5>4. Finds(Taken, f.last + 1) = Later(f.last + 1)
          BY <5>2, <5>3
        <5> QED BY <4>3, <4>5, <4>7, <5>4
      <4> QED BY <4>6, <4>7
    <3> QED BY <3>4, <3>5
  <2> QED BY <2>1, <2>2
<1>6. \A i \in 1 .. position : i \in G
  <2> HIDE DEF G
  <2> QED BY <1>1, <1>5, Downwards
<1> QED BY <1>6

\* So exactly the received frames are accepted.
LEMMA IsDelivered == SplitInv /\ LayoutInv => Delivered
<1> SUFFICES ASSUME SplitInv, LayoutInv, \A n \in noise : line[n] # Start
             PROVE  Accepted = Due
  BY DEF Delivered
<1>1. position \in Nat
  BY DEF SplitInv, LineInv
<1>2. \A f \in Due : FirstByte(f) \in 1 .. position
  BY DueIsFound
<1>3. CASE position = 0
  <2>1. Due = {}
    BY <1>2, <1>3
  <2> QED BY <1>3, <2>1, AcceptedIs
<1>4. CASE position # 0
  <2>1. 1 \in 1 .. position
    BY <1>1, <1>4
  <2>2. Finds(Taken, 1) = Later(1)
    BY <2>1, NextBoundary, LoopDelivers
  <2>3. Later(1) = Due
    BY <1>1, <1>2 DEF Later
  <2> QED BY <1>4, <2>2, <2>3, AcceptedIs
<1> QED BY <1>3, <1>4

\* Without a Start in the noise exactly the received frames are accepted,
\* whatever bytes are in them.
THEOREM AllDelivered == Spec => []Delivered
BY SplitInvariant, LayoutInvariant, IsDelivered, PTL

\* If the frames have no other Start than the first, a loop from anywhere in
\* front of a frame that is far enough behind the noise comes to that frame.
LEMMA LoopRecovers ==
  ASSUME SplitInv, LayoutInv, \A k \in DOMAIN sent : Plain(sent[k]),
         NEW f \in Due, \A n \in noise : n + MaxLen + Overhead <= FirstByte(f)
  PROVE  \A i \in 1 .. FirstByte(f) : f \in Finds(Taken, i)
<1> DEFINE b == FirstByte(f)
           G == {i \in 1 .. b : f \in Finds(Taken, i)}
<1>1. LineInv /\ position \in 0 .. Len(line) /\ position \in Nat
      /\ noise \subseteq 1 .. Len(line) /\ Len(line) \in Nat
      /\ MinLen \in Nat /\ MaxLen \in Nat
  BY BytesAssumption DEF SplitInv, LineInv
<1>2. /\ Taken \in Seq(Nat) /\ Len(Taken) = position
      /\ \A j \in 1 .. position : Taken[j] = line[j]
  BY <1>1, PrefixIs DEF Taken
<1>3. /\ f \in SentSet /\ b \in 1 .. position /\ f.last \in 1 .. position
      /\ ~Waits(Taken, b) /\ Rng(Gain(Taken, b)) = {f}
      /\ b + MinLen + 4 - 1 <= f.last
  BY DueIsFound, LiesIs DEF Overhead
<1>4. \A g \in SentSet : /\ g.last \in Nat /\ FirstByte(g) \in Nat
                        /\ 1 <= FirstByte(g) /\ FirstByte(g) <= g.last
  <2> TAKE g \in SentSet
  <2>1. Lies(g)
    BY DEF LayoutInv, FramesLie
  <2> QED BY <2>1, LiesIs
<1>5. \A n \in noise : n + MaxLen + 4 <= b
  BY DEF Overhead
<1> HIDE DEF b
<1>6. ASSUME NEW i \in 1 .. b, \A j \in i + 1 .. b : j \in G
      PROVE  i \in G
  <2>1. i \in Nat /\ i \in 1 .. position /\ i \in 1 .. Len(line) /\ i \in 1 .. Len(Taken)
        /\ b \in Nat
    <3>1. b \in 1 .. position /\ position \in Nat /\ Len(Taken) = position
      BY <1>1, <1>2, <1>3
    <3>2. i \in Nat /\ i \in 1 .. position /\ b \in Nat
      BY <3>1
    <3>3. position \in 0 .. Len(line)
      BY <1>1
    <3>4. i \in 1 .. Len(line)
      BY <1>1, <3>2, <3>3
    <3> QED BY <3>1, <3>2, <3>4
  <2>2. CASE i = b
    <3>1. f \in Finds(Taken, i)
      BY <1>2, <1>3, <2>1, <2>2, FindsIs
    <3> QED BY <3>1
  <2>3. CASE i < b
    <3>1. ~Waits(Taken, i) /\ Jump(Taken, i) \in i + 1 .. b
      <4>1. CASE Taken[i] # Start
        <5>1. ~Waits(Taken, i) /\ ~Whole(Taken, i)
          BY <4>1 DEF Waits, Whole
        <5>2. Jump(Taken, i) = i + 1
          BY <5>1 DEF Jump
        <5> QED BY <2>1, <2>3, <5>1, <5>2
      <4>2. CASE Taken[i] = Start /\ i \in noise
        <5>1. i + MaxLen + 4 <= b
          BY <1>5, <4>2
        <5>2. ~Waits(Taken, i)
          <6> SUFFICES ASSUME Waits(Taken, i) PROVE FALSE
            OBVIOUS
          <6>1. ~Short(Taken, i)
            BY <1>1, <1>2, <1>3, <2>1, <2>3 DEF Short, Left, Overhead
          <6>2. ~BadLength(Taken, i) /\ Incomplete(Taken, i)
            BY <6>1 DEF Waits
          <6>3. i + 1 \in 1 .. Len(Taken)
            BY <1>1, <1>2, <1>3, <2>1, <2>3
          <6>4. Taken[i + 1] \in Nat
            BY <1>2, <6>3, ElementOfSeq
          <6>5. Taken[i + 1] <= MaxLen
            BY <1>1, <6>2, <6>4 DEF BadLength
          <6>6. Taken[i + 1] + 4 > position - i + 1
            BY <1>2, <6>2 DEF Incomplete, Size, Left, Overhead
          <6> QED BY <1>1, <1>3, <2>1, <5>1, <6>4, <6>5, <6>6
        <5>3. CASE Whole(Taken, i)
          <6>1. /\ EndOf(Taken, i) \in Nat /\ EndOf(Taken, i) <= i + MaxLen + 4 - 1
                /\ i + MinLen + 4 - 1 <= EndOf(Taken, i)
            BY <1>2, <2>1, <5>3, WholeEnds DEF Overhead
          <6>2. Jump(Taken, i) = EndOf(Taken, i) + 1
            BY <5>3 DEF Jump
          <6> QED BY <1>1, <2>1, <5>1, <5>2, <6>1, <6>2
        <5>4. CASE ~Whole(Taken, i)
          <6>1. Jump(Taken, i) = i + 1
            BY <5>4 DEF Jump
          <6> QED BY <2>1, <2>3, <5>2, <6>1
        <5> QED BY <5>3, <5>4
      <4>3. CASE Taken[i] = Start /\ i \notin noise
        <5>1. PICK g \in SentSet : Covers(g, i)
          BY <2>1, <4>3 DEF LayoutInv, AllCovered
        <5>2. FirstByte(g) = i
          <6>1. Plain(g)
            BY DEF SentSet
          <6>2. line[i] = Start
            BY <1>2, <2>1, <4>3
          <6>3. i \notin FirstByte(g) + 1 .. g.last
            BY <6>1, <6>2 DEF Plain
          <6> QED BY <1>4, <2>1, <5>1, <6>3 DEF Covers
        <5>3. g.last < b
          <6>1. g = f \/ g.last < FirstByte(f) \/ f.last < FirstByte(g)
            BY <1>3 DEF LayoutInv, FramesApart
          <6>2. g # f
            BY <2>1, <2>3, <5>2 DEF b
          <6>3. ~(f.last < FirstByte(g))
            BY <1>1, <1>3, <2>1, <2>3, <5>2
          <6> QED BY <6>1, <6>2, <6>3 DEF b
        <5>4. g \in Due
          <6>1. g.last <= position
            BY <1>1, <1>3, <1>4, <5>3
          <6> QED BY <6>1 DEF Due, SentSet
        <5>5. ~Waits(Taken, i) /\ Jump(Taken, i) = g.last + 1
          BY <5>2, <5>4, DueIsFound
        <5> QED BY <1>4, <2>1, <5>2, <5>3, <5>5
      <4> QED BY <4>1, <4>2, <4>3
    <3>2. Jump(Taken, i) \in G
      BY <1>6, <3>1
    <3>3. ~(Jump(Taken, i) > position)
      BY <1>1, <1>3, <2>1, <3>1
    <3>4. Finds(Taken, Jump(Taken, i)) \subseteq Finds(Taken, i)
      BY <1>2, <2>1, <3>1, <3>3, FindsIs
    <3> QED BY <3>2, <3>4
  <2> QED BY <2>1, <2>2, <2>3
<1>7. \A i \in 1 .. b : i \in G
  <2>1. b \in Nat
    BY <1>3
  <2> HIDE DEF G
  <2> QED BY <1>6, <2>1, Downwards
<1> QED BY <1>7 DEF b

\* So that frame is accepted.
LEMMA DoesRecover == SplitInv /\ LayoutInv => Recovers
<1> SUFFICES ASSUME SplitInv, LayoutInv, \A k \in DOMAIN sent : Plain(sent[k]),
                    NEW f \in Due,
                    \A n \in noise : n + MaxLen + Overhead <= FirstByte(f)
             PROVE  f \in Accepted
  BY DEF Recovers
<1>1. FirstByte(f) \in 1 .. position /\ position \in Nat
  BY DueIsFound DEF SplitInv, LineInv
<1>2. position # 0 /\ 1 \in 1 .. FirstByte(f)
  BY <1>1
<1>3. f \in Finds(Taken, 1)
  BY <1>2, LoopRecovers
<1> QED BY <1>2, <1>3, AcceptedIs

\* A Start in the noise costs no frame that begins more than one largest
\* frame behind it.
THEOREM AllRecover == Spec => []Recovers
BY SplitInvariant, LayoutInvariant, DoesRecover, PTL
=============================================================================
