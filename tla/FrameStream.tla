----------------------------- MODULE FrameStream -----------------------------
(***************************************************************************)
(* How the manager finds the frames of the PMU in the bytes of the serial  *)
(* port, src/src/pmu-manager.c: pcat_pmu_serial_read_watch_func appends    *)
(* what read() gives to a buffer and pcat_pmu_serial_read_data_parse takes *)
(* the frames out of it.                                                   *)
(*                                                                         *)
(* A frame of the code is A5, 4 bytes of addresses and number, 2 of        *)
(* length, the body of that length, 2 of checksum, 5A.  Here it is Start,  *)
(* 1 byte of length, the body, 1 of checksum, End; the bytes may have any  *)
(* of a few values, those of Start and End too.                            *)
(***************************************************************************)
EXTENDS Integers, Sequences, FiniteSets, SequencesExt

CONSTANTS Bytes,     \* byte values, 0 .. 255
          Start,     \* 0xA5
          End,       \* 0x5A
          MinLen,    \* smallest length of a body, 3
          MaxLen,    \* largest length of a body, 65532
          TrimAt,    \* a longer buffer is trimmed, 131072
          TrimTo,    \* to the last TrimTo bytes, 65536
          ChunkMax,  \* most bytes one read() gives, 4096
          Bodies,    \* bodies the PMU sends
          LineMax,   \* bound: bytes of one behaviour
          NoiseMax   \* bound: bytes of noise among them

ASSUME BytesAssumption ==
  /\ IsFiniteSet(Bytes) /\ Bytes = 0 .. Cardinality(Bytes) - 1
  /\ {Start, End} \subseteq Bytes /\ Start # End
  /\ MinLen \in Nat \ {0} /\ MaxLen \in Nat /\ MinLen <= MaxLen
  /\ TrimTo \in Nat /\ TrimAt \in Nat /\ TrimTo <= TrimAt
  /\ ChunkMax \in Nat /\ LineMax \in Nat /\ NoiseMax \in Nat
  /\ \A body \in Bodies : /\ body \in Seq(Bytes)
                          /\ Len(body) \in (MinLen .. MaxLen) \cap Bytes

VARIABLES
  line,      \* history: all bytes that came over the serial line
  position,  \* how many of them were read
  buffer,    \* serial_read_buffer
  frames,    \* the frames accepted: body, and position of the last byte
  sent,      \* history: the frames the PMU sent, likewise
  noise      \* history: positions of the bytes that belong to no frame

vars == <<line, position, buffer, frames, sent, noise>>

Overhead == 4        \* bytes of a frame besides the body; 10 in the code

\* 65532 + 10 + 4096 <= 131072.
ASSUME TrimAssumption == MaxLen + Overhead + ChunkMax <= TrimAt

\* The checksum over length and body.
CheckSum(s) == FoldLeft(LAMBDA sum, byte : sum + byte, 0, s) % Cardinality(Bytes)

\* The frame with this body, as the PMU sends it.
Encoded(body) ==
  LET inner == <<Len(body)>> \o body
  IN  <<Start>> \o inner \o <<CheckSum(inner), End>>
----------------------------------------------------------------------------
(***************************************************************************)
(* What the bytes of b from the Start at position i on are.                *)
(***************************************************************************)
Size(b, i) == b[i + 1] + Overhead

Left(b, i) == Len(b) - i + 1

Short(b, i) == Left(b, i) < MinLen + Overhead

\* Mutants: the upper bound is not checked, or is off by one.
BadLengthNoMax(b, i) == b[i + 1] < MinLen
BadLengthAtMax(b, i) == b[i + 1] < MinLen \/ b[i + 1] >= MaxLen

BadLength(b, i) == b[i + 1] < MinLen \/ b[i + 1] > MaxLen

\* Mutant: a frame without its last byte is taken for an incomplete one.
IncompleteOrBroken(b, i) ==
  \/ Size(b, i) > Left(b, i)
  \/ b[i + Size(b, i) - 1] # End

Incomplete(b, i) == Size(b, i) > Left(b, i)

NoEnd(b, i) == b[i + Size(b, i) - 1] # End

BadSum(b, i) ==
  b[i + Size(b, i) - 2] # CheckSum(SubSeq(b, i + 1, i + Size(b, i) - 3))

\* The loop ends here and keeps the bytes from i on for the next read.
Waits(b, i) ==
  /\ b[i] = Start
  /\ Short(b, i) \/ (~BadLength(b, i) /\ Incomplete(b, i))

\* A frame that is all there, but for its checksum.
Whole(b, i) ==
  /\ b[i] = Start /\ ~Short(b, i)
  /\ ~BadLength(b, i) /\ ~Incomplete(b, i) /\ ~NoEnd(b, i)

Body(b, i) == SubSeq(b, i + 2, i + Size(b, i) - 3)
----------------------------------------------------------------------------
(***************************************************************************)
(* The parser: one loop over the buffer.  used counts the bytes in front   *)
(* that are removed at the end; the loop always keeps the byte it looked   *)
(* at last, unless a frame ends there.  A frame with a wrong checksum is   *)
(* skipped as a whole.                                                     *)
(***************************************************************************)
Parse(b) ==
  LET Stop(used) == [used |-> used, found |-> <<>>]
      Loop[i \in 1 .. Len(b)] ==
        LET From(j, used) == IF j > Len(b) THEN Stop(used) ELSE Loop[j]
            last == i + Size(b, i) - 1
            Skip == From(last + 1, last)
        IN  IF Waits(b, i) THEN Stop(i - 1)
            ELSE IF ~Whole(b, i) THEN From(i + 1, i - 1)
            ELSE IF BadSum(b, i) THEN Skip
            ELSE [Skip EXCEPT !.found =
                    <<[body |-> Body(b, i), last |-> last]>> \o @]
  IN  IF Len(b) < MinLen + Overhead THEN Stop(0) ELSE Loop[1]

\* The buffer with the bytes of a read, trimmed.
Grown(chunk) ==
  LET b == buffer \o chunk
  IN  IF Len(b) > TrimAt THEN SubSeq(b, Len(b) - TrimTo + 1, Len(b)) ELSE b

\* Mutant: the byte after the used ones goes too.
RestMore(b, used) == SubSeq(b, used + 2, Len(b))

Rest(b, used) == SubSeq(b, used + 1, Len(b))

Read ==
  \E n \in 1 .. ChunkMax :
    /\ position + n <= Len(line)
    /\ position' = position + n
    /\ LET b == Grown(SubSeq(line, position + 1, position + n))
           result == Parse(b)
           before == position + n - Len(b)
           Placed(f) == [f EXCEPT !.last = @ + before]
       IN  /\ frames' = frames \o [k \in DOMAIN result.found |->
                                     Placed(result.found[k])]
           /\ buffer' = Rest(b, result.used)
    /\ UNCHANGED <<line, sent, noise>>

\* The PMU sends a frame.
SendFrame ==
  \E body \in Bodies :
    /\ line' = line \o Encoded(body)
    /\ Len(line') <= LineMax
    /\ sent' = Append(sent, [body |-> body, last |-> Len(line')])
    /\ UNCHANGED <<position, buffer, frames, noise>>

\* A byte that belongs to no frame: noise, or a piece of a broken frame.
Noise ==
  /\ Cardinality(noise) < NoiseMax /\ Len(line) < LineMax
  /\ \E byte \in Bytes : line' = Append(line, byte)
  /\ noise' = noise \cup {Len(line')}
  /\ UNCHANGED <<position, buffer, frames, sent>>

Init ==
  /\ line = <<>> /\ position = 0 /\ buffer = <<>>
  /\ frames = <<>> /\ sent = <<>> /\ noise = {}

Next == Read \/ SendFrame \/ Noise

Spec == Init /\ [][Next]_vars
----------------------------------------------------------------------------
(***************************************************************************)
(* Properties.                                                             *)
(***************************************************************************)
IsFrame(f) ==
  /\ f.body \in Seq(Bytes) /\ Len(f.body) \in MinLen .. MaxLen
  /\ f.last \in 1 .. Len(line)

\* The state is well formed, and between reads the buffer holds less than
\* one largest frame, even when the line carries noise, so the trimming at
\* 131072 bytes never happens.
TypeOK ==
  /\ line \in Seq(Bytes) /\ position \in 0 .. Len(line)
  /\ buffer \in Seq(Bytes) /\ Len(buffer) < MaxLen + Overhead
  /\ \A k \in DOMAIN frames : IsFrame(frames[k])
  /\ \A k \in DOMAIN sent : IsFrame(sent[k])
  /\ noise \subseteq 1 .. Len(line)

\* However the kernel cuts the bytes into reads, the parser accepts the
\* frames that it would find if all bytes had come at once: nothing is lost,
\* found twice or found in another place because a read ended there, and the
\* trimming of the buffer takes no bytes that were still needed.
SplitIndependent == frames = Parse(SubSeq(line, 1, position)).found

Accepted == {frames[k] : k \in DOMAIN frames}

Due == {f \in {sent[k] : k \in DOMAIN sent} : f.last <= position}

\* If no byte of noise is a Start, each frame is accepted with the read that
\* brings its last byte, and nothing else is, whatever its body contains.
Delivered == (\A n \in noise : line[n] # Start) => Accepted = Due

FirstByte(f) == f.last - Len(f.body) - Overhead + 1

Plain(f) == \A i \in FirstByte(f) + 1 .. f.last : line[i] # Start

\* A Start in the noise can cost only the frames that begin within one
\* largest frame of the last byte of noise, if the frames contain no Start.
Recovers ==
  (\A k \in DOMAIN sent : Plain(sent[k])) =>
    \A f \in Due :
      (\A n \in noise : n + MaxLen + Overhead <= FirstByte(f))
        => f \in Accepted
=============================================================================
