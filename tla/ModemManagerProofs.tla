------------------------- MODULE ModemManagerProofs -------------------------
(***************************************************************************)
(* What the two threads of ModemManager keep true of the dial programs and *)
(* of the radio, and what the lines of the programs do to the time the     *)
(* radio is reset by, for any number of process objects and any timeout.   *)
(***************************************************************************)
EXTENDS ModemManager, SequenceTheorems, TLAPS

Pointers == Processes \cup {NoProcess}
States == {"unborn", "live", "dead", "freed"}
execType == [process: Pointers, source: Pointers]
radioType == [state: BOOLEAN, line: {"absent", "killed", "open"}]
userType == [block: BOOLEAN, sure: BOOLEAN]

TypeInv ==
  /\ worker \in WorkerPCs /\ main \in {"loop", "reap", "join", "done"}
  /\ exec \in execType /\ child \in [Processes -> States]
  /\ user \in userType /\ rfkill \in radioType

\* Which thread may free the process, and what it relies on: the main loop
\* while it runs, and only what the worker has handed over; the worker when
\* the main thread no longer gets into its loop.
HandOver ==
  /\ worker \in {"spawned", "watched", "kill", "unref"} =>
       exec.process # NoProcess
  /\ worker \in {"kill", "unref", "release", "done"} => ~workFlag
  /\ main = "reap" =>
       /\ worker \notin {"spawned", "watched"}
       /\ exec.process # NoProcess /\ exec.source = NoProcess

\* The end of power-on drives the line open: a block that was asked for by
\* then is none that the line must follow.
Interrupted == worker = "off" /\ user.sure => ~user.block

Inv == /\ TypeInv /\ HandOver /\ NoOrphan /\ RecordIsValid
       /\ Interrupted /\ RadioAsAsked

LEMMA InitInv == Init => Inv
BY ProcessesAssumption
DEF Init, Inv, TypeInv, HandOver, NoOrphan, RecordIsValid, Interrupted,
    RadioAsAsked, userType, WorkerPCs, Pointers, States, execType, radioType, workFlag

LEMMA PowerInv ==
  ASSUME Inv, PowerOff \/ PowerOn \/ Reset \/ Release
  PROVE  Inv'
<1> USE DEF Inv, TypeInv, HandOver, NoOrphan, RecordIsValid, Interrupted,
            RadioAsAsked, userType, WorkerPCs, radioType, workFlag, execVars, bufferVars, modemVars
<1>1. CASE PowerOff
  <2>1. PICK line \in {"absent", "killed"}, ok \in BOOLEAN :
          /\ rfkill' = [state |-> FALSE, line |-> line]
          /\ user' = [block |-> FALSE, sure |-> ok]
          /\ worker' = IF ok THEN "off" ELSE "ready"
    BY <1>1 DEF PowerOff, WorkerAt
  <2> QED BY <1>1, <2>1 DEF PowerOff
<1>2. CASE PowerOn
  <2>1. /\ rfkill'.state = rfkill.state /\ rfkill' \in radioType
        /\ workFlag => rfkill'.line \in {"absent", "open"}
    BY <1>2 DEF PowerOn
  <2> QED BY <1>2, <2>1 DEF PowerOn, WorkerAt
<1>3. CASE Reset
  BY <1>3 DEF Reset, WorkerAt
<1>4. CASE Release
  <2>1. rfkill'.state = rfkill.state /\ rfkill' \in radioType
    BY <1>4 DEF Release
  <2> QED BY <1>4, <2>1 DEF Release, WorkerAt
<1> QED BY <1>1, <1>2, <1>3, <1>4

LEMMA DialInv ==
  ASSUME Inv, Spawn \/ Watch \/ WaitAsync
  PROVE  Inv'
<1> USE DEF Inv, TypeInv, HandOver, NoOrphan, RecordIsValid, Interrupted,
            RadioAsAsked, userType, WorkerPCs, Pointers, States, execType, workFlag,
            execVars, bufferVars, modemVars
<1>1. CASE Spawn
  <2>1. PICK p \in Free : /\ exec' = [exec EXCEPT !.process = p]
                          /\ child' = [child EXCEPT ![p] = "live"]
    BY <1>1 DEF Spawn
  <2>2. p \in Processes /\ p # NoProcess
    BY <2>1, ProcessesAssumption DEF Free
  <2>3. exec.process = NoProcess /\ exec.source = NoProcess /\ main = "loop"
    BY <1>1 DEF Spawn
  <2>4. \A q \in Processes : child[q] # "live"
    BY <2>3, ProcessesAssumption
  <2>5. /\ exec'.process = p /\ exec'.source = NoProcess /\ child'[p] = "live"
        /\ \A q \in Processes \ {p} : child'[q] = child[q]
        /\ exec' \in execType /\ child' \in [Processes -> States]
    BY <2>1, <2>2, <2>3
  <2> QED BY <1>1, <2>2, <2>3, <2>4, <2>5 DEF Spawn, WorkerAt
<1>2. CASE Watch
  BY <1>2 DEF Watch, WorkerAt
<1>3. CASE WaitAsync
  BY <1>3 DEF WaitAsync, WorkerAt
<1> QED BY <1>1, <1>2, <1>3

LEMMA EndInv ==
  ASSUME Inv, Leave \/ Kill \/ Unref
  PROVE  Inv'
<1> USE DEF Inv, TypeInv, HandOver, NoOrphan, RecordIsValid, Interrupted,
            RadioAsAsked, userType, WorkerPCs, Pointers, States, execType, workFlag,
            execVars, bufferVars, modemVars
<1>1. CASE Leave
  BY <1>1 DEF Leave, WorkerAt
<1>2. CASE Kill
  <2>1. exec.process \in Processes
    BY <1>2 DEF Kill
  <2>2. /\ child'[exec.process] = "dead" /\ child' \in [Processes -> States]
        /\ \A q \in Processes \ {exec.process} : child'[q] = child[q]
    BY <1>2, <2>1 DEF Kill
  <2> QED BY <1>2, <2>1, <2>2 DEF Kill, WorkerAt
<1>3. CASE Unref
  <2>1. exec.process \in Processes /\ main \in {"join", "done"}
    BY <1>3 DEF Unref
  <2>2. /\ child'[exec.process] = "freed" /\ child' \in [Processes -> States]
        /\ \A q \in Processes \ {exec.process} : child'[q] = child[q]
        /\ exec'.process = NoProcess /\ exec' \in execType
    BY <1>3, <2>1 DEF Unref
  <2> QED BY <1>3, <2>1, <2>2 DEF Unref, WorkerAt
<1> QED BY <1>1, <1>2, <1>3

LEMMA ReapInv ==
  ASSUME Inv, Reap
  PROVE  Inv'
<1> USE DEF Inv, TypeInv, HandOver, NoOrphan, RecordIsValid, Interrupted,
            RadioAsAsked, userType, WorkerPCs, Pointers, States, execType, workFlag,
            execVars, bufferVars, modemVars
<1>1. CASE ReapSource
  BY <1>1 DEF ReapSource
<1>2. CASE ReapProcess
  <2>1. exec.process \in Processes /\ exec.source = NoProcess
    BY <1>2 DEF ReapProcess
  <2>2. /\ child'[exec.process] = "freed" /\ child' \in [Processes -> States]
        /\ \A q \in Processes \ {exec.process} : child'[q] = child[q]
        /\ exec'.process = NoProcess /\ exec'.source = NoProcess
        /\ exec' \in execType
    BY <1>2, <2>1 DEF ReapProcess
  <2> QED BY <1>2, <2>1, <2>2 DEF ReapProcess
<1> QED BY <1>1, <1>2 DEF Reap

LEMMA RfkillSetState ==
  ASSUME NEW r \in radioType, NEW block \in BOOLEAN
  PROVE  RfkillSet(r, block) \in radioType /\ RfkillSet(r, block).state = block
BY DEF RfkillSet, radioType

LEMMA RfkillSetLines ==
  ASSUME NEW r \in radioType, NEW block \in BOOLEAN
  PROVE  /\ r.line = "absent" => RfkillSet(r, block).line = "absent"
         /\ r.line # "absent" /\ r.state # block =>
              RfkillSet(r, block).line = IF block THEN "killed" ELSE "open"
         /\ r.state = block => RfkillSet(r, block) = r
BY DEF RfkillSet, radioType

\* The radio: the timer leaves a line that is not blocked open.
LEMMA RadioInv ==
  ASSUME Inv, ReadStdout \/ ScanTimeout \/ (\E block \in BOOLEAN : UserRfkill(block))
  PROVE  Inv'
<1> USE DEF Inv, TypeInv, HandOver, NoOrphan, RecordIsValid, Interrupted,
            RadioAsAsked, userType, workFlag
<1>1. CASE ReadStdout
  BY <1>1 DEF ReadStdout
<1>2. CASE ScanTimeout
  <2> DEFINE up == RfkillSet(rfkill, TRUE)
  <2>1. rfkill.state = FALSE /\ rfkill' = RfkillSet(up, FALSE)
    BY <1>2 DEF ScanTimeout, radioType
  <2>2. up \in radioType /\ up.state = TRUE
    BY RfkillSetState
  <2>3. rfkill.line = "absent" => up.line = "absent"
    BY RfkillSetLines
  <2>4. rfkill.line # "absent" => up.line = "killed"
    BY <2>1, RfkillSetLines
  <2> HIDE DEF up
  <2>5. rfkill' \in radioType /\ rfkill'.state = FALSE
    BY <2>1, <2>2, RfkillSetState
  <2>6. rfkill'.line \in {"absent", "open"}
    BY <2>1, <2>2, <2>3, <2>4, RfkillSetLines
  <2>7. user.block = FALSE
    BY <2>1
  <2>8. UNCHANGED <<worker, main, exec, child, user>>
    BY <1>2 DEF ScanTimeout, execVars
  <2> QED BY <2>5, <2>6, <2>7, <2>8
<1>3. ASSUME NEW block \in BOOLEAN, UserRfkill(block) PROVE Inv'
  <2>1. rfkill' = RfkillSet(rfkill, block)
    BY <1>3 DEF UserRfkill
  <2>2. rfkill'.state = block /\ rfkill' \in radioType
    BY <2>1, RfkillSetState
  <2>3. /\ user' \in userType /\ user'.block = block
        /\ user'.sure = (worker # "off" /\ (user.sure \/ block # user.block))
    BY <1>3 DEF UserRfkill
  <2>4. ASSUME worker # "off", user'.sure, workFlag
        PROVE  rfkill'.line \in {"absent", IF block THEN "killed" ELSE "open"}
    <3>1. CASE rfkill.state = block
      <4>1. rfkill' = rfkill /\ user.sure /\ user.block = block
        BY <2>1, <2>3, <2>4, <3>1, RfkillSetLines
      <4> QED BY <2>4, <4>1
    <3>2. CASE rfkill.state # block
      BY <2>1, <3>2, RfkillSetLines DEF radioType
    <3> QED BY <3>1, <3>2
  <2>5. UNCHANGED <<worker, main, exec, child>>
    BY <1>3 DEF UserRfkill, execVars
  <2>6. TypeInv' /\ HandOver' /\ NoOrphan' /\ RecordIsValid' /\ Interrupted'
    BY <2>2, <2>3, <2>5
  <2>7. RadioAsAsked'
    BY <2>2, <2>3, <2>4, <2>5
  <2> QED BY <2>6, <2>7
<1> QED BY <1>1, <1>2, <1>3

LEMMA RestInv ==
  ASSUME Inv, Tick \/ Uninit \/ Joined \/ World \/ UNCHANGED vars
  PROVE  Inv'
<1> USE DEF Inv, TypeInv, HandOver, NoOrphan, RecordIsValid, Interrupted,
            RadioAsAsked, userType, workFlag, execVars, bufferVars, modemVars
<1>1. CASE Tick
  BY <1>1 DEF Tick
<1>2. CASE Uninit
  BY <1>2 DEF Uninit
<1>3. CASE Joined
  BY <1>3 DEF Joined
<1>4. CASE World
  <2>1. ASSUME NEW p \in Processes, child[p] = "live",
               child' = [child EXCEPT ![p] = "dead"]
        PROVE  Inv'
    <3>1. /\ child'[p] = "dead" /\ child' \in [Processes -> States]
          /\ \A q \in Processes \ {p} : child'[q] = child[q]
      BY <2>1 DEF States
    <3> QED BY <1>4, <2>1, <3>1, ProcessesAssumption DEF World, execType, Pointers
  <2>2. CASE UNCHANGED child
    BY <1>4, <2>2 DEF World
  <2> QED BY <1>4, <2>1, <2>2 DEF World
<1>5. CASE UNCHANGED vars
  BY <1>5 DEF vars
<1> QED BY <1>1, <1>2, <1>3, <1>4, <1>5

\* The invariant that carries the three properties.
THEOREM Invariant == Spec => []Inv
<1>1. Inv /\ [Next]_vars => Inv'
  BY PowerInv, DialInv, EndInv, ReapInv, RadioInv, RestInv DEF Next, Worker
<1> QED BY <1>1, InitInv, PTL DEF Spec

\* Two threads start and reap dial programs without a lock, yet one that runs
\* is always on record, so two never run at once.
THEOREM OneDialProgram == Spec => []NoOrphan
BY Invariant, PTL DEF Inv

\* The process on record was not freed by either thread, and the main loop
\* reads the output of no other.
THEOREM RecordStaysValid == Spec => []RecordIsValid
BY Invariant, PTL DEF Inv

\* From the end of a complete power-on the rfkill line is what the user asked
\* for, through resets, requests of any order and the worker's own steps.
THEOREM RadioFollows == Spec => []RadioAsAsked
BY Invariant, PTL DEF Inv
----------------------------------------------------------------------------
(***************************************************************************)
(* The signal mode: the lines of a read are folded one after the other,    *)
(* and the age the radio is reset by never runs ahead of the time since a  *)
(* line that nothing can spoil said 5G.                                    *)
(***************************************************************************)
modemType == [mode: ModemModes, had5g: BOOLEAN, age: Ages]

\* Once the program has finished a line, what is in the buffer is its own.
SignalInv ==
  /\ piece \in {"none", "own", "other"} /\ moves \in 0 .. MovesMax
  /\ begun \in BOOLEAN /\ (begun => piece # "other")
  /\ world \in [device: BOOLEAN, starts: BOOLEAN]
  /\ modem \in modemType /\ quiet \in Ages /\ modem.age <= quiet
  /\ worker \in {"start", "done"} => rfkill.line = "absent"

LEMMA MaxOfOne == ASSUME NEW n \in Nat PROVE Max({n}) = n
BY DEF Max

LEMMA MaxOfTwo == Max({1, 2}) = 2
<1>1. \A x \in {1, 2} : (\A y \in {1, 2} : x >= y) <=> x = 2
  OBVIOUS
<1> QED BY <1>1 DEF Max

\* A read of at most two lines.
LEMMA FoldIs ==
  ASSUME NEW base, NEW n \in 0 .. 2, NEW lines \in [1 .. n -> LineKinds]
  PROVE  FoldLeft(ParseLine, base, lines) =
           IF n = 0 THEN base
           ELSE IF n = 1 THEN ParseLine(base, lines[1])
           ELSE ParseLine(ParseLine(base, lines[1]), lines[2])
<1> DEFINE S == DOMAIN lines
           One == ParseLine(base, lines[1])
           Step(f, s) == IF s = {} THEN base
                         ELSE ParseLine(f[s \ {Max(s)}], lines[Max(s)])
           Def(f) == f = [s \in SUBSET S |-> Step(f, s)]
           F == CHOOSE f : Def(f)
<1>1. FoldLeft(ParseLine, base, lines) = F[S]
  BY DEF FoldLeft, MapThenFoldSet
<1>2. S = 1 .. n
  OBVIOUS
<1>3. \E f : Def(f)
  <2>1. SUBSET S \subseteq {{}, {1}, {2}, {1, 2}}
    <3>1. S = {} \/ S = {1} \/ S = {1, 2}
      BY <1>2
    <3> QED BY <3>1
  <2> DEFINE v(s) == IF s = {} THEN base
                     ELSE IF s = {1} THEN One
                     ELSE IF s = {2} THEN ParseLine(base, lines[2])
                     ELSE ParseLine(One, lines[2])
             g == [s \in SUBSET S |-> v(s)]
  <2>2. ASSUME NEW s \in SUBSET S PROVE v(s) = Step(g, s)
    <3>1. CASE s = {}
      BY <3>1
    <3>2. CASE s = {1}
      <4>1. Max(s) = 1 /\ s \ {1} = {} /\ g[{}] = base
        BY <3>2, MaxOfOne
      <4> QED BY <3>2, <4>1
    <3>3. CASE s = {2}
      <4>1. Max(s) = 2 /\ s \ {2} = {} /\ g[{}] = base
        BY <3>3, MaxOfOne
      <4> QED BY <3>3, <4>1
    <3>4. CASE s = {1, 2}
      <4>1. Max(s) = 2 /\ s \ {2} = {1} /\ g[{1}] = One
        BY <3>4, MaxOfTwo
      <4> QED BY <3>4, <4>1
    <3> QED BY <2>1, <3>1, <3>2, <3>3, <3>4
  <2>3. Def(g)
    <3> HIDE DEF v, Step, S
    <3> QED BY <2>2
  <2> QED BY <2>3
<1>4. Def(F)
  BY <1>3
<1>5. \A s \in SUBSET S : F[s] = Step(F, s)
  <2> HIDE DEF Step, S, F
  <2> QED BY <1>4
<1>6. F[{}] = base
  BY <1>5
<1> HIDE DEF F
<1>7. CASE n = 0
  BY <1>1, <1>2, <1>6, <1>7
<1>8. CASE n = 1
  <2>1. S = {1} /\ Max(S) = 1 /\ S \ {1} = {}
    BY <1>2, <1>8, MaxOfOne
  <2>2. F[S] = ParseLine(F[{}], lines[1])
    BY <1>5, <2>1
  <2> QED BY <1>1, <1>6, <1>8, <2>2
<1>9. CASE n = 2
  <2>1. S = {1, 2} /\ Max(S) = 2 /\ S \ {2} = {1}
    BY <1>2, <1>9, MaxOfTwo
  <2>2. Max({1}) = 1 /\ {1} \ {1} = {} /\ {1} \in SUBSET S
    BY <2>1, MaxOfOne
  <2>3. F[{1}] = One
    BY <1>5, <1>6, <2>2
  <2> QED BY <1>1, <1>5, <1>9, <2>1, <2>3
<1>10. n = 0 \/ n = 1 \/ n = 2
  OBVIOUS
<1> QED BY <1>7, <1>8, <1>9, <1>10

\* One line: the age stays or starts anew, and starts anew with 5G.
LEMMA LineSignal ==
  ASSUME NEW r \in [up: BOOLEAN, modem: modemType], NEW kind \in LineKinds
  PROVE  /\ ParseLine(r, kind) \in [up: BOOLEAN, modem: modemType]
         /\ ParseLine(r, kind).modem.age \in {0, r.modem.age}
         /\ kind = "5g" => ParseLine(r, kind).modem.age = 0
         /\ r.modem.had5g => ParseLine(r, kind).modem.had5g
<1> DEFINE m == r.modem
           up == r.up \/ (kind = "5g" /\ m.mode # "5g")
           age == IF kind = "5g" \/ (m.had5g /\ up) THEN 0 ELSE m.age
<1>1. m \in modemType /\ r.up \in BOOLEAN
  OBVIOUS
<1>2. m.had5g \in BOOLEAN /\ m.age \in Ages /\ up \in BOOLEAN
  BY <1>1 DEF modemType
<1>3. 0 \in Ages
  BY FailTimeoutAssumption DEF Ages
<1>4. age \in Ages /\ age \in {0, m.age} /\ (kind = "5g" => age = 0)
  BY <1>2, <1>3
<1>5. CASE kind = "other"
  <2>1. ParseLine(r, kind) = r
    BY <1>5 DEF ParseLine
  <2> QED BY <1>5, <2>1
<1>6. CASE kind # "other"
  <2>1. kind \in ModemModes
    BY <1>6 DEF LineKinds
  <2>2. ParseLine(r, kind) =
          [up |-> up, modem |-> [mode |-> kind, had5g |-> m.had5g \/ kind = "5g",
                                 age |-> age]]
    BY <1>6 DEF ParseLine
  <2> HIDE DEF age, up, m
  <2>3. [mode |-> kind, had5g |-> m.had5g \/ kind = "5g", age |-> age] \in modemType
    BY <1>2, <1>4, <2>1 DEF modemType
  <2> QED BY <1>2, <1>4, <2>2, <2>3 DEF m
<1> QED BY <1>5, <1>6

\* The lines of one read.
LEMMA LinesSignal ==
  ASSUME NEW m \in modemType, NEW lines \in Lines
  PROVE  /\ Parse(m, lines) \in modemType
         /\ Parse(m, lines).age \in {0, m.age}
         /\ (\E i \in DOMAIN lines : lines[i] = "5g") => Parse(m, lines).age = 0
         /\ m.had5g => Parse(m, lines).had5g
<1> DEFINE base == [modem |-> m, up |-> FALSE]
           type == [up: BOOLEAN, modem: modemType]
           first == ParseLine(base, lines[1])
           second == ParseLine(first, lines[2])
<1>0. PICK n \in 0 .. 2 : lines \in [1 .. n -> LineKinds]
  BY DEF Lines
<1>1. base \in type /\ base.modem = m
  OBVIOUS
<1>2. Parse(m, lines) = (IF n = 0 THEN base ELSE IF n = 1 THEN first
                         ELSE second).modem
  BY <1>0, FoldIs DEF Parse
<1>3. ASSUME n >= 1
      PROVE  /\ lines[1] \in LineKinds /\ first \in type
             /\ first.modem.age \in {0, m.age}
             /\ lines[1] = "5g" => first.modem.age = 0
             /\ m.had5g => first.modem.had5g
  <2>1. lines[1] \in LineKinds
    BY <1>0, <1>3
  <2> HIDE DEF base
  <2> QED BY <1>1, <2>1, LineSignal
<1>4. ASSUME n = 2
      PROVE  /\ second \in type
             /\ second.modem.age \in {0, first.modem.age}
             /\ lines[2] = "5g" => second.modem.age = 0
             /\ first.modem.had5g => second.modem.had5g
  <2>1. lines[2] \in LineKinds /\ first \in type
    BY <1>0, <1>3, <1>4
  <2> HIDE DEF first
  <2> QED BY <2>1, LineSignal
<1>5. \A i \in DOMAIN lines : (i = 1 /\ n >= 1) \/ (i = 2 /\ n = 2)
  BY <1>0
<1>6. n = 0 \/ n = 1 \/ n = 2
  OBVIOUS
<1> HIDE DEF base, first, second
<1>7. CASE n = 0
  BY <1>1, <1>2, <1>5, <1>7
<1>8. CASE n = 1
  BY <1>2, <1>3, <1>5, <1>8
<1>9. CASE n = 2
  BY <1>2, <1>3, <1>4, <1>5, <1>9
<1> QED BY <1>6, <1>7, <1>8, <1>9

\* What the parser hears of the lines: only the first may be another.
LEMMA HeardLines ==
  ASSUME NEW lines \in Lines, NEW moved \in BOOLEAN, NEW heard \in Heard(lines, moved)
  PROVE  /\ heard \in Lines /\ DOMAIN heard = DOMAIN lines
         /\ \A i \in DOMAIN lines : i > 1 => heard[i] = lines[i]
         /\ ~moved /\ piece # "other" => heard = lines
<1>1. PICK n \in 0 .. 2 : lines \in [1 .. n -> LineKinds]
  BY DEF Lines
<1>2. CASE heard = lines
  BY <1>2
<1>3. ASSUME NEW kind \in LineKinds, heard = [lines EXCEPT ![1] = kind],
             moved \/ piece = "other"
      PROVE  /\ heard \in [1 .. n -> LineKinds] /\ DOMAIN heard = DOMAIN lines
             /\ \A i \in DOMAIN lines : i > 1 => heard[i] = lines[i]
  <2>1. DOMAIN lines = 1 .. n /\ DOMAIN heard = 1 .. n
    BY <1>1, <1>3
  <2>2. \A i \in 1 .. n : heard[i] = IF i = 1 THEN kind ELSE lines[i]
    BY <1>1, <1>3
  <2>3. \A i \in 1 .. n : heard[i] \in LineKinds
    BY <1>1, <1>3, <2>2
  <2>4. heard = [i \in 1 .. n |-> heard[i]]
    BY <1>1, <1>3
  <2>5. heard \in [1 .. n -> LineKinds]
    BY <2>3, <2>4
  <2>6. \A i \in 1 .. n : i > 1 => heard[i] = lines[i]
    BY <1>1, <2>2
  <2> QED BY <2>1, <2>5, <2>6
<1>4. heard \in [1 .. n -> LineKinds] => heard \in Lines
  BY DEF Lines
<1>5. \/ heard = lines
      \/ /\ moved \/ piece = "other"
         /\ \E kind \in LineKinds : heard = [lines EXCEPT ![1] = kind]
  BY DEF Heard
<1> QED BY <1>1, <1>2, <1>3, <1>4, <1>5

LEMMA LinesReadSignal ==
  ASSUME SignalInv, NEW lines \in Lines, NEW rest \in BOOLEAN, ReadLines(lines, rest)
  PROVE  /\ piece' \in {"none", "own", "other"} /\ moves' \in 0 .. MovesMax
         /\ begun' \in BOOLEAN /\ (begun' => piece' # "other")
         /\ modem' \in modemType /\ quiet' \in Ages /\ modem'.age <= quiet'
         /\ modem.had5g => modem'.had5g
<1>0. PICK moved \in BOOLEAN :
        /\ moved => lines # <<>> /\ moves < MovesMax
        /\ moves' = IF moved THEN moves + 1 ELSE moves
        /\ \E heard \in Heard(lines, moved) : modem' = Parse(modem, heard)
        /\ quiet' = IF \E i \in DOMAIN lines :
                         lines[i] = "5g" /\ (i > 1 \/ (begun /\ ~moved))
                      THEN 0 ELSE quiet
  BY DEF ReadLines
<1>1. PICK heard \in Heard(lines, moved) : modem' = Parse(modem, heard)
  BY <1>0
<1>2. /\ heard \in Lines /\ DOMAIN heard = DOMAIN lines
      /\ \A i \in DOMAIN lines : i > 1 => heard[i] = lines[i]
      /\ ~moved /\ piece # "other" => heard = lines
  BY HeardLines
<1>3. modem \in modemType /\ quiet \in Ages /\ modem.age <= quiet
  BY DEF SignalInv
<1>4. /\ modem' \in modemType /\ modem'.age \in {0, modem.age}
      /\ (\E i \in DOMAIN heard : heard[i] = "5g") => modem'.age = 0
      /\ modem.had5g => modem'.had5g
  BY <1>1, <1>2, <1>3, LinesSignal
<1>5. ASSUME NEW i \in DOMAIN lines, lines[i] = "5g", i > 1 \/ (begun /\ ~moved)
      PROVE  modem'.age = 0
  <2>1. heard[i] = lines[i]
    BY <1>2, <1>5 DEF SignalInv
  <2> QED BY <1>2, <1>4, <1>5, <2>1
<1>6. quiet' \in Ages /\ modem'.age <= quiet'
  <2>1. modem.age \in Nat /\ quiet \in Nat /\ 0 \in Ages
    BY <1>3, FailTimeoutAssumption DEF modemType, Ages
  <2> QED BY <1>0, <1>3, <1>4, <1>5, <2>1
<1>7. moves' \in 0 .. MovesMax
  BY <1>0, FailTimeoutAssumption DEF SignalInv
<1>8. /\ piece' \in {"none", "own", "other"} /\ begun' \in BOOLEAN
      /\ begun' => piece' # "other"
  BY DEF ReadLines, SignalInv
<1> QED BY <1>4, <1>6, <1>7, <1>8

LEMMA ReadSignal ==
  ASSUME SignalInv, ReadStdout
  PROVE  SignalInv' /\ (modem.had5g => modem'.had5g)
<1>1. UNCHANGED <<worker, rfkill, world>>
  BY DEF ReadStdout
<1>2. ASSUME NEW lines \in Lines, NEW rest \in BOOLEAN, ReadLines(lines, rest)
      PROVE  SignalInv' /\ (modem.had5g => modem'.had5g)
  BY <1>1, <1>2, LinesReadSignal DEF SignalInv
<1>3. ASSUME NEW rest \in BOOLEAN, Overflow(rest)
      PROVE  SignalInv' /\ (modem.had5g => modem'.had5g)
  BY <1>1, <1>3 DEF SignalInv, Overflow
<1> QED BY <1>2, <1>3 DEF ReadStdout

LEMMA TickSignal ==
  ASSUME SignalInv, Tick
  PROVE  SignalInv'
<1>1. /\ modem.age \in Ages /\ quiet \in Ages /\ modem.age <= quiet
  BY DEF SignalInv, modemType
<1>2. modem' = [modem EXCEPT !.age = IF @ <= FailTimeout THEN @ + 1 ELSE @]
  BY DEF Tick
<1>3. /\ modem'.age = (IF modem.age <= FailTimeout THEN modem.age + 1
                       ELSE modem.age)
      /\ modem'.age \in Ages => modem' \in modemType
  BY <1>2 DEF SignalInv, modemType
<1>4. /\ modem'.age \in Ages /\ quiet' \in Ages /\ modem'.age <= quiet'
  BY <1>1, <1>3, FailTimeoutAssumption DEF Tick, Ages
<1> QED BY <1>3, <1>4 DEF Tick, SignalInv, execVars, bufferVars

\* The timer and the user switch the radio, and switch no line that is not
\* configured.
LEMMA RadioSignal ==
  ASSUME Inv, SignalInv, ScanTimeout \/ (\E block \in BOOLEAN : UserRfkill(block))
  PROVE  SignalInv'
<1>1. \A r \in radioType : \A block \in BOOLEAN :
        r.line = "absent" => RfkillSet(r, block).line = "absent"
  BY DEF radioType, RfkillSet
<1>2. CASE ScanTimeout
  <2>1. rfkill.line = "absent" => rfkill'.line = "absent"
    BY <1>1, <1>2, RfkillSetState DEF ScanTimeout, Inv, TypeInv
  <2>2. modem' \in modemType /\ modem'.age = modem.age
    BY <1>2 DEF ScanTimeout, SignalInv, modemType
  <2> QED BY <1>2, <2>1, <2>2 DEF ScanTimeout, SignalInv, execVars, bufferVars
<1>3. ASSUME NEW block \in BOOLEAN, UserRfkill(block) PROVE SignalInv'
  <2>1. rfkill.line = "absent" => rfkill'.line = "absent"
    BY <1>1, <1>3 DEF UserRfkill, Inv, TypeInv
  <2> QED BY <1>3, <2>1 DEF UserRfkill, SignalInv, execVars, bufferVars
<1> QED BY <1>2, <1>3

LEMMA RestSignal ==
  ASSUME SignalInv, rfkill \in radioType, Worker \/ Reap \/ Uninit \/ Joined \/ World \/ UNCHANGED vars
  PROVE  SignalInv'
<1> USE DEF SignalInv, WorkerAt, execVars, bufferVars, modemVars
<1>1. CASE PowerOff \/ PowerOn \/ Reset \/ Release
  <2>1. UNCHANGED <<piece, moves, begun, world, modem, quiet>>
    BY <1>1 DEF PowerOff, PowerOn, Reset, Release
  <2>2. worker' = "done" => rfkill' = [rfkill EXCEPT !.line = "absent"]
    BY <1>1 DEF PowerOff, PowerOn, Reset, Release
  <2>3. worker' # "start"
    BY <1>1 DEF PowerOff, PowerOn, Reset, Release
  <2>4. worker' = "done" => rfkill'.line = "absent"
    BY <2>2 DEF radioType
  <2> QED BY <2>1, <2>3, <2>4
<1>2. CASE Spawn \/ WaitAsync
  <2>1. UNCHANGED <<piece, moves, begun, world, modem, quiet, rfkill>>
    BY <1>2 DEF Spawn, WaitAsync
  <2>2. worker' \in {"spawned", "ready"}
    BY <1>2 DEF Spawn, WaitAsync
  <2> QED BY <2>1, <2>2
<1>3. CASE Watch
  <2>1. UNCHANGED <<moves, world, modem, quiet, rfkill>>
    BY <1>3 DEF Watch
  <2>2. /\ piece' \in {"none", "other"} /\ begun' = FALSE
        /\ worker' = "watched"
    BY <1>3 DEF Watch
  <2> QED BY <2>1, <2>2
<1>4. CASE Leave \/ Kill \/ Unref
  BY <1>4 DEF Leave, Kill, Unref
<1>5. CASE Reap
  BY <1>5 DEF Reap, ReapSource, ReapProcess
<1>6. CASE Uninit \/ Joined
  BY <1>6 DEF Uninit, Joined
<1>7. CASE World
  <2>1. world' \in [device: BOOLEAN, starts: BOOLEAN]
    BY <1>7 DEF World
  <2> QED BY <1>7, <2>1 DEF World
<1>8. CASE UNCHANGED vars
  BY <1>8 DEF vars
<1> QED BY <1>1, <1>2, <1>3, <1>4, <1>5, <1>6, <1>7, <1>8 DEF Worker

\* The two invariants together.
LEMMA SignalHolds == Spec => [](Inv /\ SignalInv)
<1>1. ASSUME Init PROVE SignalInv
  <2>1. FailTimeout + 1 \in Ages /\ FailTimeout + 1 \in Nat /\ 0 \in 0 .. MovesMax
    BY FailTimeoutAssumption DEF Ages
  <2>2. modem \in modemType /\ quiet \in Ages /\ modem.age = quiet /\ quiet \in Nat
    BY <1>1, <2>1 DEF Init, modemType, ModemModes
  <2>3. modem.age <= quiet
    BY <2>2
  <2>4. world \in [device: BOOLEAN, starts: BOOLEAN]
    BY <1>1 DEF Init
  <2>5. /\ piece = "none" /\ moves = 0 /\ begun = FALSE
        /\ worker \in {"start", "done"} => rfkill.line = "absent"
    BY <1>1 DEF Init
  <2> QED BY <2>1, <2>2, <2>3, <2>4, <2>5 DEF SignalInv
<1>2. Inv /\ SignalInv /\ [Next]_vars => SignalInv'
  BY ReadSignal, TickSignal, RadioSignal, RestSignal DEF Next, Inv, TypeInv
<1> QED BY <1>1, <1>2, Invariant, PTL DEF Spec

\* Type correctness; a line that is not configured is never driven before
\* power-on and after the release.
THEOREM TypeCorrect == Spec => []TypeOK
<1>1. Inv /\ SignalInv => TypeOK
  BY DEF Inv, TypeInv, SignalInv, TypeOK, modemType, radioType, execType,
         userType, Pointers, States
<1> QED BY <1>1, SignalHolds, PTL

\* The reset of the radio comes no earlier than one timeout after the last
\* line that said 5G and that nothing could spoil; a line that is glued, read
\* in freed memory or thrown away takes no other with it.
THEOREM ResetsAreDue == Spec => ResetIsDue
<1>1. Inv /\ SignalInv /\ [Next]_vars
        => (modem.had5g /\ ~modem'.had5g => quiet > FailTimeout) \/ UNCHANGED vars
  <2> SUFFICES ASSUME Inv, SignalInv, Next, modem.had5g, ~modem'.had5g
               PROVE  quiet > FailTimeout
    OBVIOUS
  <2>1. modem.age \in Ages /\ quiet \in Ages /\ modem.age <= quiet
    BY DEF SignalInv, modemType
  <2>2. CASE ScanTimeout
    BY <2>1, <2>2, FailTimeoutAssumption DEF ScanTimeout, Ages
  <2>3. CASE ReadStdout
    BY <2>3, ReadSignal
  <2>4. CASE Tick
    BY <2>4 DEF Tick, SignalInv, modemType
  <2>5. ASSUME ~ScanTimeout, ~ReadStdout, ~Tick PROVE modem' = modem
    BY <2>5 DEF Next, Worker, Reap, PowerOff, PowerOn, Reset, Release, Spawn,
                Watch, WaitAsync, Leave, Kill, Unref, ReapSource, ReapProcess,
                UserRfkill, Uninit, Joined, World, modemVars
  <2> QED BY <2>2, <2>3, <2>4, <2>5
<1>2. Inv /\ SignalInv /\ [Next]_vars
        => [modem.had5g /\ ~modem'.had5g => quiet > FailTimeout]_vars
  BY <1>1
<1> QED BY <1>2, SignalHolds, PTL DEF Spec, ResetIsDue
=============================================================================
