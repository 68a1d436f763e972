--------------------------- MODULE RouteLedProofs ---------------------------
(***************************************************************************)
(* The route shown by RouteLed is the one mwan3 reported last, for every   *)
(* set of policies and every number of rounds.                             *)
(***************************************************************************)
EXTENDS RouteLed, TLAPS

LEMMA RouteOfType ==
  ASSUME NEW policy
  PROVE  RouteOf(policy) \in {"none", "wired", "mobile"}
  BY DEF RouteOf, IfaceMode

\* A thread that pings has a round left.
RoundsLeft == conn.pc = "ping" => conn.rounds < PingRounds

\* The invariant: RouteIsReported is inductive once the states are typed, and
\* the type of the rounds needs that pinging stops in time.
IInv == TypeOK /\ RoundsLeft /\ RouteIsReported

LEMMA InitInv == Init => IInv
<1> SUFFICES ASSUME Init PROVE IInv
  OBVIOUS
<1>1. env \in [policy: Policies, internet: BOOLEAN, flaky: BOOLEAN]
  BY DEF Init
<1>2. 0 \in 0 .. PingRounds
  BY PingRoundsAssumption
<1>3. TypeOK
  BY <1>1, <1>2 DEF Init, TypeOK, RouteModes
<1>4. RoundsLeft /\ RouteIsReported
  BY DEF Init, RoundsLeft, RouteIsReported, Routed
<1> QED BY <1>3, <1>4 DEF IInv

LEMMA MwanInv ==
  ASSUME IInv, Mwan
  PROVE  IInv'
<1> USE DEF IInv, TypeOK, RoundsLeft, RouteIsReported, Routed
<1>1. CASE MwanQuery
  <2>1. PICK found \in {RouteOf(env.policy), "none"} :
          mwan' = [pc |-> IF Routed(found) THEN "set" ELSE "test",
                   found |-> found]
    BY <1>1 DEF MwanQuery
  <2>2. found \in {"none", "wired", "mobile"}
    BY <2>1, RouteOfType
  <2> QED BY <1>1, <2>1, <2>2 DEF MwanQuery, RouteModes
<1>2. CASE MwanSet
  BY <1>2 DEF MwanSet, MwanAt
<1>3. CASE MwanTest
  BY <1>3 DEF MwanTest, MwanAt
<1>4. CASE MwanReset
  BY <1>4 DEF MwanReset, MwanAt, RouteModes
<1>5. CASE MwanEnd
  BY <1>5 DEF MwanEnd, MwanAt
<1> QED BY <1>1, <1>2, <1>3, <1>4, <1>5 DEF Mwan

\* The connection thread writes modes that are no route.
LEMMA ConnInv ==
  ASSUME IInv, Conn
  PROVE  IInv'
<1> USE DEF IInv, TypeOK, RoundsLeft, RouteIsReported, Routed
<1>1. CASE ConnTop
  BY <1>1, PingRoundsAssumption DEF ConnTop
<1>2. CASE ConnPing
  <2>1. conn.rounds \in 0 .. PingRounds
    OBVIOUS
  <2>2. /\ conn.rounds + 1 \in 0 .. PingRounds
        /\ conn.rounds + 1 # PingRounds => conn.rounds + 1 < PingRounds
    BY <1>2, <2>1, PingRoundsAssumption DEF ConnPing
  <2> QED BY <1>2, <2>1, <2>2 DEF ConnPing
<1>3. CASE ConnTest
  BY <1>3 DEF ConnTest, ConnAt
<1>4. CASE ConnSet
  BY <1>4 DEF ConnSet, ConnAt, RouteModes
<1>5. CASE ConnEnd
  BY <1>5 DEF ConnEnd, ConnAt
<1> QED BY <1>1, <1>2, <1>3, <1>4, <1>5 DEF Conn

LEMMA RestInv ==
  ASSUME IInv, Led \/ Stop \/ World \/ UNCHANGED vars
  PROVE  IInv'
<1> USE DEF IInv, TypeOK, RoundsLeft, RouteIsReported, Routed
<1>1. CASE Led
  <2>1. CASE LedCompare
    BY <2>1 DEF LedCompare
  <2>2. CASE LedChoose
    BY <2>2 DEF LedChoose
  <2>3. CASE LedApply
    BY <2>3 DEF LedApply
  <2> QED BY <1>1, <2>1, <2>2, <2>3 DEF Led
<1>2. CASE Stop
  BY <1>2 DEF Stop
<1>3. CASE World
  <2>1. env' \in [policy: Policies, internet: BOOLEAN, flaky: BOOLEAN]
    <3>1. env \in [policy: Policies, internet: BOOLEAN, flaky: BOOLEAN]
      OBVIOUS
    <3>2. ASSUME NEW p \in Policies, env' = [env EXCEPT !.policy = p]
          PROVE  env' \in [policy: Policies, internet: BOOLEAN, flaky: BOOLEAN]
      BY <3>1, <3>2
    <3>3. (~env.internet) \in BOOLEAN /\ (~env.flaky) \in BOOLEAN
      OBVIOUS
    <3> HIDE DEF IInv, TypeOK
    <3>4. ASSUME env' = [env EXCEPT !.internet = ~@]
          PROVE  env' \in [policy: Policies, internet: BOOLEAN, flaky: BOOLEAN]
      BY <3>1, <3>3, <3>4, Zenon
    <3>5. ASSUME env' = [env EXCEPT !.flaky = ~@]
          PROVE  env' \in [policy: Policies, internet: BOOLEAN, flaky: BOOLEAN]
      BY <3>1, <3>3, <3>5, Zenon
    <3> QED BY <1>3, <3>2, <3>4, <3>5 DEF World
  <2> QED BY <1>3, <2>1 DEF World
<1>4. CASE UNCHANGED vars
  BY <1>4 DEF vars
<1> QED BY <1>1, <1>2, <1>3, <1>4

\* All states of the two threads and the timer keep their type, and a route
\* shown is the one mwan3 reported last.
THEOREM Invariant == Spec => []IInv
<1>1. IInv /\ [Next]_vars => IInv'
  BY MwanInv, ConnInv, RestInv DEF Next
<1> QED BY <1>1, InitInv, PTL DEF Spec

\* The state keeps its type, whatever mwan3 reports; in particular no ping
\* round is counted beyond the limit.
THEOREM TypeCorrect == Spec => []TypeOK
BY Invariant, PTL DEF IInv

\* The connection thread, which tests the mode and writes it later, never
\* brings an old route back.
THEOREM RoutesAreReported == Spec => []RouteIsReported
BY Invariant, PTL DEF IInv
=============================================================================
