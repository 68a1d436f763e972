------------------------------ MODULE RouteLed ------------------------------
(***************************************************************************)
(* How the manager finds out which way the network traffic goes and shows  *)
(* it on the network LED, src/src/main.c.  Two threads write the shared    *)
(* g_pcat_main_network_route_mode without a lock: one asks mwan3 for the   *)
(* balanced policies, the other pings when mwan3 routes nothing.  A timer  *)
(* of the main loop reads the mode and asks the PMU for an LED pattern.    *)
(* Each access to the shared mode is a step of its own.                    *)
(***************************************************************************)
EXTENDS Naturals, Sequences, FiniteSets

CONSTANTS Policies,     \* what mwan3 may report: [ipv4, ipv6: Seq(Rules)]
          PingRounds    \* rounds of pings before the network counts as dead, 5

Ifaces == {"wan", "wwan", "other"}

\* A rule of a balanced policy; share says that its percent is above zero.
Rules == [iface: Ifaces, share: BOOLEAN]

ASSUME PoliciesAssumption == Policies \subseteq [ipv4: Seq(Rules), ipv6: Seq(Rules)]
ASSUME PingRoundsAssumption == PingRounds \in Nat \ {0}

VARIABLES
  mode,      \* g_pcat_main_network_route_mode
  mwan,      \* the mwan3 thread: where it stands, the mode it found
  conn,      \* the connection thread: where it stands, rounds, result
  led,       \* the LED timer: where it stands, applied mode, pattern asked
  running,   \* the check flags of the two threads
  env        \* the world: policy reported by mwan3, internet reachable

vars == <<mode, mwan, conn, led, running, env>>

RouteModes == {"none", "unknown", "wired", "mobile"}

\* mode > PCAT_MANAGER_ROUTE_MODE_UNKNOWN
Routed(m) == m \in {"wired", "mobile"}

IfaceMode(iface) == IF iface = "wan" THEN "wired" ELSE "mobile"
----------------------------------------------------------------------------
\* The rules of s that send traffic to an interface the manager knows.
Live(s) == {i \in DOMAIN s : s[i].share /\ s[i].iface # "other"}

\* The first live rule of the IPv4 policy decides, else that of the IPv6 one.
RouteOf(policy) ==
  LET Decide(s) == IfaceMode(s[CHOOSE i \in Live(s) :
                                 \A j \in Live(s) : i <= j].iface)
  IN  CASE Live(policy.ipv4) # {} -> Decide(policy.ipv4)
        [] Live(policy.ipv4) = {} /\ Live(policy.ipv6) # {} ->
             Decide(policy.ipv6)
        [] OTHER -> "none"
----------------------------------------------------------------------------
(***************************************************************************)
(* The mwan3 thread.                                                       *)
(***************************************************************************)
MwanAt(pc) == mwan' = [mwan EXCEPT !.pc = pc]

\* mwan3 is asked; it may also give no answer, which is no route.
MwanQuery ==
  /\ mwan.pc = "sleep" /\ running
  /\ \E found \in {RouteOf(env.policy), "none"} :
       /\ found = "none" => env.flaky \/ RouteOf(env.policy) = "none"
       /\ mwan' = [pc |-> IF Routed(found) THEN "set" ELSE "test",
                   found |-> found]
  /\ UNCHANGED <<mode, conn, led, running, env>>

\* Mutant: a routed mode is not replaced by another one.
MwanSetFirst ==
  /\ mwan.pc = "set"
  /\ mode' = IF Routed(mode) THEN mode ELSE mwan.found
  /\ MwanAt("sleep")
  /\ UNCHANGED <<conn, led, running, env>>

MwanSet ==
  /\ mwan.pc = "set"
  /\ mode' = mwan.found
  /\ MwanAt("sleep")
  /\ UNCHANGED <<conn, led, running, env>>

\* Mutant: the mode is not reset when mwan3 reports no route.
MwanTestKeep ==
  /\ mwan.pc = "test"
  /\ MwanAt("sleep")
  /\ UNCHANGED <<mode, conn, led, running, env>>

MwanTest ==
  /\ mwan.pc = "test"
  /\ MwanAt(IF Routed(mode) THEN "reset" ELSE "sleep")
  /\ UNCHANGED <<mode, conn, led, running, env>>

MwanReset ==
  /\ mwan.pc = "reset"
  /\ mode' = "none"
  /\ MwanAt("sleep")
  /\ UNCHANGED <<conn, led, running, env>>

MwanEnd ==
  /\ mwan.pc = "sleep" /\ ~running
  /\ MwanAt("done")
  /\ UNCHANGED <<mode, conn, led, running, env>>
----------------------------------------------------------------------------
(***************************************************************************)
(* The connection thread.                                                  *)
(***************************************************************************)
ConnAt(pc) == conn' = [conn EXCEPT !.pc = pc]

\* It leaves a routed mode alone and otherwise starts to ping.
ConnTop ==
  /\ conn.pc = "top" /\ running /\ ~Routed(mode)
  /\ conn' = [pc |-> "ping", rounds |-> 0, ok |-> FALSE]
  /\ UNCHANGED <<mode, mwan, led, running, env>>

\* Mutant: one round too many.
ConnPingMore ==
  /\ conn.pc = "ping"
  /\ LET ok == running /\ env.internet
         rounds == conn.rounds + 1
     IN  conn' = [pc |-> IF ok \/ rounds > PingRounds THEN "test" ELSE "ping",
                  rounds |-> rounds, ok |-> ok]
  /\ UNCHANGED <<mode, mwan, led, running, env>>

\* One round over the addresses; no ping is sent once the flag is cleared.
ConnPing ==
  /\ conn.pc = "ping"
  /\ LET ok == running /\ env.internet
         rounds == conn.rounds + 1
     IN  conn' = [pc |-> IF ok \/ rounds = PingRounds THEN "test" ELSE "ping",
                  rounds |-> rounds, ok |-> ok]
  /\ UNCHANGED <<mode, mwan, led, running, env>>

ConnTest ==
  /\ conn.pc = "test"
  /\ ConnAt(IF Routed(mode) THEN "top" ELSE "set")
  /\ UNCHANGED <<mode, mwan, led, running, env>>

ConnSet ==
  /\ conn.pc = "set"
  /\ mode' = IF conn.ok THEN "unknown" ELSE "none"
  /\ ConnAt("top")
  /\ UNCHANGED <<mwan, led, running, env>>

ConnEnd ==
  /\ conn.pc = "top" /\ ~running
  /\ ConnAt("done")
  /\ UNCHANGED <<mode, mwan, led, running, env>>
----------------------------------------------------------------------------
(***************************************************************************)
(* The LED timer reads the mode three times: to compare it with the mode   *)
(* applied, to choose the pattern, and to remember what was applied.       *)
(***************************************************************************)
LedCompare ==
  /\ led.pc = "idle" /\ running /\ led.applied # mode
  /\ led' = [led EXCEPT !.pc = "choose"]
  /\ UNCHANGED <<mode, mwan, conn, running, env>>

LedChoose ==
  /\ led.pc = "choose"
  /\ led' = [led EXCEPT !.pc = "apply", !.asked = mode]
  /\ UNCHANGED <<mode, mwan, conn, running, env>>

LedApply ==
  /\ led.pc = "apply"
  /\ led' = [led EXCEPT !.pc = "idle", !.applied = mode]
  /\ UNCHANGED <<mode, mwan, conn, running, env>>
----------------------------------------------------------------------------
\* The main loop has returned; a timer callback is never cut short.
Stop ==
  /\ running /\ led.pc = "idle"
  /\ running' = FALSE
  /\ UNCHANGED <<mode, mwan, conn, led, env>>

World ==
  /\ \/ \E p \in Policies : env' = [env EXCEPT !.policy = p]
     \/ env' = [env EXCEPT !.internet = ~@]
     \/ env' = [env EXCEPT !.flaky = ~@]
  /\ UNCHANGED <<mode, mwan, conn, led, running>>

Init ==
  /\ mode = "none"
  /\ mwan = [pc |-> "sleep", found |-> "none"]
  /\ conn = [pc |-> "top", rounds |-> 0, ok |-> FALSE]
  /\ led = [pc |-> "idle", applied |-> "none", asked |-> "none"]
  /\ running = TRUE
  /\ env \in [policy: Policies, internet: BOOLEAN, flaky: {FALSE}]

Mwan == MwanQuery \/ MwanSet \/ MwanTest \/ MwanReset \/ MwanEnd
Conn == ConnTop \/ ConnPing \/ ConnTest \/ ConnSet \/ ConnEnd
Led == LedCompare \/ LedChoose \/ LedApply

Next == Mwan \/ Conn \/ Led \/ Stop \/ World

Spec == Init /\ [][Next]_vars

\* The threads and the timer keep running; the world does what it likes.
FairSpec == Spec /\ WF_vars(Mwan) /\ WF_vars(Conn) /\ WF_vars(Led)
----------------------------------------------------------------------------
(***************************************************************************)
(* Properties.                                                             *)
(***************************************************************************)
TypeOK ==
  /\ mode \in RouteModes
  /\ mwan \in [pc: {"sleep", "set", "test", "reset", "done"},
               found: RouteModes \ {"unknown"}]
  /\ conn \in [pc: {"top", "ping", "test", "set", "done"},
               rounds: 0 .. PingRounds, ok: BOOLEAN]
  /\ led \in [pc: {"idle", "choose", "apply"}, applied: RouteModes,
              asked: RouteModes]
  /\ running \in BOOLEAN
  /\ env \in [policy: Policies, internet: BOOLEAN, flaky: BOOLEAN]

\* The world stays as it is: mwan3 answers and reports a route m.
Steady(m) == running /\ ~env.flaky /\ RouteOf(env.policy) = m

\* A route that mwan3 keeps reporting is shown again and again, although the
\* connection thread may write over it what it found before the route came.
RouteShown ==
  \A m \in {"wired", "mobile"} : <>[]Steady(m) => []<>(mode = m)

\* Without a route the mode becomes and stays what the pings say, although
\* the connection thread sleeps as long as the mode is a routed one.
PingsShown ==
  /\ <>[](Steady("none") /\ env.internet) => <>[](mode = "unknown")
  /\ <>[](Steady("none") /\ ~env.internet) => <>[](mode = "none")

\* A route shown is the one mwan3 reported last: the other thread never
\* brings an old route back, whatever the two threads have read before.
RouteIsReported ==
  Routed(mode) => mode = mwan.found \/ mwan.pc \in {"set", "test", "reset"}

\* The pattern asked for is the one of the mode remembered as applied.
LedShowsApplied == led.pc = "idle" => led.asked = led.applied
=============================================================================
