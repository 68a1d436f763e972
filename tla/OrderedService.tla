--------------------------- MODULE OrderedService ---------------------------
(***************************************************************************)
(* What the link to the PMU promises the rest of the manager, with no      *)
(* queue, no wire and no retransmission in it.  Commands are numbered as   *)
(* they are asked for.  Each is open until it gets its one outcome:        *)
(*   answered  the PMU has it and said so                                  *)
(*   silent    the PMU had its chances to answer and did not               *)
(*   written   it asks for no answer and went to the wire                  *)
(*   skipped   too many commands were open, it was never tried             *)
(* Commands are tried in the order they were asked for, and the PMU sees   *)
(* them in that order, each perhaps several times and perhaps not at all.  *)
(***************************************************************************)
EXTENDS Integers, FiniteSets

CONSTANT Numbers      \* numbers of the commands

ASSUME NumbersAssumption == Numbers \subseteq Nat

VARIABLES outcome,    \* what became of each command
          delivered   \* the commands the PMU has seen

svars == <<outcome, delivered>>

Outcomes == {"unasked", "open", "answered", "silent", "written", "skipped"}

Open == {n \in Numbers : outcome[n] = "open"}

\* m and everything open before it.
UpTo(m) == {n \in Open : n <= m}

SInit ==
  /\ outcome = [n \in Numbers |-> "unasked"]
  /\ delivered = {}

\* Commands S are asked for, in order; then, if there are too many, the
\* commands D may be skipped.  The PMU has none of them, and at most one
\* command stays open that is older than a skipped one: the one being tried.
Ask(S, D) ==
  /\ \A n \in S : outcome[n] = "unasked"
  /\ \A n \in S, m \in Numbers : m < n => m \in S \/ outcome[m] # "unasked"
  /\ D \subseteq (Open \cup S) \ delivered
  /\ \A n \in D : \A k, m \in (Open \cup S) \ D : k < n /\ m < n => k = m
  /\ outcome' = [n \in Numbers |-> IF n \in D THEN "skipped"
                                   ELSE IF n \in S THEN "open"
                                   ELSE outcome[n]]
  /\ UNCHANGED delivered

\* Command n, the oldest open one, is answered; the PMU has it.
Answer(n) ==
  /\ n \in Open /\ UpTo(n) = {n}
  /\ n \in delivered
  /\ outcome' = [outcome EXCEPT ![n] = "answered"]
  /\ UNCHANGED delivered

\* The oldest open command is given up, and those up to m that ask for no
\* answer are written; either may be missing.
Advance ==
  /\ \E m \in Open : \E first \in {"silent", "written"} :
       outcome' = [n \in Numbers |->
                     IF n \in UpTo(m)
                     THEN IF UpTo(n) = {n} THEN first ELSE "written"
                     ELSE outcome[n]]
  /\ UNCHANGED delivered

\* The PMU sees command n: nothing younger reached it before, and nothing
\* older is still to come.
Deliver(n) ==
  /\ outcome[n] \notin {"unasked", "skipped"}
  /\ \A m \in delivered : m <= n
  /\ \A m \in Open : n <= m
  /\ delivered' = delivered \cup {n}
  /\ UNCHANGED outcome

SNext ==
  \/ \E S, D \in SUBSET Numbers : Ask(S, D)
  \/ Advance
  \/ \E n \in Numbers : Answer(n) \/ Deliver(n)

SSpec == SInit /\ [][SNext]_svars
=============================================================================
