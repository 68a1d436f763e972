------------------------- MODULE UserSettingsProofs -------------------------
(***************************************************************************)
(* Proofs about UserSettings, for every set of event lists and networks    *)
(* and every number of commands, failed saves and restarts: what the user  *)
(* asked for is kept, and the PMU goes by it once it has the newest        *)
(* command; a schedule is never longer than what is kept, nor than what    *)
(* the PMU takes.                                                          *)
(***************************************************************************)
EXTENDS UserSettings, SequenceTheorems, FiniteSetTheorems, WellFoundedInduction,
        TLAPS

(***************************************************************************)
(* Choosing from a list.  Selected is a recursive function; that it is one *)
(* and what it gives are inductions over the list, done as the search for  *)
(* a first position where they fail.                                       *)
(***************************************************************************)
\* What holds at 0, and with a position at the next one, holds at all.
LEMMA Upwards ==
  ASSUME NEW n \in Nat, NEW G, 0 \in G,
         \A i \in 0 .. n - 1 : i \in G => i + 1 \in G
  PROVE  \A i \in 0 .. n : i \in G
<1> DEFINE T == (0 .. n) \ G
<1> SUFFICES ASSUME T # {} PROVE FALSE
  OBVIOUS
<1>1. T \subseteq Nat
  OBVIOUS
<1>2. PICK x \in T : \A y \in T : ~(<<y, x>> \in OpToRel(<, Nat))
  <2> HIDE DEF T
  <2> QED BY <1>1, NatLessThanWellFounded, WFMin
<1>3. \A y \in T : ~(y < x)
  <2> HIDE DEF T
  <2> QED BY <1>1, <1>2 DEF OpToRel
<1>4. x \in 1 .. n /\ x - 1 \in 0 .. n - 1
  OBVIOUS
<1>5. x - 1 \in G
  BY <1>3, <1>4
<1> QED BY <1>4, <1>5

Grows(s, D, f, i) ==
  IF i = 0 THEN <<>> ELSE IF i \in D THEN Append(f[i - 1], s[i]) ELSE f[i - 1]

UpTo(s, D) == CHOOSE f : f = [i \in 0 .. Len(s) |-> Grows(s, D, f, i)]

LEMMA SelectedUpTo ==
  ASSUME NEW s, NEW D
  PROVE  Selected(s, D) = UpTo(s, D)[Len(s)]
BY DEF Selected, UpTo, Grows

LEMMA UpToExists ==
  ASSUME NEW s, NEW D, Len(s) \in Nat
  PROVE  UpTo(s, D) = [i \in 0 .. Len(s) |-> Grows(s, D, UpTo(s, D), i)]
<1> DEFINE n == Len(s)
           G == {k \in 0 .. n : \E f : f = [i \in 0 .. k |-> Grows(s, D, f, i)]}
<1>1. 0 \in G
  <2> DEFINE f == [i \in 0 .. 0 |-> <<>>]
  <2>1. \A i \in 0 .. 0 : Grows(s, D, f, i) = <<>>
    BY DEF Grows
  <2>2. f = [i \in 0 .. 0 |-> Grows(s, D, f, i)]
    BY <2>1
  <2> QED BY <2>2
<1>2. ASSUME NEW k \in 0 .. n - 1, k \in G PROVE k + 1 \in G
  <2>1. PICK f : f = [i \in 0 .. k |-> Grows(s, D, f, i)]
    BY <1>2
  <2> DEFINE g == [i \in 0 .. k + 1 |-> IF i = k + 1 THEN Grows(s, D, f, i) ELSE f[i]]
  <2>2. k \in Nat /\ k + 1 \in 0 .. n
    OBVIOUS
  <2>3. ASSUME NEW i \in 0 .. k + 1 PROVE Grows(s, D, g, i) = Grows(s, D, f, i)
    <3>1. i # 0 => i - 1 \in 0 .. k /\ g[i - 1] = f[i - 1]
      BY <2>2
    <3> HIDE DEF g
    <3> QED BY <3>1 DEF Grows
  <2>4. ASSUME NEW i \in 0 .. k + 1 PROVE g[i] = Grows(s, D, f, i)
    <3>1. CASE i = k + 1
      BY <3>1
    <3>2. CASE i # k + 1
      <4>1. i \in 0 .. k /\ g[i] = f[i]
        BY <2>2, <3>2
      <4> HIDE DEF g
      <4> QED BY <2>1, <4>1
    <3> QED BY <3>1, <3>2
  <2>5. g = [i \in 0 .. k + 1 |-> Grows(s, D, g, i)]
    <3>1. g = [i \in 0 .. k + 1 |-> g[i]]
      OBVIOUS
    <3> HIDE DEF g
    <3> QED BY <2>3, <2>4, <3>1
  <2> HIDE DEF g
  <2> QED BY <2>2, <2>5
<1>3. n \in G
  <2>1. n \in Nat
    OBVIOUS
  <2> HIDE DEF G, n
  <2>2. \A i \in 0 .. n - 1 : i \in G => i + 1 \in G
    BY <1>2
  <2>3. \A i \in 0 .. n : i \in G
    BY <1>1, <2>1, <2>2, Upwards
  <2> QED BY <2>1, <2>3
<1> QED BY <1>3 DEF UpTo

\* A choice r from s at the positions D: h says where each element is from.
Chooses(S, s, D, r, h) ==
  /\ r \in Seq(S) /\ h \in [1 .. Len(r) -> D]
  /\ \A i, j \in 1 .. Len(r) : i < j => h[i] < h[j]
  /\ \A d \in D : \E i \in 1 .. Len(r) : h[i] = d
  /\ \A i \in 1 .. Len(r) : r[i] = s[h[i]]

LEMMA ChoosesMore ==
  ASSUME NEW S, NEW s \in Seq(S), NEW D \in SUBSET Nat, NEW r, NEW h,
         Chooses(S, s, D, r, h), NEW d \in 1 .. Len(s), \A e \in D : e < d
  PROVE  \E g : Chooses(S, s, D \cup {d}, Append(r, s[d]), g)
<1> DEFINE n == Len(r)
           q == Append(r, s[d])
           g == [i \in 1 .. n + 1 |-> IF i = n + 1 THEN d ELSE h[i]]
<1>1. r \in Seq(S) /\ n \in Nat /\ s[d] \in S
  BY DEF Chooses
<1>2. /\ q \in Seq(S) /\ Len(q) = n + 1 /\ q[n + 1] = s[d]
      /\ \A i \in 1 .. n : q[i] = r[i]
  BY <1>1
<1>3. /\ g[n + 1] = d
      /\ \A i \in 1 .. n : g[i] = h[i] /\ h[i] \in D
  BY <1>1 DEF Chooses
<1>4. \A i \in 1 .. n + 1 : i = n + 1 \/ i \in 1 .. n
  BY <1>1
<1>5. g \in [1 .. n + 1 -> D \cup {d}]
  <2>1. \A i \in 1 .. n + 1 : g[i] \in D \cup {d}
    BY <1>3, <1>4
  <2>2. g = [i \in 1 .. n + 1 |-> g[i]]
    OBVIOUS
  <2> HIDE DEF g
  <2> QED BY <2>1, <2>2
<1> HIDE DEF g, q
<1>6. \A i, j \in 1 .. n + 1 : i < j => g[i] < g[j]
  <2> TAKE i, j \in 1 .. n + 1
  <2> HAVE i < j
  <2>1. i \in 1 .. n
    BY <1>1
  <2>2. CASE j = n + 1
    BY <1>3, <2>1, <2>2
  <2>3. CASE j \in 1 .. n
    BY <1>3, <2>1, <2>3 DEF Chooses
  <2> QED BY <1>4, <2>2, <2>3
<1>7. \A e \in D \cup {d} : \E i \in 1 .. n + 1 : g[i] = e
  <2>1. \A e \in D : \E i \in 1 .. n : g[i] = e
    BY <1>3 DEF Chooses
  <2>2. n + 1 \in 1 .. n + 1 /\ \A i \in 1 .. n : i \in 1 .. n + 1
    BY <1>1
  <2> QED BY <1>3, <2>1, <2>2
<1>8. \A i \in 1 .. n + 1 : q[i] = s[g[i]]
  BY <1>2, <1>3, <1>4 DEF Chooses
<1>9. Chooses(S, s, D \cup {d}, q, g)
  <2> HIDE DEF n
  <2> QED BY <1>2, <1>5, <1>6, <1>7, <1>8 DEF Chooses
<1> QED BY <1>9 DEF q

\* What is selected: the elements at these positions, in their order.
LEMMA SelectedIs ==
  ASSUME NEW S, NEW s \in Seq(S), NEW D \in SUBSET (1 .. Len(s))
  PROVE  \E h : Chooses(S, s, D, Selected(s, D), h)
<1> DEFINE n == Len(s)
           u == UpTo(s, D)
           Before(i) == D \cap (1 .. i)
           G == {i \in 0 .. n : \E h : Chooses(S, s, Before(i), u[i], h)}
<1>1. n \in Nat
  OBVIOUS
<1>2. \A i \in 0 .. n : u[i] = Grows(s, D, u, i)
  BY <1>1, UpToExists
<1> HIDE DEF u
<1>3. 0 \in G
  <2>1. u[0] = <<>>
    BY <1>1, <1>2 DEF Grows
  <2>2. Before(0) = {}
    OBVIOUS
  <2>3. Chooses(S, s, {}, <<>>, <<>>)
    BY DEF Chooses
  <2>4. \E h : Chooses(S, s, Before(0), u[0], h)
    BY <2>1, <2>2, <2>3
  <2> HIDE DEF Before
  <2> QED BY <1>1, <2>4
<1>4. ASSUME NEW i \in 0 .. n - 1, i \in G PROVE i + 1 \in G
  <2>1. PICK h : Chooses(S, s, Before(i), u[i], h)
    BY <1>4
  <2>2. i + 1 \in 1 .. n /\ i + 1 \in 0 .. n /\ i + 1 # 0 /\ i + 1 - 1 = i
    BY <1>1
  <2>3. CASE i + 1 \in D
    <3>1. u[i + 1] = Append(u[i], s[i + 1])
      <4>1. u[i + 1] = Grows(s, D, u, i + 1)
        BY <1>2, <2>2
      <4> QED BY <2>2, <2>3, <4>1 DEF Grows
    <3>2. Before(i + 1) = Before(i) \cup {i + 1}
      BY <1>1, <2>2, <2>3
    <3>3. Before(i) \in SUBSET Nat /\ \A e \in Before(i) : e < i + 1
      OBVIOUS
    <3> HIDE DEF Before
    <3>4. \E g : Chooses(S, s, Before(i) \cup {i + 1}, Append(u[i], s[i + 1]), g)
      BY <2>1, <2>2, <3>3, ChoosesMore
    <3> QED BY <2>2, <3>1, <3>2, <3>4
  <2>4. CASE i + 1 \notin D
    <3>1. u[i + 1] = u[i]
      <4>1. u[i + 1] = Grows(s, D, u, i + 1)
        BY <1>2, <2>2
      <4> QED BY <2>2, <2>4, <4>1 DEF Grows
    <3>2. Before(i + 1) = Before(i)
      BY <1>1, <2>2, <2>4
    <3> QED BY <2>1, <2>2, <3>1, <3>2
  <2> QED BY <2>3, <2>4
<1>5. n \in G
  <2> HIDE DEF G, n
  <2>1. \A i \in 0 .. n - 1 : i \in G => i + 1 \in G
    BY <1>4
  <2>2. \A i \in 0 .. n : i \in G
    BY <1>1, <1>3, <2>1, Upwards
  <2> QED BY <1>1, <2>2
<1>6. Before(n) = D
  BY <1>1
<1> QED BY <1>5, <1>6, SelectedUpTo DEF u

\* A set of positions that is not empty has a last one.
LEMMA Greatest ==
  ASSUME NEW n \in Nat, NEW K \in SUBSET (1 .. n), K # {}
  PROVE  \E m \in K : \A k \in K : k <= m
<1> DEFINE T == {n - k : k \in K}
<1>1. T \subseteq Nat /\ T # {}
  <2>1. \A k \in K : n - k \in Nat
    OBVIOUS
  <2> QED BY <2>1
<1>2. PICK x \in T : \A y \in T : ~(<<y, x>> \in OpToRel(<, Nat))
  <2> HIDE DEF T
  <2> QED BY <1>1, NatLessThanWellFounded, WFMin
<1>3. \A y \in T : ~(y < x)
  BY <1>1, <1>2 DEF OpToRel
<1>4. PICK m \in K : x = n - m
  OBVIOUS
<1>5. \A k \in K : n - k \in T
  OBVIOUS
<1>6. \A k \in K : ~(n - k < n - m)
  BY <1>3, <1>4, <1>5
<1> QED BY <1>6

\* As many positions as the list is long.
LEMMA Positions ==
  ASSUME NEW n \in Nat
  PROVE  IsFiniteSet(1 .. n) /\ Cardinality(1 .. n) = n
<1>1. 1 \in Int /\ n \in Int
  OBVIOUS
<1>2. IsFiniteSet(1 .. n) /\ Cardinality(1 .. n) = IF 1 > n THEN 0 ELSE n - 1 + 1
  BY <1>1, FS_Interval, Zenon
<1> QED BY <1>2

\* Numbers of positions are no more than those they are mapped to.
LEMMA MappedInto ==
  ASSUME NEW n \in Nat, NEW K \in SUBSET (1 .. n), NEW J, IsFiniteSet(J), NEW h,
         \A k \in K : h[k] \in J,
         \A i, j \in K : i < j => h[i] # h[j]
  PROVE  IsFiniteSet(K) /\ Cardinality(K) <= Cardinality(J)
<1> DEFINE g == [k \in K |-> h[k]]
<1>1. g \in [K -> J]
  OBVIOUS
<1>2. \A i, j \in K : g[i] = g[j] => i = j
  <2> TAKE i, j \in K
  <2> HAVE g[i] = g[j]
  <2>1. ~(i < j) /\ ~(j < i)
    OBVIOUS
  <2> QED BY <2>1
<1> HIDE DEF g
<1>3. g \in Injection(K, J)
  BY <1>1, <1>2 DEF Injection, IsInjective
<1> QED BY <1>3, FS_Injection
-----------------------------------------------------------------------------
(***************************************************************************)
(* A configuration fits if its schedule has no more than KeptMax events of *)
(* an action.                                                              *)
(***************************************************************************)
Short(schedule) ==
  \A on \in BOOLEAN :
    Cardinality({i \in DOMAIN schedule : schedule[i].on = on}) <= KeptMax

Fits(c) == c \in Settings /\ Short(c.schedule)

LEMMA EventTypes ==
  ASSUME NEW nodes \in EventLists, NEW stack \in BOOLEAN,
         NEW i \in 1 .. Len(nodes)
  PROVE  EventOf(nodes, stack, i) \in Events
<1>1. nodes \in Seq(Nodes)
  BY NodesAssumption
<1>2. nodes[i] \in Nodes
  BY <1>1
<1>3. /\ nodes[i].enabled \in BOOLEAN /\ nodes[i].minute \in BOOLEAN
      /\ nodes[i].at \in {x.at : x \in Nodes}
  BY <1>2, NodesAssumption
<1>4. IsOn(nodes, stack, i) \in BOOLEAN
  BY DEF IsOn
<1> QED BY <1>3, <1>4 DEF EventOf, Events

\* A client's list, cut.
LEMMA ScheduleFits ==
  ASSUME NEW nodes \in EventLists, NEW stack \in BOOLEAN
  PROVE  ScheduleOf(nodes, stack) \in Seq(Events) /\ Short(ScheduleOf(nodes, stack))
<1> DEFINE n == Len(nodes)
           s == [i \in 1 .. n |-> EventOf(nodes, stack, i)]
           D == {i \in 1 .. n : IsKept(nodes, stack, i)}
           r == ScheduleOf(nodes, stack)
           on(i) == IsOn(nodes, stack, i)
<1>1. n \in Nat
  BY NodesAssumption
<1>2. /\ s \in Seq(Events) /\ Len(s) = n
      /\ \A i \in 1 .. n : s[i].on = on(i)
  <2>1. \A i \in 1 .. n : EventOf(nodes, stack, i) \in Events
    BY EventTypes
  <2>2. s \in [1 .. n -> Events]
    BY <2>1
  <2>3. \A i \in 1 .. n : s[i].on = on(i)
    BY DEF EventOf
  <2> HIDE DEF s
  <2>4. s \in Seq(Events) /\ Len(s) = n
    BY <1>1, <2>2
  <2> QED BY <2>3, <2>4
<1>3. D \in SUBSET (1 .. n)
  OBVIOUS
<1>4. r = Selected(s, D)
  BY DEF ScheduleOf
<1> HIDE DEF s
<1>5. PICK h : Chooses(Events, s, D, r, h)
  <2> HIDE DEF D, n, r
  <2> QED BY <1>2, <1>3, <1>4, SelectedIs
<1> HIDE DEF r
<1>6. /\ r \in Seq(Events) /\ Len(r) \in Nat /\ DOMAIN r = 1 .. Len(r)
      /\ \A i \in 1 .. Len(r) : h[i] \in D /\ h[i] \in 1 .. n /\ r[i].on = on(h[i])
      /\ \A i, j \in 1 .. Len(r) : i < j => h[i] < h[j]
  <2>1. \A i \in 1 .. Len(r) : h[i] \in D /\ r[i] = s[h[i]]
    BY <1>5 DEF Chooses
  <2>2. \A i \in 1 .. Len(r) : h[i] \in 1 .. n
    BY <2>1
  <2> HIDE DEF D, n
  <2> QED BY <1>2, <1>5, <2>1, <2>2 DEF Chooses
<1> HIDE DEF on, n
<1>7. ASSUME NEW b \in BOOLEAN
      PROVE  Cardinality({i \in DOMAIN r : r[i].on = b}) <= KeptMax
  <2> DEFINE K == {i \in 1 .. Len(r) : r[i].on = b}
  <2>0. {i \in DOMAIN r : r[i].on = b} = K
    BY <1>6
  <2>1. CASE K = {}
    <3>1. Cardinality(K) = 0
      BY <2>1, FS_EmptySet
    <3> HIDE DEF K
    <3> QED BY <2>0, <3>1, LimitsAssumption
  <2>2. CASE K # {}
    <3>1. PICK m \in K : \A k \in K : k <= m
      <4>1. K \in SUBSET (1 .. Len(r))
        OBVIOUS
      <4> HIDE DEF K
      <4> QED BY <1>6, <2>2, <4>1, Greatest
    <3> DEFINE J == {j \in 1 .. h[m] : on(j) = on(h[m])}
    <3>2. m \in 1 .. Len(r) /\ on(h[m]) = b /\ h[m] \in D /\ h[m] \in 1 .. n
      BY <1>6, <3>1
    <3>3. Cardinality(J) <= KeptMax
      <4>1. IsKept(nodes, stack, h[m])
        BY <3>2
      <4> QED BY <4>1 DEF IsKept, on
    <3>4. IsFiniteSet(J) /\ Cardinality(J) \in Nat
      <4>1. h[m] \in Nat
        BY <1>1, <3>2
      <4>2. IsFiniteSet(1 .. h[m])
        BY <4>1, Positions
      <4>3. J \in SUBSET (1 .. h[m])
        OBVIOUS
      <4> HIDE DEF J
      <4> QED BY <4>2, <4>3, FS_Subset, FS_CardinalityType
    <3>5. ASSUME NEW k \in K PROVE h[k] \in J
      <4>1. /\ k \in 1 .. Len(r) /\ on(h[k]) = b /\ h[k] \in 1 .. n
            /\ k = m \/ k < m
        BY <1>6, <3>1, <3>2
      <4>2. h[k] = h[m] \/ h[k] < h[m]
        BY <1>6, <3>2, <4>1
      <4>3. h[k] \in 1 .. h[m]
        BY <1>1, <3>2, <4>1, <4>2
      <4> QED BY <3>2, <4>1, <4>3
    <3>6. \A i, j \in K : i < j => h[i] # h[j]
      <4>1. \A i, j \in K : i < j => h[i] < h[j] /\ h[i] \in Int
        BY <1>1, <1>6
      <4>2. \A x \in Int : ~(x < x)
        OBVIOUS
      <4> HIDE DEF K
      <4> QED BY <4>1, <4>2
    <3>7. K \in SUBSET (1 .. Len(r))
      OBVIOUS
    <3> HIDE DEF J, K
    <3>8. IsFiniteSet(K) /\ Cardinality(K) <= Cardinality(J)
      BY <1>6, <3>4, <3>5, <3>6, <3>7, MappedInto
    <3>9. Cardinality(K) \in Nat
      BY <3>8, FS_CardinalityType
    <3>10. Cardinality(K) <= KeptMax
      BY <3>3, <3>4, <3>8, <3>9, LimitsAssumption
    <3> QED BY <2>0, <3>10
  <2> QED BY <2>1, <2>2
<1> QED BY <1>6, <1>7 DEF Short, r

-----------------------------------------------------------------------------
(***************************************************************************)
(* The file.                                                               *)
(***************************************************************************)
Fields == {"schedule", "state", "timeout", "network"}

\* Settings as far as the file is concerned: the fields, and a schedule that
\* is a function of its positions.
IsConfig(c) ==
  /\ c = [schedule |-> c.schedule, state |-> c.state, timeout |-> c.timeout,
          network |-> c.network]
  /\ c.schedule = [i \in DOMAIN c.schedule |-> c.schedule[i]]

Saved(s) ==
  [i \in DOMAIN s |-> [on |-> s[i].on, minute |-> s[i].minute, at |-> s[i].at]]

\* What is written, field by field.
LEMMA WrittenFields ==
  ASSUME NEW c, IsConfig(c)
  PROVE  Written(c) = [schedule |-> Saved(c.schedule), state |-> c.state,
                       timeout |-> c.timeout, network |-> c.network]
<1> DEFINE r == [schedule |-> c.schedule, state |-> c.state,
                 timeout |-> c.timeout, network |-> c.network]
<1>1. c = r
  BY DEF IsConfig
<1>2. \A v : [r EXCEPT !.schedule = v]
            = [schedule |-> v, state |-> r.state, timeout |-> r.timeout,
               network |-> r.network]
  OBVIOUS
<1>3. Written(c) = [c EXCEPT !.schedule = Saved(c.schedule)]
  BY DEF Written, Saved
<1> HIDE DEF r
<1> QED BY <1>1, <1>2, <1>3

\* Writing what was loaded from a file that was written changes nothing.
LEMMA WrittenTwice ==
  ASSUME NEW c, IsConfig(c)
  PROVE  IsConfig(Loaded(Written(c))) /\ Written(Loaded(Written(c))) = Written(c)
<1> DEFINE w == Written(c)
           s == Saved(c.schedule)
           ls == [i \in DOMAIN s |-> [on |-> s[i].on, enabled |-> s[i].minute,
                                      minute |-> s[i].minute, at |-> s[i].at]]
<1>1. w = [schedule |-> s, state |-> c.state, timeout |-> c.timeout,
           network |-> c.network]
  BY WrittenFields
<1>2. Loaded(w) = [schedule |-> ls, state |-> c.state, timeout |-> c.timeout,
                   network |-> c.network]
  BY <1>1 DEF Loaded
<1>3. IsConfig(Loaded(w))
  BY <1>2 DEF IsConfig
<1>4. Saved(ls) = s
  <2>1. DOMAIN ls = DOMAIN s /\ DOMAIN s = DOMAIN c.schedule
    BY DEF Saved
  <2>2. \A i \in DOMAIN s : /\ s[i] = [on |-> c.schedule[i].on,
                                      minute |-> c.schedule[i].minute,
                                      at |-> c.schedule[i].at]
                            /\ ls[i] = [on |-> s[i].on, enabled |-> s[i].minute,
                                        minute |-> s[i].minute, at |-> s[i].at]
    BY DEF Saved
  <2>3. Saved(ls) = [i \in DOMAIN s |-> [on |-> ls[i].on, minute |-> ls[i].minute,
                                         at |-> ls[i].at]]
    BY <2>1 DEF Saved
  <2>4. \A i \in DOMAIN s : [on |-> ls[i].on, minute |-> ls[i].minute,
                             at |-> ls[i].at] = s[i]
    <3> TAKE i \in DOMAIN s
    <3>1. s[i] = [on |-> c.schedule[i].on, minute |-> c.schedule[i].minute,
                  at |-> c.schedule[i].at]
      BY <2>2
    <3>2. ls[i].on = s[i].on /\ ls[i].minute = s[i].minute /\ ls[i].at = s[i].at
      BY <2>2
    <3> HIDE DEF s, ls
    <3> QED BY <3>1, <3>2
  <2>5. Saved(ls) = [i \in DOMAIN s |-> s[i]]
    BY <2>3, <2>4
  <2> QED BY <2>5 DEF Saved
<1>5. Written(Loaded(w)) = [schedule |-> Saved(ls), state |-> c.state,
                            timeout |-> c.timeout, network |-> c.network]
  <2> HIDE DEF ls, w
  <2>1. Loaded(w).schedule = ls
    BY <1>2
  <2> QED BY <1>2, <1>3, <2>1, WrittenFields
<1> QED BY <1>1, <1>3, <1>4, <1>5

\* Two configurations are written alike if the fields are, but for what the
\* file has no key for.
LEMMA WrittenAlike ==
  ASSUME NEW c, NEW d, IsConfig(c), IsConfig(d)
  PROVE  Written(c) = Written(d) <=>
           /\ Saved(c.schedule) = Saved(d.schedule) /\ c.state = d.state
           /\ c.timeout = d.timeout /\ c.network = d.network
<1>1. /\ Written(c).schedule = Saved(c.schedule) /\ Written(c).state = c.state
      /\ Written(c).timeout = c.timeout /\ Written(c).network = c.network
  BY WrittenFields
<1>2. /\ Written(d).schedule = Saved(d.schedule) /\ Written(d).state = d.state
      /\ Written(d).timeout = d.timeout /\ Written(d).network = d.network
  BY WrittenFields
<1>3. ASSUME Saved(c.schedule) = Saved(d.schedule), c.state = d.state,
             c.timeout = d.timeout, c.network = d.network
      PROVE  Written(c) = Written(d)
  BY <1>3, WrittenFields
<1> QED BY <1>1, <1>2, <1>3

\* What the commands do to a configuration.
LEMMA ScheduleChanged ==
  ASSUME NEW c, IsConfig(c), NEW s, s = [i \in DOMAIN s |-> s[i]],
         NEW new, new = [c EXCEPT !.schedule = s]
  PROVE  /\ IsConfig(new) /\ new.schedule = s /\ new.state = c.state
         /\ new.timeout = c.timeout /\ new.network = c.network
<1> DEFINE r == [schedule |-> c.schedule, state |-> c.state,
                 timeout |-> c.timeout, network |-> c.network]
<1>1. c = r
  BY DEF IsConfig
<1>2. [r EXCEPT !.schedule = s] = [schedule |-> s, state |-> c.state,
                                   timeout |-> c.timeout, network |-> c.network]
  OBVIOUS
<1>3. new = [schedule |-> s, state |-> c.state, timeout |-> c.timeout,
             network |-> c.network]
  BY <1>1, <1>2
<1> QED BY <1>3 DEF IsConfig

LEMMA NetworkChanged ==
  ASSUME NEW c, IsConfig(c), NEW n, NEW new, new = [c EXCEPT !.network = n]
  PROVE  /\ IsConfig(new) /\ new.schedule = c.schedule /\ new.state = c.state
         /\ new.timeout = c.timeout /\ new.network = n
<1> DEFINE r == [schedule |-> c.schedule, state |-> c.state,
                 timeout |-> c.timeout, network |-> c.network]
<1>1. c = r
  BY DEF IsConfig
<1>2. [r EXCEPT !.network = n] = [schedule |-> c.schedule, state |-> c.state,
                                  timeout |-> c.timeout, network |-> n]
  OBVIOUS
<1>3. new = [schedule |-> c.schedule, state |-> c.state, timeout |-> c.timeout,
             network |-> n]
  BY <1>1, <1>2
<1> QED BY <1>3 DEF IsConfig

LEMMA ChargerChanged ==
  ASSUME NEW c, IsConfig(c), NEW given, NEW state, NEW timeout,
         NEW new, new = Charged(c, given, state, timeout)
  PROVE  /\ IsConfig(new) /\ new.schedule = c.schedule /\ new.network = c.network
         /\ new.state = (IF "state" \in given THEN state ELSE c.state)
         /\ new.timeout = (IF "timeout" \in given THEN timeout ELSE c.timeout)
BY DEF IsConfig, Charged
-----------------------------------------------------------------------------
(***************************************************************************)
(* What the user asked for is kept.  The invariant is SettingsKept with    *)
(* what a restart needs of the file: unless the last command could not     *)
(* save, the file holds what is in memory.                                 *)
(***************************************************************************)
KInv ==
  /\ up \in BOOLEAN /\ failed \in BOOLEAN
  /\ IsConfig(cfg) /\ IsConfig(wish) /\ IsConfig(InFile)
  /\ up => /\ dirty = failed
           /\ Written(cfg) = Written(wish)
           /\ ~failed => Written(InFile) = Written(cfg)
  /\ ~up => Written(InFile) = Written(wish)

\* A command leaves in the file what it leaves in memory, or knows it failed.
LEMMA SyncSaves ==
  ASSUME IsConfig(InFile), NEW c, IsConfig(c), NEW d \in BOOLEAN, Sync(c, d),
         ~d => Written(InFile) = Written(c)
  PROVE  /\ IsConfig(InFile') /\ failed' \in BOOLEAN /\ dirty' = failed'
         /\ ~failed' => Written(InFile') = Written(c)
<1>1. CASE file' = <<Written(c)>> /\ failed' = FALSE
  <2>1. InFile' = Loaded(Written(c))
    BY <1>1 DEF InFile
  <2> QED BY <1>1, <2>1, WrittenTwice DEF Sync
<1>2. CASE ~d /\ file' = file /\ failed' = FALSE
  <2>1. InFile' = InFile
    BY <1>2 DEF InFile
  <2> QED BY <1>2, <2>1 DEF Sync
<1>3. CASE file' = file /\ failed' = TRUE
  <2>1. InFile' = InFile
    BY <1>3 DEF InFile
  <2> QED BY <1>3, <2>1 DEF Sync
<1> QED BY <1>1, <1>2, <1>3 DEF Sync

\* The common part of the three commands.
LEMMA CommandKeeps ==
  ASSUME KInv, up, up' = up, IsConfig(cfg'), IsConfig(wish'),
         Written(cfg') = Written(wish'), NEW d \in BOOLEAN, Sync(cfg', d),
         ~d => Written(InFile) = Written(cfg')
  PROVE  KInv'
<1>1. /\ IsConfig(InFile') /\ failed' \in BOOLEAN /\ dirty' = failed'
      /\ ~failed' => Written(InFile') = Written(cfg')
  BY SyncSaves DEF KInv
<1> QED BY <1>1 DEF KInv

LEMMA SetScheduleKeeps ==
  ASSUME KInv, NEW nodes \in EventLists, NEW stack \in BOOLEAN,
         SetSchedule(nodes, stack)
  PROVE  KInv'
<1> DEFINE s == ScheduleOf(nodes, stack)
           new == [cfg EXCEPT !.schedule = s]
<1>1. s = [i \in DOMAIN s |-> s[i]]
  <2>1. s \in Seq(Events)
    BY ScheduleFits
  <2> HIDE DEF s
  <2> QED BY <2>1
<1>2. up /\ up' = up /\ cfg' = new /\ Sync(new, TRUE)
  BY DEF SetSchedule, Handle
<1>3. wish' = [wish EXCEPT !.schedule = new.schedule]
  BY DEF SetSchedule
<1> HIDE DEF s
<1>4. /\ IsConfig(new) /\ new.schedule = s /\ new.state = cfg.state
      /\ new.timeout = cfg.timeout /\ new.network = cfg.network
  BY <1>1, ScheduleChanged DEF KInv
<1> HIDE DEF new
<1>5. /\ IsConfig(wish') /\ wish'.schedule = s /\ wish'.state = wish.state
      /\ wish'.timeout = wish.timeout /\ wish'.network = wish.network
  BY <1>1, <1>3, <1>4, ScheduleChanged DEF KInv
<1>6. Written(new) = Written(wish')
  BY <1>2, <1>4, <1>5, WrittenAlike DEF KInv
<1> QED BY <1>2, <1>4, <1>5, <1>6, CommandKeeps

LEMMA SetChargerKeeps ==
  ASSUME KInv, NEW given, NEW state, NEW timeout,
         SetCharger(given, state, timeout)
  PROVE  KInv'
<1> DEFINE d == dirty \/ given # {}
<1>1. /\ up /\ up' = up /\ Sync(cfg', d)
      /\ cfg' = Charged(cfg, given, state, timeout)
      /\ wish' = Charged(wish, given, state, timeout)
  BY DEF SetCharger, Handle
<1>2. /\ IsConfig(cfg') /\ cfg'.schedule = cfg.schedule
      /\ cfg'.network = cfg.network
      /\ cfg'.state = (IF "state" \in given THEN state ELSE cfg.state)
      /\ cfg'.timeout = (IF "timeout" \in given THEN timeout ELSE cfg.timeout)
  BY <1>1, ChargerChanged DEF KInv
<1>3. /\ IsConfig(wish') /\ wish'.schedule = wish.schedule
      /\ wish'.network = wish.network
      /\ wish'.state = (IF "state" \in given THEN state ELSE wish.state)
      /\ wish'.timeout = (IF "timeout" \in given THEN timeout ELSE wish.timeout)
  BY <1>1, ChargerChanged DEF KInv
<1>4. Written(cfg') = Written(wish')
  BY <1>1, <1>2, <1>3, WrittenAlike DEF KInv
<1>5. ASSUME ~d PROVE Written(InFile) = Written(cfg')
  <2>1. given = {} /\ ~failed
    BY <1>1, <1>5 DEF KInv
  <2>2. Written(cfg') = Written(cfg)
    BY <1>2, <2>1, WrittenAlike DEF KInv
  <2> QED BY <1>1, <2>1, <2>2 DEF KInv
<1>6. d \in BOOLEAN
  BY <1>1 DEF KInv
<1> QED BY <1>1, <1>2, <1>3, <1>4, <1>5, <1>6, CommandKeeps

LEMMA SetNetworkKeeps ==
  ASSUME KInv, NEW n, SetNetwork(n)
  PROVE  KInv'
<1>1. /\ up /\ up' = up /\ Sync(cfg', TRUE)
      /\ cfg' = [cfg EXCEPT !.network = n]
      /\ wish' = [wish EXCEPT !.network = n]
  BY DEF SetNetwork, Handle
<1>2. /\ IsConfig(cfg') /\ cfg'.schedule = cfg.schedule
      /\ cfg'.state = cfg.state /\ cfg'.timeout = cfg.timeout /\ cfg'.network = n
  BY <1>1, NetworkChanged DEF KInv
<1>3. /\ IsConfig(wish') /\ wish'.schedule = wish.schedule
      /\ wish'.state = wish.state /\ wish'.timeout = wish.timeout
      /\ wish'.network = n
  BY <1>1, NetworkChanged DEF KInv
<1>4. /\ Saved(cfg.schedule) = Saved(wish.schedule)
      /\ cfg.state = wish.state /\ cfg.timeout = wish.timeout
  BY <1>1, WrittenAlike DEF KInv
<1>5. Written(cfg') = Written(wish')
  BY <1>2, <1>3, <1>4, WrittenAlike
<1> QED BY <1>1, <1>2, <1>3, <1>5, CommandKeeps

LEMMA DefaultsAreConfig == IsConfig(Defaults)
BY DEF IsConfig, Defaults

\* The invariant holds.
LEMMA KInvHolds == Spec => []KInv
<1>1. Init => KInv
  BY DefaultsAreConfig DEF Init, KInv, InFile
<1>2. KInv /\ [Next]_vars => KInv'
  <2> SUFFICES ASSUME KInv, [Next]_vars PROVE KInv'
    OBVIOUS
  <2>1. ASSUME NEW l \in EventLists, NEW stack \in BOOLEAN, SetSchedule(l, stack)
        PROVE  KInv'
    BY <2>1, SetScheduleKeeps
  <2>2. ASSUME NEW given \in SUBSET {"state", "timeout"}, NEW s \in BOOLEAN,
               NEW t \in 0 .. 1, SetCharger(given, s, t)
        PROVE  KInv'
    BY <2>2, SetChargerKeeps
  <2>3. ASSUME NEW w \in Networks \cup {NoNetwork}, SetNetwork(w)
        PROVE  KInv'
    BY <2>3, SetNetworkKeeps
  <2>4. CASE End
    <3>1. InFile' = InFile
      BY <2>4 DEF End, InFile
    <3>2. /\ up /\ up' = FALSE /\ cfg' = Defaults /\ failed' = failed
          /\ wish' = IF failed THEN InFile ELSE wish
      BY <2>4 DEF End
    <3> QED BY <3>1, <3>2, DefaultsAreConfig DEF KInv
  <2>5. CASE Start
    <3>1. InFile' = InFile
      BY <2>5 DEF Start, InFile
    <3>2. /\ ~up /\ up' = TRUE /\ cfg' = InFile /\ dirty' = FALSE
          /\ failed' = FALSE /\ wish' = wish
      BY <2>5 DEF Start
    <3> QED BY <3>1, <3>2 DEF KInv
  <2>6. ASSUME NEW n \in Numbers, PmuReceives(n)
        PROVE  KInv'
    BY <2>6 DEF PmuReceives, KInv, InFile
  <2>7. CASE UNCHANGED vars
    BY <2>7 DEF vars, setVars, KInv, InFile
  <2> QED BY <2>1, <2>2, <2>3, <2>4, <2>5, <2>6, <2>7 DEF Next
<1> QED BY <1>1, <1>2, PTL DEF Spec

\* What the user asked for is in memory, over restarts and failed saves.
THEOREM SettingsAreKept == Spec => []SettingsKept
<1>1. KInv => SettingsKept
  BY DEF KInv, SettingsKept
<1> QED BY <1>1, KInvHolds, PTL
-----------------------------------------------------------------------------
(***************************************************************************)
(* The PMU goes by the newest command it has.  For a kind w of command and *)
(* the value v it should have: if the newest was reached, the PMU has v    *)
(* and nothing of the kind is still to come; and the newest that is still  *)
(* to come, if any, says v.                                                *)
(***************************************************************************)
Newest(w, n) ==
  content[n].what = w /\ \A m \in asked : n < m => content[m].what # w

Settled(w, v) ==
  /\ reached[w] => pmu[w] = v /\ \A n \in asked : content[n].what # w
  /\ \A n \in asked : Newest(w, n) => content[n].value = v

\* The same after a step, for a value that may be one after it, too.
SettledAfter(w, v) ==
  /\ reached'[w] => pmu'[w] = v /\ \A n \in asked' : content'[n].what # w
  /\ \A n \in asked' : Newest(w, n)' => content'[n].value = v

\* The commands are asked for without gaps.
FTypes ==
  /\ asked \subseteq Numbers
  /\ \A n \in asked, m \in Numbers : m < n => m \in asked
  /\ reached \in [Kinds -> BOOLEAN]
  /\ pmu = [list |-> pmu.list, auto |-> pmu.auto]
  /\ content = [n \in Numbers |-> content[n]]

\* A tuple of commands that Tell may be given.
IsTuple(new) == Len(new) \in Nat /\ DOMAIN new = 1 .. Len(new)

\* What is told comes after all that was asked for, and nothing else changes.
LEMMA TellSays ==
  ASSUME FTypes, NEW new, IsTuple(new), new # <<>>, Tell(new)
  PROVE  \E first \in Numbers :
           LET N == first .. first + Len(new) - 1
           IN  /\ N \subseteq Numbers /\ asked' = asked \cup N
               /\ \A n \in N, m \in asked : m < n
               /\ content' = [n \in Numbers |-> IF n \in N THEN new[n - first + 1]
                                                ELSE content[n]]
               /\ reached' = [w \in Kinds |-> reached[w] /\ \A i \in DOMAIN new :
                                                              new[i].what # w]
<1>1. PICK first \in Numbers \ asked :
        LET N == first .. first + Len(new) - 1
        IN  /\ LAsk(N)
            /\ content' = [n \in Numbers |-> IF n \in N THEN new[n - first + 1]
                                             ELSE content[n]]
            /\ reached' = [w \in Kinds |-> reached[w] /\ \A i \in DOMAIN new :
                                                           new[i].what # w]
  BY DEF Tell
<1> DEFINE N == first .. first + Len(new) - 1
<1>2. N \subseteq Numbers /\ asked' = asked \cup N /\ N \cap asked = {}
  BY <1>1 DEF LAsk
<1>3. \A n \in N, m \in asked : m < n
  <2> TAKE n \in N, m \in asked
  <2>1. n \in Numbers /\ m \in Numbers /\ n # m /\ n \notin asked
    BY <1>2 DEF FTypes
  <2>2. ~(n < m)
    BY <2>1 DEF FTypes
  <2> QED BY <2>1, <2>2, NumbersAssumption
<1> QED BY <1>1, <1>2, <1>3

LEMMA TellTypes ==
  ASSUME FTypes, NEW new, IsTuple(new), Tell(new), pmu' = [list |-> pmu'.list,
         auto |-> pmu'.auto]
  PROVE  FTypes'
<1>1. CASE new = <<>>
  BY <1>1 DEF Tell, FTypes, lvars
<1>2. CASE new # <<>>
  <2>1. PICK first \in Numbers :
          LET N == first .. first + Len(new) - 1
          IN  /\ LAsk(N)
              /\ content' = [n \in Numbers |-> IF n \in N THEN new[n - first + 1]
                                               ELSE content[n]]
              /\ reached' = [w \in Kinds |-> reached[w] /\ \A i \in DOMAIN new :
                                                             new[i].what # w]
    BY <1>2 DEF Tell
  <2>2. \A n \in asked', m \in Numbers : m < n => m \in asked'
    BY <2>1 DEF LAsk, FTypes
  <2>3. asked' \subseteq Numbers
    BY <2>1 DEF LAsk, FTypes
  <2>4. reached' \in [Kinds -> BOOLEAN]
    BY <2>1 DEF FTypes
  <2>5. content' = [n \in Numbers |-> content'[n]]
    BY <2>1
  <2> QED BY <2>2, <2>3, <2>4, <2>5 DEF FTypes
<1> QED BY <1>1, <1>2

\* A kind that is told is settled at what is told.
LEMMA TellSettles ==
  ASSUME FTypes, NEW new, IsTuple(new), Tell(new),
         NEW w \in Kinds, NEW v, NEW k \in DOMAIN new, new[k].what = w,
         \A i \in DOMAIN new : new[i].what = w => new[i].value = v
  PROVE  SettledAfter(w, v)
<1>1. new # <<>>
  OBVIOUS
<1>2. PICK first \in Numbers :
        LET N == first .. first + Len(new) - 1
        IN  /\ N \subseteq Numbers /\ asked' = asked \cup N
            /\ \A n \in N, m \in asked : m < n
            /\ content' = [n \in Numbers |-> IF n \in N THEN new[n - first + 1]
                                             ELSE content[n]]
            /\ reached' = [u \in Kinds |-> reached[u] /\ \A i \in DOMAIN new :
                                                           new[i].what # u]
  BY <1>1, TellSays
<1> DEFINE N == first .. first + Len(new) - 1
<1>3. first \in Nat /\ Len(new) \in Nat /\ k \in 1 .. Len(new)
  BY NumbersAssumption DEF IsTuple
<1>4. ~reached'[w]
  BY <1>2
<1>5. first + k - 1 \in N /\ content'[first + k - 1] = new[k]
  BY <1>2, <1>3
<1>6. ASSUME NEW n \in asked', Newest(w, n)'
      PROVE  content'[n].value = v
  <2>1. ~(n < first + k - 1)
    BY <1>2, <1>5, <1>6 DEF Newest
  <2>2. n \in N
    BY <1>2, <1>5, <2>1
  <2>3. content'[n] = new[n - first + 1] /\ n - first + 1 \in DOMAIN new
    BY <1>2, <1>3, <2>2 DEF IsTuple
  <2>4. content'[n].what = w
    BY <1>6 DEF Newest
  <2> QED BY <2>3, <2>4
<1> QED BY <1>4, <1>6 DEF SettledAfter

\* A kind that is not told stays as settled as it was.
LEMMA TellLeaves ==
  ASSUME FTypes, NEW new, IsTuple(new), Tell(new), pmu' = pmu,
         NEW w \in Kinds, NEW v, \A i \in DOMAIN new : new[i].what # w,
         Settled(w, v)
  PROVE  SettledAfter(w, v)
<1>1. CASE new = <<>>
  BY <1>1 DEF Tell, lvars, Settled, SettledAfter, Newest
<1>2. CASE new # <<>>
  <2>1. PICK first \in Numbers :
          LET N == first .. first + Len(new) - 1
          IN  /\ N \subseteq Numbers /\ asked' = asked \cup N
              /\ \A n \in N, m \in asked : m < n
              /\ content' = [n \in Numbers |-> IF n \in N THEN new[n - first + 1]
                                               ELSE content[n]]
              /\ reached' = [u \in Kinds |-> reached[u] /\ \A i \in DOMAIN new :
                                                             new[i].what # u]
    BY <1>2, TellSays
  <2> DEFINE N == first .. first + Len(new) - 1
  <2>2. \A n \in N : content'[n].what # w
    <3> TAKE n \in N
    <3>1. content'[n] = new[n - first + 1]
      BY <2>1
    <3>2. n - first + 1 \in DOMAIN new
      BY NumbersAssumption DEF IsTuple
    <3> QED BY <3>1, <3>2
  <2>3. \A n \in asked : n \in Numbers /\ content'[n] = content[n] /\ n \notin N
    BY <2>1, NumbersAssumption DEF FTypes
  <2>4. \A n \in asked' : content'[n].what = w => n \in asked
    BY <2>1, <2>2
  <2>5. reached'[w] = reached[w]
    BY <2>1 DEF FTypes
  <2>6. \A n \in asked : Newest(w, n)' => Newest(w, n)
    BY <2>1, <2>3 DEF Newest
  <2>7. \A n \in asked' : Newest(w, n)' => content'[n].value = v
    BY <2>3, <2>4, <2>6 DEF Newest, Settled
  <2>8. reached'[w] => pmu'[w] = v /\ \A n \in asked' : content'[n].what # w
    BY <2>3, <2>4, <2>5 DEF Settled
  <2> QED BY <2>7, <2>8 DEF SettledAfter
<1> QED BY <1>1, <1>2

\* The PMU gets a command.
LEMMA ReceiveSettles ==
  ASSUME FTypes, NEW n \in Numbers, PmuReceives(n), NEW w \in Kinds, NEW v,
         Settled(w, v)
  PROVE  SettledAfter(w, v)
<1> DEFINE what == content[n].what
<1>1. /\ n \in asked /\ asked' = asked
      /\ pmu' = [pmu EXCEPT ![what] = content[n].value]
      /\ reached' = [reached EXCEPT ![what] =
                       \A m \in asked : n < m => content[m].what # what]
      /\ content' = [m \in Numbers |-> IF m <= n THEN Nothing ELSE content[m]]
  BY DEF PmuReceives, LReach
<1>2. Nothing.what # w
  BY DEF Nothing, Kinds
<1>3. \A m \in asked : content'[m].what = w =>
        n < m /\ content'[m] = content[m]
  BY <1>1, <1>2, NumbersAssumption DEF FTypes
<1>4. \A m \in asked : Newest(w, m)' => Newest(w, m)
  <2> TAKE m \in asked
  <2> HAVE Newest(w, m)'
  <2>1. n < m /\ content[m].what = w
    BY <1>3 DEF Newest
  <2>2. ASSUME NEW k \in asked, m < k
        PROVE  content[k].what # w
    <3>1. ~(k <= n)
      BY <2>1, <2>2, NumbersAssumption DEF FTypes
    <3>2. content'[k] = content[k]
      BY <1>1, <3>1 DEF FTypes
    <3> QED BY <1>1, <2>2, <3>2 DEF Newest
  <2> QED BY <2>1, <2>2 DEF Newest
<1>5. \A m \in asked : Newest(w, m)' => content'[m].value = v
  BY <1>3, <1>4 DEF Newest, Settled
<1>6. ASSUME reached'[w]
      PROVE  pmu'[w] = v /\ \A m \in asked : content'[m].what # w
  <2>1. CASE what = w
    <3>1. \A m \in asked : n < m => content[m].what # w
      BY <1>1, <1>6, <2>1 DEF FTypes
    <3>2. Newest(w, n)
      BY <2>1, <3>1 DEF Newest
    <3>3. content[n].value = v
      BY <1>1, <3>2 DEF Settled
    <3>4. w \in DOMAIN pmu
      BY DEF FTypes, Kinds
    <3>5. pmu'[w] = v
      BY <1>1, <2>1, <3>3, <3>4
    <3> QED BY <1>3, <3>1, <3>5
  <2>2. CASE what # w
    <3>1. reached[w]
      BY <1>1, <1>6, <2>2 DEF FTypes
    <3>2. w \in DOMAIN pmu
      BY DEF FTypes, Kinds
    <3>3. pmu'[w] = pmu[w]
      BY <1>1, <2>2, <3>2
    <3> QED BY <1>3, <3>1, <3>3 DEF Settled
  <2> QED BY <2>1, <2>2
<1> QED BY <1>1, <1>5, <1>6 DEF SettledAfter

LEMMA ReceiveTypes ==
  ASSUME FTypes, NEW n \in Numbers, PmuReceives(n)
  PROVE  FTypes'
<1> DEFINE what == content[n].what
           last == \A m \in asked : n < m => content[m].what # what
<1>1. /\ asked' = asked
      /\ pmu' = [pmu EXCEPT ![what] = content[n].value]
      /\ reached' = [reached EXCEPT ![what] = last]
      /\ content' = [m \in Numbers |-> IF m <= n THEN Nothing ELSE content[m]]
  BY DEF PmuReceives, LReach
<1>2. reached' \in [Kinds -> BOOLEAN]
  <2>1. last \in BOOLEAN
    OBVIOUS
  <2> HIDE DEF last, what
  <2> QED BY <1>1, <2>1 DEF FTypes
<1>3. pmu' = [list |-> pmu'.list, auto |-> pmu'.auto]
  <2> HIDE DEF last, what
  <2> QED BY <1>1 DEF FTypes
<1>4. content' = [m \in Numbers |-> content'[m]]
  BY <1>1
<1> QED BY <1>1, <1>2, <1>3, <1>4 DEF FTypes

\* The tuples of commands, command by command.
LEMMA Commands ==
  ASSUME NEW c
  PROVE  /\ IsTuple(<<AutoStartCommand(c)>>)
         /\ DOMAIN <<AutoStartCommand(c)>> = {1}
         /\ IsTuple(ListCommands(c)) /\ IsTuple(StartCommands(c))
         /\ StartupList(c) = <<>> =>
              /\ ListCommands(c) = <<>>
              /\ StartCommands(c) = <<AutoStartCommand(c)>>
         /\ StartupList(c) # <<>> =>
              LET told == [what |-> "list", value |-> StartupList(c)]
              IN  /\ ListCommands(c) = <<told>>
                  /\ StartCommands(c) = <<told, AutoStartCommand(c)>>
<1> DEFINE told == [what |-> "list", value |-> StartupList(c)]
<1>1. CASE StartupList(c) = <<>>
  <2>1. ListCommands(c) = <<>>
    BY <1>1 DEF ListCommands
  <2>2. \A x : Append(<<>>, x) = <<x>>
    OBVIOUS
  <2>3. StartCommands(c) = <<AutoStartCommand(c)>>
    BY <2>1, <2>2 DEF StartCommands
  <2> QED BY <1>1, <2>1, <2>3 DEF IsTuple
<1>2. CASE StartupList(c) # <<>>
  <2>1. ListCommands(c) = <<told>>
    BY <1>2 DEF ListCommands
  <2>2. \A x, y : Append(<<x>>, y) = <<x, y>>
    <3> TAKE x, y
    <3>1. <<x>> \in Seq({x, y}) /\ <<x, y>> \in Seq({x, y}) /\ y \in {x, y}
      OBVIOUS
    <3>2. /\ Append(<<x>>, y) \in Seq({x, y}) /\ Len(Append(<<x>>, y)) = 2
          /\ \A i \in 1 .. 2 : Append(<<x>>, y)[i] = <<x, y>>[i]
      BY <3>1
    <3>3. Len(<<x, y>>) = 2
      OBVIOUS
    <3> QED BY <3>1, <3>2, <3>3, SeqEqual
  <2>3. StartCommands(c) = <<told, AutoStartCommand(c)>>
    <3> HIDE DEF told
    <3> QED BY <2>1, <2>2 DEF StartCommands
  <2> HIDE DEF told
  <2>4. IsTuple(ListCommands(c)) /\ IsTuple(StartCommands(c))
    BY <2>1, <2>3 DEF IsTuple
  <2>5. /\ IsTuple(<<AutoStartCommand(c)>>)
        /\ DOMAIN <<AutoStartCommand(c)>> = {1}
    BY DEF IsTuple
  <2> QED BY <1>2, <2>1, <2>3, <2>4, <2>5 DEF told
<1> QED BY <1>1, <1>2

\* The list is told of configuration c: it is settled, unless it is empty.
LEMMA ListTold ==
  ASSUME FTypes, NEW c, NEW new \in {ListCommands(c), StartCommands(c)},
         Tell(new), StartupList(c) # <<>>
  PROVE  SettledAfter("list", StartupList(c))
<1> DEFINE told == [what |-> "list", value |-> StartupList(c)]
<1>1. IsTuple(new) /\ (new = <<told>> \/ new = <<told, AutoStartCommand(c)>>)
  BY Commands
<1>2. 1 \in DOMAIN new /\ new[1] = told
  <2> HIDE DEF told
  <2> QED BY <1>1
<1>3. \A i \in DOMAIN new : new[i].what = "list" => i = 1
  <2>1. AutoStartCommand(c).what # "list"
    BY DEF AutoStartCommand
  <2> HIDE DEF told
  <2> QED BY <1>1, <2>1
<1>4. "list" \in Kinds /\ told.what = "list" /\ told.value = StartupList(c)
  BY DEF Kinds
<1> HIDE DEF told
<1>5. new[1].what = "list"
  BY <1>2, <1>4
<1>6. \A i \in DOMAIN new : new[i].what = "list" => new[i].value = StartupList(c)
  BY <1>2, <1>3, <1>4
<1> QED BY <1>1, <1>2, <1>4, <1>5, <1>6, TellSettles

\* The auto start is told of configuration c.
LEMMA AutoTold ==
  ASSUME FTypes, NEW c, NEW new \in {<<AutoStartCommand(c)>>, StartCommands(c)},
         Tell(new)
  PROVE  SettledAfter("auto", c.state)
<1> DEFINE told == [what |-> "list", value |-> StartupList(c)]
           auto == AutoStartCommand(c)
<1>1. IsTuple(new) /\ (new = <<auto>> \/ new = <<told, auto>>)
  BY Commands
<1>2. /\ "auto" \in Kinds /\ auto.what = "auto" /\ auto.value = c.state
      /\ told.what # "auto"
  BY DEF Kinds, AutoStartCommand
<1> HIDE DEF told, auto
<1>3. PICK k \in DOMAIN new : new[k] = auto
  BY <1>1
<1>4. \A i \in DOMAIN new : new[i] = auto \/ new[i] = told
  BY <1>1
<1>5. new[k].what = "auto"
  BY <1>2, <1>3
<1>6. \A i \in DOMAIN new : new[i].what = "auto" => new[i].value = c.state
  BY <1>2, <1>4
<1> QED BY <1>1, <1>2, <1>5, <1>6, TellSettles

\* A step that tells nothing, and leaves the link alone.
LEMMA NothingTold ==
  ASSUME UNCHANGED <<asked, content, reached, pmu>>, NEW w, NEW v, Settled(w, v)
  PROVE  SettledAfter(w, v)
BY DEF Settled, SettledAfter, Newest

-----------------------------------------------------------------------------
FInv ==
  /\ FTypes
  /\ up => /\ StartupList(cfg) # <<>> => Settled("list", StartupList(cfg))
           /\ Settled("auto", cfg.state)

\* The start-up list depends on the schedule alone.
LEMMA SameList ==
  ASSUME NEW c, NEW d, c.schedule = d.schedule
  PROVE  StartupList(c) = StartupList(d)
BY DEF StartupList

LEMMA SetScheduleFollows ==
  ASSUME KInv, FInv, NEW nodes \in EventLists, NEW stack \in BOOLEAN,
         SetSchedule(nodes, stack)
  PROVE  FInv'
<1> DEFINE s == ScheduleOf(nodes, stack)
           new == [cfg EXCEPT !.schedule = s]
<1>1. s = [i \in DOMAIN s |-> s[i]]
  <2>1. s \in Seq(Events)
    BY ScheduleFits
  <2> HIDE DEF s
  <2> QED BY <2>1
<1>2. /\ up /\ cfg' = new /\ pmu' = pmu /\ Tell(ListCommands(new))
  BY DEF SetSchedule, Handle
<1> HIDE DEF s
<1>3. new.state = cfg.state
  BY <1>1, ScheduleChanged DEF KInv
<1> HIDE DEF new
<1>4. IsTuple(ListCommands(new))
  BY Commands
<1>5. FTypes'
  BY <1>2, <1>4, TellTypes DEF FInv, FTypes
<1>6. StartupList(new) # <<>> => SettledAfter("list", StartupList(new))
  BY <1>2, ListTold DEF FInv
<1>7. \A i \in DOMAIN ListCommands(new) : ListCommands(new)[i].what # "auto"
  <2> DEFINE told == [what |-> "list", value |-> StartupList(new)]
  <2>1. told.what = "list"
    OBVIOUS
  <2>2. ListCommands(new) = <<>> \/ ListCommands(new) = <<told>>
    BY Commands
  <2> HIDE DEF told
  <2> QED BY <2>1, <2>2
<1>8. SettledAfter("auto", new.state)
  <2>1. Settled("auto", cfg.state)
    BY <1>2 DEF FInv
  <2>2. "auto" \in Kinds
    BY DEF Kinds
  <2> QED BY <1>2, <1>3, <1>4, <1>7, <2>1, <2>2, TellLeaves DEF FInv
<1> QED BY <1>2, <1>5, <1>6, <1>8 DEF FInv, SettledAfter, Settled

LEMMA SetChargerFollows ==
  ASSUME KInv, FInv, NEW given, NEW state, NEW timeout,
         SetCharger(given, state, timeout)
  PROVE  FInv'
<1>1. /\ up /\ pmu' = pmu /\ Tell(<<AutoStartCommand(cfg')>>)
      /\ cfg' = Charged(cfg, given, state, timeout)
  BY DEF SetCharger, Handle
<1>2. cfg'.schedule = cfg.schedule
  BY <1>1, ChargerChanged DEF KInv
<1>3. StartupList(cfg') = StartupList(cfg)
  BY <1>2, SameList
<1>4. IsTuple(<<AutoStartCommand(cfg')>>) /\ DOMAIN <<AutoStartCommand(cfg')>> = {1}
  BY Commands
<1>5. FTypes'
  BY <1>1, <1>4, TellTypes DEF FInv, FTypes
<1>6. SettledAfter("auto", cfg'.state)
  BY <1>1, AutoTold DEF FInv
<1>7. \A i \in DOMAIN <<AutoStartCommand(cfg')>> :
        <<AutoStartCommand(cfg')>>[i].what # "list"
  BY <1>4 DEF AutoStartCommand
<1>8. ASSUME StartupList(cfg) # <<>>
      PROVE  SettledAfter("list", StartupList(cfg))
  <2>1. "list" \in Kinds
    BY DEF Kinds
  <2> QED BY <1>1, <1>4, <1>7, <1>8, <2>1, TellLeaves DEF FInv
<1> QED BY <1>1, <1>3, <1>5, <1>6, <1>8 DEF FInv, SettledAfter, Settled

LEMMA SetNetworkFollows ==
  ASSUME KInv, FInv, NEW n, SetNetwork(n)
  PROVE  FInv'
<1>1. /\ up /\ cfg' = [cfg EXCEPT !.network = n]
      /\ UNCHANGED <<asked, content, reached, pmu>>
  BY DEF SetNetwork, lvars, Handle
<1>2. cfg'.schedule = cfg.schedule /\ cfg'.state = cfg.state
  BY <1>1, NetworkChanged DEF KInv
<1>3. StartupList(cfg') = StartupList(cfg)
  BY <1>2, SameList
<1> QED BY <1>1, <1>2, <1>3 DEF FInv, FTypes, Settled, Newest

LEMMA StartFollows ==
  ASSUME KInv, FInv, Start
  PROVE  FInv'
<1>1. cfg' = InFile /\ pmu' = pmu /\ Tell(StartCommands(InFile))
  BY DEF Start
<1>2. IsTuple(StartCommands(InFile))
  BY Commands
<1>3. FTypes'
  BY <1>1, <1>2, TellTypes DEF FInv, FTypes
<1>4. StartupList(InFile) # <<>> => SettledAfter("list", StartupList(InFile))
  BY <1>1, ListTold DEF FInv
<1>5. SettledAfter("auto", InFile.state)
  BY <1>1, AutoTold DEF FInv
<1> QED BY <1>1, <1>3, <1>4, <1>5 DEF FInv, SettledAfter, Settled

LEMMA EndFollows == ASSUME FInv, End PROVE FInv'
<1>1. /\ up' = FALSE /\ content' = [n \in Numbers |-> Nothing]
      /\ UNCHANGED <<asked, reached, pmu>>
  BY DEF End
<1> QED BY <1>1 DEF FInv, FTypes

LEMMA ReceiveFollows ==
  ASSUME FInv, NEW n \in Numbers, PmuReceives(n)
  PROVE  FInv'
<1>1. up /\ cfg' = cfg
  BY DEF PmuReceives
<1>2. FTypes'
  BY ReceiveTypes DEF FInv
<1>3. StartupList(cfg) # <<>> => SettledAfter("list", StartupList(cfg))
  BY <1>1, ReceiveSettles DEF FInv, Kinds
<1>4. SettledAfter("auto", cfg.state)
  BY <1>1, ReceiveSettles DEF FInv, Kinds
<1> QED BY <1>1, <1>2, <1>3, <1>4 DEF FInv, SettledAfter, Settled

\* Once the newest command of a kind has reached it, the PMU goes by the
\* settings the manager has.
THEOREM PmuFollowsSettings == Spec => []PmuFollows
<1>1. Init => FInv
  BY DEF Init, LInit, FInv, FTypes, Nothing
<1>2. KInv /\ FInv /\ [Next]_vars => FInv'
  <2> SUFFICES ASSUME KInv, FInv, [Next]_vars PROVE FInv'
    OBVIOUS
  <2>1. ASSUME NEW l \in EventLists, NEW stack \in BOOLEAN, SetSchedule(l, stack)
        PROVE  FInv'
    BY <2>1, SetScheduleFollows
  <2>2. ASSUME NEW given \in SUBSET {"state", "timeout"}, NEW s \in BOOLEAN,
               NEW t \in 0 .. 1, SetCharger(given, s, t)
        PROVE  FInv'
    BY <2>2, SetChargerFollows
  <2>3. ASSUME NEW w \in Networks \cup {NoNetwork}, SetNetwork(w)
        PROVE  FInv'
    BY <2>3, SetNetworkFollows
  <2>4. CASE End
    BY <2>4, EndFollows
  <2>5. CASE Start
    BY <2>5, StartFollows
  <2>6. ASSUME NEW n \in Numbers, PmuReceives(n)
        PROVE  FInv'
    BY <2>6, ReceiveFollows
  <2>7. CASE UNCHANGED vars
    BY <2>7 DEF vars, setVars, lvars, FInv, FTypes, Settled, Newest
  <2> QED BY <2>1, <2>2, <2>3, <2>4, <2>5, <2>6, <2>7 DEF Next
<1>3. FInv => PmuFollows
  <2> SUFFICES ASSUME FInv, up PROVE PmuFollows
    BY DEF PmuFollows
  <2>1. "list" \in Kinds /\ "auto" \in Kinds
    BY DEF Kinds
  <2>2. pmu["list"] = pmu.list /\ pmu["auto"] = pmu.auto
    OBVIOUS
  <2> QED BY <2>1, <2>2 DEF FInv, Settled, PmuFollows
<1> QED BY <1>1, <1>2, <1>3, KInvHolds, PTL DEF Spec
-----------------------------------------------------------------------------
(***************************************************************************)
(* Types.  What fits still does when it comes back from the file, and the  *)
(* list for the PMU cuts none of its events.                               *)
(***************************************************************************)
\* The list for the PMU has all the events it should have.
LEMMA ListTypes ==
  ASSUME NEW c, Fits(c)
  PROVE  /\ StartupList(c) \in Seq(Events)
         /\ Range(StartupList(c)) = {e \in Range(c.schedule) : e.on /\ e.enabled}
<1> DEFINE s == c.schedule
           D == {i \in DOMAIN s : s[i].enabled /\ s[i].on}
           r == Selected(s, D)
           J == {i \in DOMAIN s : s[i].on = TRUE}
<1>1. /\ s \in Seq(Events) /\ Len(s) \in Nat /\ DOMAIN s = 1 .. Len(s)
      /\ \A i \in DOMAIN s : s[i] \in Events
      /\ Cardinality(J) <= KeptMax
  <2>1. s \in Seq(Events)
    BY DEF Fits, Settings
  <2>2. Cardinality(J) <= KeptMax
    BY DEF Fits, Short
  <2> HIDE DEF s, J
  <2> QED BY <2>1, <2>2
<1>2. D \in SUBSET (1 .. Len(s)) /\ J \in SUBSET (1 .. Len(s)) /\ D \in SUBSET J
  <2>1. \A i \in D : i \in J
    <3> TAKE i \in D
    <3>1. s[i].on \in BOOLEAN
      BY <1>1 DEF Events
    <3> QED BY <3>1
  <2> QED BY <1>1, <2>1
<1>3. PICK h : Chooses(Events, s, D, r, h)
  <2> HIDE DEF s, D
  <2> QED BY <1>1, <1>2, SelectedIs
<1>4. /\ r \in Seq(Events) /\ Len(r) \in Nat /\ DOMAIN r = 1 .. Len(r)
      /\ \A i \in 1 .. Len(r) : h[i] \in D /\ r[i] = s[h[i]]
      /\ \A d \in D : \E i \in 1 .. Len(r) : h[i] = d
      /\ \A i, j \in 1 .. Len(r) : i < j => h[i] < h[j]
  <2> HIDE DEF s, D, r
  <2> QED BY <1>3 DEF Chooses
<1>5. Len(r) <= SentMax
  <2> HIDE DEF s, D, r, J
  <2>1. IsFiniteSet(J) /\ Cardinality(J) \in Nat
    <3>1. IsFiniteSet(1 .. Len(s))
      BY <1>1, Positions
    <3> QED BY <1>2, <3>1, FS_Subset, FS_CardinalityType
  <2>2. \A k \in 1 .. Len(r) : h[k] \in J
    BY <1>2, <1>4
  <2>3. \A i, j \in 1 .. Len(r) : i < j => h[i] # h[j]
    <3>1. \A i, j \in 1 .. Len(r) : i < j => h[i] < h[j] /\ h[i] \in Int
      <4>1. \A d \in D : d \in Int
        BY <1>1, <1>2
      <4> QED BY <1>4, <4>1
    <3>2. \A x \in Int : ~(x < x)
      OBVIOUS
    <3> QED BY <3>1, <3>2
  <2>4. Cardinality(1 .. Len(r)) <= Cardinality(J)
    BY <1>4, <2>1, <2>2, <2>3, MappedInto
  <2>5. Cardinality(1 .. Len(r)) = Len(r)
    BY <1>4, Positions
  <2> QED BY <1>1, <1>4, <2>1, <2>4, <2>5, LimitsAssumption
<1>6. StartupList(c) = r
  <2>1. StartupList(c) = SubSeq(r, 1, IF Len(r) < SentMax THEN Len(r) ELSE SentMax)
    BY DEF StartupList
  <2> HIDE DEF r, s, D, J
  <2>0. SentMax \in Nat /\ Len(r) \in Nat /\ Len(r) <= SentMax
    BY <1>4, <1>5, LimitsAssumption
  <2>2. (IF Len(r) < SentMax THEN Len(r) ELSE SentMax) = Len(r)
    BY <2>0
  <2>3. SubSeq(r, 1, Len(r)) = r
    BY <1>4, SubSeqFull
  <2> QED BY <2>1, <2>2, <2>3
<1>7. ASSUME NEW e PROVE e \in Range(r) <=> e \in Range(s) /\ e.on /\ e.enabled
  <2>1. e \in Range(r) <=> \E i \in 1 .. Len(r) : e = r[i]
    BY <1>4 DEF Range
  <2>2. e \in Range(s) <=> \E i \in DOMAIN s : e = s[i]
    BY DEF Range
  <2>3. ASSUME NEW i \in 1 .. Len(r), e = r[i]
        PROVE  e \in Range(s) /\ e.on /\ e.enabled
    <3>1. h[i] \in D /\ e = s[h[i]]
      BY <1>4, <2>3
    <3> HIDE DEF r
    <3> QED BY <2>2, <3>1
  <2>4. ASSUME NEW d \in DOMAIN s, e = s[d], e.on, e.enabled
        PROVE  e \in Range(r)
    <3>1. d \in D
      BY <2>4
    <3>2. PICK i \in 1 .. Len(r) : h[i] = d
      BY <1>4, <3>1
    <3> HIDE DEF r, D
    <3> QED BY <1>4, <2>1, <2>4, <3>2
  <2> HIDE DEF r, s
  <2> QED BY <2>1, <2>2, <2>3, <2>4
<1>8. Range(r) = {e \in Range(s) : e.on /\ e.enabled}
  <2> HIDE DEF r, s
  <2> QED BY <1>7
<1> QED BY <1>4, <1>6, <1>8

\* What is read back from the file.
LEMMA LoadedFits ==
  ASSUME NEW c, Fits(c)
  PROVE  Fits(Loaded(Written(c)))
<1> DEFINE s == c.schedule
           w == [i \in DOMAIN s |-> [on |-> s[i].on, minute |-> s[i].minute,
                                     at |-> s[i].at]]
           l == [i \in DOMAIN w |-> [on |-> w[i].on, enabled |-> w[i].minute,
                                     minute |-> w[i].minute, at |-> w[i].at]]
<1>1. /\ c = [schedule |-> s, state |-> c.state, timeout |-> c.timeout,
              network |-> c.network]
      /\ s \in Seq(Events) /\ Len(s) \in Nat /\ DOMAIN s = 1 .. Len(s)
      /\ c.state \in BOOLEAN /\ c.timeout \in 0 .. 1
      /\ c.network \in Networks \cup {NoNetwork}
  BY DEF Fits, Settings
<1>2. Loaded(Written(c)) = [schedule |-> l, state |-> c.state,
                            timeout |-> c.timeout, network |-> c.network]
  <2>1. \A a, x, y, z, v :
          [[schedule |-> a, state |-> x, timeout |-> y, network |-> z]
             EXCEPT !.schedule = v]
          = [schedule |-> v, state |-> x, timeout |-> y, network |-> z]
    <3> HIDE DEF s, w, l
    <3> QED OBVIOUS
  <2>3. Written(c) = [c EXCEPT !.schedule = w]
    BY DEF Written
  <2>4. Written(c) = [schedule |-> w, state |-> c.state, timeout |-> c.timeout,
                      network |-> c.network]
    <3> HIDE DEF s, w
    <3> QED BY <1>1, <2>1, <2>3
  <2>5. Loaded(Written(c)) = [Written(c) EXCEPT !.schedule = l]
    <3>1. Written(c).schedule = w
      BY <2>4
    <3>2. Loaded(Written(c)) =
            [Written(c) EXCEPT !.schedule =
               [i \in DOMAIN Written(c).schedule |->
                  [on |-> Written(c).schedule[i].on,
                   enabled |-> Written(c).schedule[i].minute,
                   minute |-> Written(c).schedule[i].minute,
                   at |-> Written(c).schedule[i].at]]]
      BY DEF Loaded
    <3> QED BY <3>1, <3>2
  <2> HIDE DEF s, w, l
  <2> QED BY <2>1, <2>4, <2>5
<1>3. DOMAIN l = DOMAIN s /\ \A i \in DOMAIN s : l[i].on = s[i].on
  OBVIOUS
<1>4. l \in Seq(Events)
  <2>1. ASSUME NEW i \in 1 .. Len(s) PROVE l[i] \in Events
    <3>1. s[i] \in Events
      BY <1>1
    <3>2. s[i].on \in BOOLEAN /\ s[i].minute \in BOOLEAN /\ s[i].at \in {x.at : x \in Nodes}
      BY <3>1 DEF Events
    <3>3. l[i] = [on |-> s[i].on, enabled |-> s[i].minute, minute |-> s[i].minute,
                  at |-> s[i].at]
      BY <1>1
    <3> HIDE DEF l
    <3> QED BY <3>2, <3>3 DEF Events
  <2>2. l = [i \in 1 .. Len(s) |-> l[i]]
    BY <1>1
  <2> HIDE DEF l, s
  <2> QED BY <1>1, <2>1, <2>2
<1>5. Short(l)
  <2>1. ASSUME NEW on \in BOOLEAN
        PROVE  {i \in DOMAIN l : l[i].on = on} = {i \in DOMAIN s : s[i].on = on}
    BY <1>3
  <2>2. Short(s)
    BY DEF Fits
  <2> HIDE DEF l, s
  <2> QED BY <2>1, <2>2 DEF Short
<1> HIDE DEF l
<1> QED BY <1>1, <1>2, <1>4, <1>5 DEF Fits, Settings

LEMMA DefaultsFit == Fits(Defaults)
<1>1. Defaults \in Settings
  BY DEF Defaults, Settings
<1>2. \A on : {i \in DOMAIN <<>> : <<>>[i].on = on} = {}
  OBVIOUS
<1>3. Short(<<>>)
  BY <1>2, FS_EmptySet, LimitsAssumption DEF Short
<1> QED BY <1>1, <1>3 DEF Fits, Defaults

\* What a command in the link carries.
Orders == {Nothing} \cup [what : {"list"}, value : Seq(Events)]
            \cup [what : {"auto"}, value : BOOLEAN]

FileFits == file = <<>> \/ Fits(Loaded(file[1]))

LinkTyped ==
  /\ asked \subseteq Numbers /\ floor \in Numbers \cup {-1}
  /\ reached \in [Kinds -> BOOLEAN]
  /\ content \in [Numbers -> Orders]

TInv ==
  /\ up \in BOOLEAN /\ dirty \in BOOLEAN /\ failed \in BOOLEAN
  /\ Fits(cfg) /\ Fits(wish) /\ FileFits
  /\ LinkTyped
  /\ pmu \in [list : Seq(Events), auto : BOOLEAN]

LEMMA InFileFits ==
  ASSUME FileFits
  PROVE  Fits(InFile)
BY DefaultsFit DEF FileFits, InFile

LEMMA SyncTyped ==
  ASSUME FileFits, NEW c, Fits(c), NEW d \in BOOLEAN, Sync(c, d)
  PROVE  FileFits' /\ dirty' \in BOOLEAN /\ failed' \in BOOLEAN
<1>1. CASE file' = <<Written(c)>>
  <2>1. file'[1] = Written(c)
    BY <1>1
  <2>2. Fits(Loaded(Written(c)))
    BY LoadedFits
  <2>3. FileFits'
    BY <2>1, <2>2 DEF FileFits
  <2> QED BY <2>3 DEF Sync
<1>2. CASE file' = file
  <2>1. FileFits'
    BY <1>2 DEF FileFits
  <2> QED BY <2>1 DEF Sync
<1> QED BY <1>1, <1>2 DEF Sync

LEMMA TellTyped ==
  ASSUME LinkTyped, NEW new, IsTuple(new), \A i \in DOMAIN new : new[i] \in Orders,
         Tell(new)
  PROVE  LinkTyped'
<1>1. CASE new = <<>>
  BY <1>1 DEF Tell, LinkTyped, lvars
<1>2. CASE new # <<>>
  <2>1. PICK first \in Numbers :
          LET N == first .. first + Len(new) - 1
          IN  /\ LAsk(N)
              /\ content' = [n \in Numbers |-> IF n \in N THEN new[n - first + 1]
                                               ELSE content[n]]
              /\ reached' = [w \in Kinds |-> reached[w] /\ \A i \in DOMAIN new :
                                                             new[i].what # w]
    BY <1>2 DEF Tell
  <2> DEFINE N == first .. first + Len(new) - 1
  <2>2. asked' \subseteq Numbers /\ floor' = floor
    BY <2>1 DEF LAsk, LinkTyped
  <2>3. reached' \in [Kinds -> BOOLEAN]
    BY <2>1 DEF LinkTyped
  <2>4. \A n \in N : n - first + 1 \in DOMAIN new
    BY <2>1, NumbersAssumption DEF IsTuple
  <2>5. content' \in [Numbers -> Orders]
    <3>1. content' = [n \in Numbers |-> IF n \in N THEN new[n - first + 1]
                                        ELSE content[n]]
      BY <2>1
    <3>2. \A n \in Numbers : (IF n \in N THEN new[n - first + 1] ELSE content[n])
                               \in Orders
      <4> HIDE DEF N
      <4> QED BY <2>4 DEF LinkTyped
    <3> HIDE DEF N
    <3> QED BY <3>1, <3>2
  <2> QED BY <2>2, <2>3, <2>5 DEF LinkTyped
<1> QED BY <1>1, <1>2

\* What the handlers and the start tell.
LEMMA OrdersTold ==
  ASSUME NEW c, Fits(c),
         NEW new \in {ListCommands(c), <<AutoStartCommand(c)>>, StartCommands(c)}
  PROVE  IsTuple(new) /\ \A i \in DOMAIN new : new[i] \in Orders
<1> DEFINE told == [what |-> "list", value |-> StartupList(c)]
           auto == AutoStartCommand(c)
<1>1. IsTuple(new) /\ new \in {<<>>, <<told>>, <<auto>>, <<told, auto>>}
  BY Commands
<1>2. told \in Orders
  BY ListTypes DEF Orders
<1>3. auto \in Orders
  BY DEF AutoStartCommand, Orders, Fits, Settings
<1> HIDE DEF told, auto
<1>4. \A i \in DOMAIN new : new[i] \in {told, auto}
  BY <1>1
<1> QED BY <1>1, <1>2, <1>3, <1>4

LEMMA ScheduleTyped ==
  ASSUME NEW c, Fits(c), NEW s \in Seq(Events), Short(s)
  PROVE  Fits([c EXCEPT !.schedule = s])
<1>1. [c EXCEPT !.schedule = s] \in Settings
  BY DEF Fits, Settings
<1>2. [c EXCEPT !.schedule = s].schedule = s
  BY DEF Fits, Settings
<1> QED BY <1>1, <1>2 DEF Fits

LEMMA NetworkTyped ==
  ASSUME NEW c, Fits(c), NEW n \in Networks \cup {NoNetwork}
  PROVE  Fits([c EXCEPT !.network = n])
<1>1. [c EXCEPT !.network = n] \in Settings
  BY DEF Fits, Settings
<1>2. [c EXCEPT !.network = n].schedule = c.schedule
  BY DEF Fits, Settings
<1> QED BY <1>1, <1>2 DEF Fits

LEMMA ChargedTyped ==
  ASSUME NEW c, Fits(c), NEW given, NEW s \in BOOLEAN, NEW t \in 0 .. 1
  PROVE  Fits(Charged(c, given, s, t))
<1>1. Charged(c, given, s, t).schedule = c.schedule
  BY DEF Charged
<1>2. Charged(c, given, s, t) \in Settings
  <2>1. /\ c.schedule \in Seq(Events) /\ c.network \in Networks \cup {NoNetwork}
        /\ (IF "state" \in given THEN s ELSE c.state) \in BOOLEAN
        /\ (IF "timeout" \in given THEN t ELSE c.timeout) \in 0 .. 1
    BY DEF Fits, Settings
  <2> QED BY <2>1 DEF Charged, Settings
<1> QED BY <1>1, <1>2 DEF Fits

LEMMA InitTyped == Init => TInv
<1> SUFFICES ASSUME Init PROVE TInv
  OBVIOUS
<1>1. /\ up = FALSE /\ dirty = FALSE /\ failed = FALSE
      /\ cfg = Defaults /\ wish = Defaults /\ file = <<>>
      /\ content = [n \in Numbers |-> Nothing]
      /\ reached = [what \in Kinds |-> FALSE]
      /\ pmu = [list |-> <<>>, auto |-> FALSE]
      /\ asked = {} /\ floor = -1
  BY DEF Init, LInit
<1>2. LinkTyped
  BY <1>1 DEF LinkTyped, Orders
<1>3. pmu \in [list : Seq(Events), auto : BOOLEAN]
  BY <1>1
<1> QED BY <1>1, <1>2, <1>3, DefaultsFit DEF TInv, FileFits

LEMMA ReceiveTyped ==
  ASSUME TInv, NEW n \in Numbers, PmuReceives(n)
  PROVE  TInv'
<1> DEFINE w == content[n].what
           v == content[n].value
           last == \A m \in asked : n < m => content[m].what # w
<1>1. /\ floor' = n /\ asked' = asked
      /\ pmu' = [pmu EXCEPT ![w] = v]
      /\ reached' = [reached EXCEPT ![w] = last]
      /\ content' = [m \in Numbers |-> IF m <= n THEN Nothing ELSE content[m]]
      /\ UNCHANGED <<up, cfg, dirty, file, wish, failed>>
  BY DEF PmuReceives, LReach
<1>2. content[n] \in Orders
  BY DEF TInv, LinkTyped
<1>3. pmu' \in [list : Seq(Events), auto : BOOLEAN]
  <2>1. CASE w = "list" /\ v \in Seq(Events)
    <3>1. pmu' = [pmu EXCEPT !["list"] = v]
      BY <1>1, <2>1
    <3> HIDE DEF w, v
    <3> QED BY <2>1, <3>1 DEF TInv
  <2>2. CASE w = "auto" /\ v \in BOOLEAN
    <3>1. pmu' = [pmu EXCEPT !["auto"] = v]
      BY <1>1, <2>2
    <3> HIDE DEF w, v
    <3> QED BY <2>2, <3>1 DEF TInv
  <2>3. CASE w = "nothing"
    <3>1. pmu' = [pmu EXCEPT !["nothing"] = v]
      BY <1>1, <2>3
    <3> HIDE DEF w, v
    <3> QED BY <3>1 DEF TInv
  <2> QED BY <1>2, <2>1, <2>2, <2>3 DEF Orders, Nothing
<1>4. LinkTyped'
  <2>1. last \in BOOLEAN
    OBVIOUS
  <2> HIDE DEF last, w, v
  <2>2. reached' \in [Kinds -> BOOLEAN]
    BY <1>1, <2>1 DEF TInv, LinkTyped
  <2>3. content' \in [Numbers -> Orders]
    <3>1. \A m \in Numbers : (IF m <= n THEN Nothing ELSE content[m]) \in Orders
      BY DEF TInv, LinkTyped, Orders
    <3> QED BY <1>1, <3>1
  <2> QED BY <1>1, <2>2, <2>3 DEF TInv, LinkTyped
<1> HIDE DEF w, v, last
<1> QED BY <1>1, <1>3, <1>4 DEF TInv, FileFits

LEMMA StepTyped == TInv /\ [Next]_vars => TInv'
<1> SUFFICES ASSUME TInv, [Next]_vars PROVE TInv'
  OBVIOUS
<1>1. ASSUME NEW l \in EventLists, NEW stack \in BOOLEAN, SetSchedule(l, stack)
      PROVE  TInv'
  <2> DEFINE s == ScheduleOf(l, stack)
             new == [cfg EXCEPT !.schedule = s]
  <2>1. /\ cfg' = new /\ Sync(new, TRUE) /\ Tell(ListCommands(new))
        /\ wish' = [wish EXCEPT !.schedule = new.schedule]
        /\ UNCHANGED <<up, pmu>>
    BY <1>1 DEF SetSchedule
  <2>2. s \in Seq(Events) /\ Short(s)
    BY ScheduleFits
  <2>3. new.schedule = s
    BY DEF TInv, Fits, Settings
  <2> HIDE DEF s
  <2>4. Fits(new) /\ Fits(wish')
    BY <2>1, <2>2, <2>3, ScheduleTyped DEF TInv
  <2> HIDE DEF new
  <2>5. FileFits' /\ dirty' \in BOOLEAN /\ failed' \in BOOLEAN
    BY <2>1, <2>4, SyncTyped DEF TInv
  <2>6. LinkTyped'
    BY <2>1, <2>4, OrdersTold, TellTyped DEF TInv
  <2> QED BY <2>1, <2>4, <2>5, <2>6 DEF TInv
<1>2. ASSUME NEW given \in SUBSET {"state", "timeout"}, NEW s \in BOOLEAN,
             NEW t \in 0 .. 1, SetCharger(given, s, t)
      PROVE  TInv'
  <2> DEFINE new == Charged(cfg, given, s, t)
             d == dirty \/ given # {}
  <2>1. /\ cfg' = new /\ Sync(new, d) /\ Tell(<<AutoStartCommand(new)>>)
        /\ wish' = Charged(wish, given, s, t)
        /\ UNCHANGED <<up, pmu>>
    BY <1>2 DEF SetCharger
  <2>2. Fits(new) /\ Fits(wish')
    BY <2>1, ChargedTyped DEF TInv
  <2>3. d \in BOOLEAN
    BY DEF TInv
  <2> HIDE DEF new, d
  <2>4. FileFits' /\ dirty' \in BOOLEAN /\ failed' \in BOOLEAN
    BY <2>1, <2>2, <2>3, SyncTyped DEF TInv
  <2>5. LinkTyped'
    BY <2>1, <2>2, OrdersTold, TellTyped DEF TInv
  <2> QED BY <2>1, <2>2, <2>4, <2>5 DEF TInv
<1>3. ASSUME NEW n \in Networks \cup {NoNetwork}, SetNetwork(n)
      PROVE  TInv'
  <2>1. /\ cfg' = [cfg EXCEPT !.network = n] /\ Sync(cfg', TRUE)
        /\ wish' = [wish EXCEPT !.network = n]
        /\ UNCHANGED <<up, content, pmu, reached, asked, floor>>
    BY <1>3 DEF SetNetwork, lvars
  <2>2. Fits(cfg') /\ Fits(wish')
    BY <2>1, NetworkTyped DEF TInv
  <2>3. FileFits' /\ dirty' \in BOOLEAN /\ failed' \in BOOLEAN
    BY <2>1, <2>2, SyncTyped DEF TInv
  <2> QED BY <2>1, <2>2, <2>3 DEF TInv, LinkTyped
<1>4. CASE End
  <2>1. /\ up' = FALSE /\ floor' \in asked \cup {floor}
        /\ content' = [n \in Numbers |-> Nothing]
        /\ wish' = (IF failed THEN InFile ELSE wish) /\ cfg' = Defaults
        /\ UNCHANGED <<dirty, file, pmu, reached, failed, asked>>
    BY <1>4 DEF End
  <2>2. Fits(wish') /\ Fits(cfg')
    BY <2>1, InFileFits, DefaultsFit DEF TInv
  <2>3. LinkTyped'
    BY <2>1 DEF TInv, LinkTyped, Orders
  <2> QED BY <2>1, <2>2, <2>3 DEF TInv, FileFits
<1>5. CASE Start
  <2>1. /\ up' = TRUE /\ cfg' = InFile /\ dirty' = FALSE /\ failed' = FALSE
        /\ Tell(StartCommands(InFile)) /\ UNCHANGED <<file, pmu, wish>>
    BY <1>5 DEF Start
  <2>2. Fits(InFile)
    BY InFileFits DEF TInv
  <2>3. LinkTyped'
    BY <2>1, <2>2, OrdersTold, TellTyped DEF TInv
  <2> QED BY <2>1, <2>2, <2>3 DEF TInv, FileFits
<1>6. ASSUME NEW n \in Numbers, PmuReceives(n)
      PROVE  TInv'
  BY <1>6, ReceiveTyped
<1>7. CASE UNCHANGED vars
  BY <1>7 DEF vars, setVars, lvars, TInv, FileFits, LinkTyped
<1> QED BY <1>1, <1>2, <1>3, <1>4, <1>5, <1>6, <1>7 DEF Next

\* The state is well formed: above all, no schedule outgrows what is kept of
\* an action, over restarts, and the PMU's list leaves none of its events out.
THEOREM TypeCorrect == Spec => []TypeOK
<1>1. TInv => TypeOK
  <2> SUFFICES ASSUME TInv PROVE TypeOK
    OBVIOUS
  <2>1. /\ cfg \in Settings /\ wish \in Settings
        /\ file = <<>> \/ Loaded(file[1]) \in Settings
        /\ Short(cfg.schedule)
    BY DEF TInv, Fits, FileFits
  <2>2. Range(StartupList(cfg)) = {e \in Range(cfg.schedule) : e.on /\ e.enabled}
    BY ListTypes DEF TInv
  <2>3. pmu.list \in Seq(Events) /\ pmu.auto \in BOOLEAN
    BY DEF TInv
  <2> QED BY <2>1, <2>2, <2>3 DEF TypeOK, TInv, LinkTyped, Short
<1> QED BY <1>1, InitTyped, StepTyped, PTL DEF Spec
=============================================================================
