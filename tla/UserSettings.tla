---------------------------- MODULE UserSettings ----------------------------
(***************************************************************************)
(* The settings a user changes through the control socket: the schedule of *)
(* power events, the charger auto start and the modem's network            *)
(* (src/src/controller.c), the file they are saved to and loaded from      *)
(* (src/src/main.c), and what the PMU is told of them                      *)
(* (src/src/pmu-manager.c) over the service of the link (LatestWins).      *)
(* Saving may fail, and the manager may end and start again at any time.   *)
(*                                                                         *)
(* A handler runs to its end before the reply it pushed leaves the         *)
(* manager, so an end in the middle of one shows the client no more than   *)
(* an end before or after it.                                              *)
(***************************************************************************)
EXTENDS LatestWins, Sequences, FiniteSets, Functions

CONSTANTS EventLists,   \* lists of events a client may send
          Networks,     \* access data of the modem a client may send
          KeptMax,      \* events kept of each action, 6
          SentMax,      \* events of the start-up list, 48 bytes: 6
          MaxCommands   \* bound: settings a behaviour's clients send

\* Nothing that is kept is too much for the PMU.
ASSUME LimitsAssumption == KeptMax \in Nat \ {0} /\ SentMax \in Nat
                           /\ KeptMax <= SentMax
ASSUME MaxCommandsAssumption == MaxCommands \in Nat
ASSUME NumbersAssumption == Numbers \subseteq Nat

\* What a node of a list says.  The flag `minute' is ENABLE_MINUTE in its
\* enable-bits, `at' the rest of the bits and the time.
Nodes == UNION {Range(l) : l \in EventLists}

ASSUME NodesAssumption ==
  /\ \A l \in EventLists : l \in Seq(Nodes)
  /\ \A x \in Nodes : /\ x.action \in {"on", "off", "absent"}
                      /\ x.enabled \in BOOLEAN /\ x.minute \in BOOLEAN

VARIABLES
  up,        \* the manager runs
  cfg,       \* PCatManagerUserConfigData in memory
  dirty,     \* its dirty flag
  file,      \* what PCAT_MAIN_USER_CONFIG_FILE holds: <<>> if there is none
  content,   \* what each command that may still reach the PMU tells it
  pmu,       \* external: the list and the auto start the PMU has
  reached,   \* history: the PMU has got the newest command of a kind
  wish,      \* history: what the user asked for
  failed,    \* history: the last command tried to save and could not
  commands   \* number of settings sent (bound only)

setVars == <<up, cfg, dirty, file, content, pmu, reached, wish, failed,
             commands>>
vars == <<lvars, setVars>>

NoNetwork == "none"

ASSUME NetworksAssumption == NoNetwork \notin Networks

Events == [on : BOOLEAN, enabled : BOOLEAN, minute : BOOLEAN,
           at : {x.at : x \in Nodes}]

\* The zeros the program starts with; the file is its only other source.
Defaults == [schedule |-> <<>>, state |-> FALSE, timeout |-> 0,
             network |-> NoNetwork]
----------------------------------------------------------------------------
(***************************************************************************)
(* From a list of nodes to a schedule.                                     *)
(***************************************************************************)
\* A node without an action has that of the node before it that has one;
\* without one the variable still holds what the stack held.
IsOn(nodes, stack, i) ==
  LET said == {j \in 1 .. i : nodes[j].action # "absent"}
  IN  IF said = {} THEN stack
      ELSE \E j \in said : /\ \A k \in said : k <= j
                           /\ nodes[j].action = "on"

\* Mutant: one event more.
IsKeptMore(nodes, stack, i) ==
  Cardinality({j \in 1 .. i : IsOn(nodes, stack, j) = IsOn(nodes, stack, i)})
    <= KeptMax + 1

\* The first KeptMax of each action are kept.
IsKept(nodes, stack, i) ==
  Cardinality({j \in 1 .. i : IsOn(nodes, stack, j) = IsOn(nodes, stack, i)})
    <= KeptMax

EventOf(nodes, stack, i) ==
  [on |-> IsOn(nodes, stack, i),
   enabled |-> nodes[i].enabled,
   minute |-> nodes[i].enabled \/ nodes[i].minute,
   at |-> nodes[i].at]

\* The elements of s at the positions in D, each appended in its turn.
Selected(s, D) ==
  LET upTo[i \in 0 .. Len(s)] ==
        IF i = 0 THEN <<>>
        ELSE IF i \in D THEN Append(upTo[i - 1], s[i]) ELSE upTo[i - 1]
  IN  upTo[Len(s)]

ScheduleOf(nodes, stack) ==
  Selected([i \in 1 .. Len(nodes) |-> EventOf(nodes, stack, i)],
           {i \in 1 .. Len(nodes) : IsKept(nodes, stack, i)})

\* The file has no key for `enabled': a load takes it from ENABLE_MINUTE.
Written(c) ==
  [c EXCEPT !.schedule =
     [i \in DOMAIN @ |-> [on |-> @[i].on, minute |-> @[i].minute,
                          at |-> @[i].at]]]

Loaded(f) ==
  [f EXCEPT !.schedule =
     [i \in DOMAIN @ |-> [on |-> @[i].on, enabled |-> @[i].minute,
                          minute |-> @[i].minute, at |-> @[i].at]]]
----------------------------------------------------------------------------
(***************************************************************************)
(* Telling the PMU.                                                        *)
(***************************************************************************)
StartupList(c) ==
  LET all == Selected(c.schedule, {i \in DOMAIN c.schedule :
                                     c.schedule[i].enabled /\ c.schedule[i].on})
  IN  SubSeq(all, 1, IF Len(all) < SentMax THEN Len(all) ELSE SentMax)

\* A schedule without start-up events tells the PMU nothing.
ListCommands(c) ==
  IF StartupList(c) = <<>> THEN <<>>
  ELSE <<[what |-> "list", value |-> StartupList(c)]>>

Kinds == {"list", "auto"}
Nothing == [what |-> "nothing"]

AutoStartCommand(c) == [what |-> "auto", value |-> c.state]

\* Commands are queued, in order.  (Other commands of the manager take part
\* in the traffic, which may cost these their place in the queue.)
Tell(new) ==
  IF new = <<>> THEN UNCHANGED <<lvars, content, reached>>
  ELSE \E first \in Numbers \ asked :
         LET N == first .. first + Len(new) - 1
         IN  /\ LAsk(N)
             /\ content' = [n \in Numbers |->
                              IF n \in N THEN new[n - first + 1] ELSE content[n]]
             /\ reached' = [what \in Kinds |->
                              reached[what] /\ \A i \in DOMAIN new : new[i].what # what]
----------------------------------------------------------------------------
(***************************************************************************)
(* Saving.  The file is replaced as a whole or not at all.                 *)
(***************************************************************************)
\* Mutant: a failed attempt clears the flag.
SyncForgets(c, d) ==
  /\ \/ file' = (IF d THEN <<Written(c)>> ELSE file) /\ failed' = FALSE
     \/ d /\ UNCHANGED file /\ failed' = TRUE
  /\ dirty' = FALSE

Sync(c, d) ==
  /\ \/ file' = (IF d THEN <<Written(c)>> ELSE file) /\ failed' = FALSE
     \/ d /\ UNCHANGED file /\ failed' = TRUE
  /\ dirty' = failed'
----------------------------------------------------------------------------
(***************************************************************************)
(* Commands of a client.                                                   *)
(***************************************************************************)
Handle ==
  /\ up /\ commands < MaxCommands
  /\ commands' = commands + 1

SetSchedule(nodes, stack) ==
  LET new == [cfg EXCEPT !.schedule = ScheduleOf(nodes, stack)]
  IN  /\ Handle
      /\ cfg' = new
      /\ Sync(new, TRUE)
      /\ Tell(ListCommands(new))
      /\ wish' = [wish EXCEPT !.schedule = new.schedule]
      /\ UNCHANGED <<up, pmu>>

Charged(c, given, state, timeout) ==
  [schedule |-> c.schedule, network |-> c.network,
   state |-> IF "state" \in given THEN state ELSE c.state,
   timeout |-> IF "timeout" \in given THEN timeout ELSE c.timeout]

\* The fields that are given; with neither, nothing changes.
SetCharger(given, state, timeout) ==
  LET new == Charged(cfg, given, state, timeout)
  IN  /\ Handle
      /\ cfg' = new
      /\ Tell(<<AutoStartCommand(new)>>)
      /\ Sync(new, dirty \/ given # {})
      /\ wish' = Charged(wish, given, state, timeout)
      /\ UNCHANGED <<up, pmu>>

\* Fields that are not given are reset.
SetNetwork(network) ==
  LET new == [cfg EXCEPT !.network = network]
  IN  /\ Handle
      /\ cfg' = new
      /\ Sync(new, TRUE)
      /\ wish' = [wish EXCEPT !.network = network]
      /\ UNCHANGED <<up, content, pmu, reached, lvars>>
----------------------------------------------------------------------------
(***************************************************************************)
(* The manager ends, by itself or killed, with nothing saved on the way,   *)
(* and starts again; commands the PMU has not got by then are forgotten.   *)
(***************************************************************************)
InFile == IF file = <<>> THEN Defaults ELSE Loaded(file[1])

End ==
  /\ up
  /\ up' = FALSE
  /\ floor' \in asked \cup {floor} /\ \A n \in asked : n <= floor'
  /\ content' = [n \in Numbers |-> Nothing]
  /\ wish' = IF failed THEN InFile ELSE wish
  /\ cfg' = Defaults
  /\ UNCHANGED <<dirty, file, pmu, reached, failed, commands, asked>>

\* Mutant: the PMU is trusted to remember the list.
StartCommandsAuto(c) == <<AutoStartCommand(c)>>

StartCommands(c) == Append(ListCommands(c), AutoStartCommand(c))

Start ==
  /\ ~up
  /\ up' = TRUE
  /\ cfg' = InFile
  /\ dirty' = FALSE /\ failed' = FALSE
  /\ Tell(StartCommands(InFile))
  /\ UNCHANGED <<file, pmu, wish, commands>>
----------------------------------------------------------------------------
(***************************************************************************)
(* The link and the PMU.                                                   *)
(***************************************************************************)
PmuReceives(n) ==
  /\ up
  /\ LReach(n)
  /\ LET what == content[n].what
     IN  /\ pmu' = [pmu EXCEPT ![what] = content[n].value]
         /\ reached' = [reached EXCEPT ![what] =
                          \A m \in asked : n < m => content[m].what # what]
  /\ content' = [m \in Numbers |-> IF m <= n THEN Nothing ELSE content[m]]
  /\ UNCHANGED <<up, cfg, dirty, file, wish, failed, commands>>

Init ==
  /\ LInit
  /\ up = FALSE /\ cfg = Defaults /\ dirty = FALSE /\ failed = FALSE
  /\ file = <<>>
  /\ content = [n \in Numbers |-> Nothing]
  /\ reached = [what \in Kinds |-> FALSE]
  /\ pmu = [list |-> <<>>, auto |-> FALSE]
  /\ wish = Defaults
  /\ commands = 0

Next ==
  \/ \E l \in EventLists, stack \in BOOLEAN : SetSchedule(l, stack)
  \/ \E given \in SUBSET {"state", "timeout"}, s \in BOOLEAN, t \in 0 .. 1 :
       SetCharger(given, s, t)
  \/ \E w \in Networks \cup {NoNetwork} : SetNetwork(w)
  \/ End \/ Start
  \/ \E n \in Numbers : PmuReceives(n)

Spec == Init /\ [][Next]_vars
----------------------------------------------------------------------------
Settings ==
  [schedule : Seq(Events), state : BOOLEAN, timeout : 0 .. 1,
   network : Networks \cup {NoNetwork}]

\* The state is well formed; a schedule never holds more than KeptMax events
\* of one action, also after a restart; and none of its enabled start-up
\* events is cut from the list for the PMU.
TypeOK ==
  /\ up \in BOOLEAN /\ dirty \in BOOLEAN /\ failed \in BOOLEAN
  /\ cfg \in Settings /\ wish \in Settings
  /\ file = <<>> \/ Loaded(file[1]) \in Settings
  /\ \A on \in BOOLEAN :
       Cardinality({i \in DOMAIN cfg.schedule : cfg.schedule[i].on = on}) <= KeptMax
  /\ Range(StartupList(cfg)) = {e \in Range(cfg.schedule) : e.on /\ e.enabled}
  /\ asked \subseteq Numbers /\ floor \in Numbers \cup {-1}
  /\ reached \in [Kinds -> BOOLEAN]
  /\ pmu.list \in Seq(Events) /\ pmu.auto \in BOOLEAN

\* What the user asked for is in force, over any number of restarts, failed
\* attempts to save and other settings in between; only an end of the
\* manager right after a command that could not save may undo it.  (The
\* flag `enabled' of an event is left to EnabledAsAsked.)
SettingsKept == up => Written(cfg) = Written(wish)

\* Once the PMU has the newest command of its kind, it has what the manager
\* goes by: the enabled start-up events, unless there are none, and the auto
\* start.  Restarts, overtaken, lost and repeated commands change nothing in
\* this (lines 409-481 and 1511-1517 of pmu-manager.c).
PmuFollows ==
  up => /\ reached["list"] /\ StartupList(cfg) # <<>> => pmu.list = StartupList(cfg)
        /\ reached["auto"] => pmu.auto = cfg.state

\* An event the user left disabled is skipped (`if(!sdata->enabled ||
\* ...) continue', lines 426 and 1263 of pmu-manager.c), also after a restart.
EnabledAsAsked == up => cfg.schedule = wish.schedule
=============================================================================
