----------------------------- MODULE MCPmuStatus -----------------------------
(***************************************************************************)
(* PmuStatus on small instances: tables of two intervals, one of them not  *)
(* usable in the configuration; three times, of which one is the minute of *)
(* an hourly event and one the hour of a weekly event.                     *)
(***************************************************************************)
EXTENDS PmuStatus

MCBuiltin == [name \in Tables |->
  CASE name = "charge" -> <<8, 6, 4>> [] name = "normal" -> <<7, 5, 3>>
    [] name = "5g" -> <<6, 4, 3>>]
MCConfigured == [MCBuiltin EXCEPT !["normal"] = <<7, 7, 3>>, !["5g"] = <<6, 3, 2>>]
MCVoltages == {2, 5, 8}

Time(day, dow, hour, minute) ==
  [year |-> 2024, month |-> 1, day |-> day, dow |-> dow, hour |-> hour,
   minute |-> minute]
Event(bits, on) ==
  [enabled |-> TRUE, on |-> on, bits |-> bits, year |-> 2024, month |-> 1,
   day |-> 7, dow |-> {0, 6}, hour |-> 22, minute |-> 30]

MCTimes == {Time(1, 1, 22, 30), Time(7, 0, 22, 30)}
MCSchedule == {Event({"minute", "dow"}, FALSE), Event({"minute", "hour"}, TRUE)}
MCChargers == {[on |-> o, timeout |-> 2] : o \in BOOLEAN}
MCClocks == {0, 1}
=============================================================================
