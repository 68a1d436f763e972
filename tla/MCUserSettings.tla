--------------------------- MODULE MCUserSettings ---------------------------
(***************************************************************************)
(* UserSettings with one list whose first event has no action, so that it  *)
(* switches on or off as the stack has it, and whose second is disabled    *)
(* with ENABLE_MINUTE in its bits; one with more events of one action than *)
(* are kept; and one without events.                                       *)
(***************************************************************************)
EXTENDS UserSettings

Node(a, e, m, at) == [action |-> a, enabled |-> e, minute |-> m, at |-> at]

MCEventLists == {
  <<>>,
  <<Node("absent", TRUE, FALSE, 1), Node("on", FALSE, TRUE, 2)>>,
  <<Node("on", TRUE, TRUE, 2), Node("absent", TRUE, FALSE, 1), Node("on", TRUE, TRUE, 1)>>}

MCNumbers == 0 .. 6
MCNetworks == {"apn"}
=============================================================================
