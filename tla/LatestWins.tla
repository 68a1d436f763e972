------------------------------ MODULE LatestWins ------------------------------
(***************************************************************************)
(* The service of the link to the PMU (OrderedService) as seen by code     *)
(* that only cares which setting is in force: commands are numbered as     *)
(* they are asked for, any of them may get lost, one may come again, but   *)
(* none comes after a younger one.                                         *)
(***************************************************************************)
EXTENDS Integers

CONSTANT Numbers      \* numbers of the commands

VARIABLES asked,      \* the commands asked for
          floor       \* the youngest the PMU has got, -1 if none: no older one
                      \* will still come

lvars == <<asked, floor>>

LInit == asked = {} /\ floor = -1

LAsk(S) ==
  /\ S \subseteq Numbers /\ S \cap asked = {}
  /\ \A n \in S, m \in Numbers : m < n => m \in S \cup asked
  /\ asked' = asked \cup S
  /\ UNCHANGED floor

LReach(n) ==
  /\ n \in asked /\ floor < n
  /\ floor' = n
  /\ UNCHANGED asked

LNext == (\E S \in SUBSET Numbers : LAsk(S)) \/ (\E n \in Numbers : LReach(n))

LSpec == LInit /\ [][LNext]_lvars
=============================================================================
