--------------------------- MODULE MCControlSocket ---------------------------
(***************************************************************************)
(* ControlSocket on small instances.  Client a sends a command, one that   *)
(* does not fit, and two more; client b one that is not known and one that *)
(* just fits.                                                              *)
(***************************************************************************)
EXTENDS ControlSocket

MCClients == {"a", "b"}
MCLast == [c \in MCClients |-> IF c = "a" THEN <<1, 6, 7, 8>> ELSE <<1, 4>>]
MCKnown == [c \in MCClients |-> IF c = "a" THEN 1 .. 4 ELSE {2}]
=============================================================================
