--------------------------- MODULE MCModemManager ---------------------------
(***************************************************************************)
(* ModemManager with two names for programs: the one on record and the one *)
(* freed before it.                                                        *)
(***************************************************************************)
EXTENDS ModemManager

MCProcesses == {"first", "second"}
=============================================================================
