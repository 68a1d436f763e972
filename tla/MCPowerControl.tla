--------------------------- MODULE MCPowerControl ---------------------------
(***************************************************************************)
(* PowerControl with room for the watchdog command of the start, one       *)
(* SIGUSR1, one reboot and one shutdown.                                   *)
(***************************************************************************)
EXTENDS PowerControl

MCNumbers == 0 .. 3
=============================================================================
