----------------------------- MODULE MCPmuLink -----------------------------
(***************************************************************************)
(* PmuLink on small instances; the two kinds of command the link itself    *)
(* originates suffice, a Request step may ask for either.                  *)
(***************************************************************************)
EXTENDS PmuLink

MCRequests == {"time_sync", "threshold"}
=============================================================================
