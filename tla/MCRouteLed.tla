----------------------------- MODULE MCRouteLed -----------------------------
(***************************************************************************)
(* RouteLed with three policies: no live rule, a wired route behind a rule *)
(* without a share and one of a foreign interface, and a mobile route that *)
(* only the IPv6 policy has.                                               *)
(***************************************************************************)
EXTENDS RouteLed

Rule(iface, share) == [iface |-> iface, share |-> share]

MCPolicies ==
  {[ipv4 |-> <<Rule("wan", FALSE)>>, ipv6 |-> <<Rule("other", TRUE)>>],
   [ipv4 |-> <<Rule("wwan", FALSE), Rule("other", TRUE), Rule("wan", TRUE)>>,
    ipv6 |-> <<Rule("wwan", TRUE)>>],
   [ipv4 |-> <<Rule("wan", FALSE)>>, ipv6 |-> <<Rule("wwan", TRUE)>>]}
=============================================================================
