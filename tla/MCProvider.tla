------------------------------ MODULE MCProvider ------------------------------
(***************************************************************************)
(* Two hosts, of which one is configured at two ports, so that a pass asks *)
(* for its name twice; a known prefix; and configurations without refresh, *)
(* with prefixes only, and with nothing.                                   *)
(***************************************************************************)
EXTENDS Provider

CONSTANTS h1, h2, i1, i2

MCPorts == {443, 8443}
Url(host, port) == [host |-> host, port |-> port]
Full == <<Url(h1, 443), Url(h2, 443), Url(h1, 8443)>>

MCConfigs ==
    {[targets |-> Full, known |-> {}, refresh |-> TRUE],
     [targets |-> Full, known |-> {i2}, refresh |-> FALSE],
     [targets |-> << >>, known |-> {i1}, refresh |-> TRUE],
     [targets |-> << >>, known |-> {}, refresh |-> TRUE]}
=============================================================================
