-------------------------- MODULE NetworkManagerMC --------------------------
(***************************************************************************)
(* A small instance of NetworkManager: two ids and two routers, so that    *)
(* an id can be inserted again while its first router runs.                *)
(***************************************************************************)
EXTENDS NetworkManager

CONSTANTS a, b

MCConnections == {<<a, b>>, <<b, b>>}
MCName == {0}
=============================================================================
