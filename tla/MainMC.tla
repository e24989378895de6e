------------------------------- MODULE MainMC -------------------------------
(***************************************************************************)
(* main with a network of two routers and one link.                        *)
(***************************************************************************)
EXTENDS Main

CONSTANTS a, b

MCIds == <<a, b>>
MCEdges == <<<<a, b>>>>
MCConnections == {<<a, b>>}
=============================================================================
