------------------------------ MODULE Topology ------------------------------
(***************************************************************************)
(* src/utils/topology.rs: the graph a network is made from.  The vertices  *)
(* are a Vec of keys with their values, the edges a Vec of pairs of keys;  *)
(* what an edge carries, the configurations of two sessions and the size   *)
(* of a link, is left out.                                                 *)
(***************************************************************************)
EXTENDS Sequences, Integers

CONSTANT Default   (* the value of a vertex that only an edge names        *)

NewTopology == [vertices |-> <<>>, edges |-> <<>>]

Positions(t, key) == { i \in DOMAIN t.vertices : t.vertices[i].key = key }
ContainsVertex(t, key) == Positions(t, key) # {}

(* add_vertex overwrites the value of a vertex that exists.                *)
AddVertex(t, key, value) ==
  [t EXCEPT !.vertices =
     IF ContainsVertex(t, key)
     THEN [i \in DOMAIN @ |-> IF @[i].key = key THEN [@[i] EXCEPT !.value = value] ELSE @[i]]
     ELSE Append(@, [key |-> key, value |-> value])]

(* A vertex that an edge needs.                                            *)
Endpoint(t, key) ==
  IF ContainsVertex(t, key) THEN t ELSE AddVertex(t, key, Default)

(* A faulty variant that does not look whether the ends exist.             *)
AddEdgeUnlooked(t, edge) ==
  [vertices |-> t.vertices \o <<[key |-> edge[1], value |-> Default],
                                [key |-> edge[2], value |-> Default]>>,
   edges |-> Append(t.edges, edge)]

(* add_edge adds the ends that do not exist yet, one after the other: an   *)
(* edge from a new vertex to itself adds it once.                          *)
AddEdge(t, edge) ==
  [Endpoint(Endpoint(t, edge[1]), edge[2]) EXCEPT !.edges = Append(@, edge)]
=============================================================================
