---------------------------- MODULE InterfaceMC ----------------------------
(***************************************************************************)
(* A small instance of Interface: five messages, filtered by host on their *)
(* way out and for loops on their way in, as in a test of interface.rs.    *)
(***************************************************************************)
EXTENDS Interface

Good == "rrc15"
Also == "rrc16"
Ad(host, path) == [host |-> host, path |-> path]

(* The advertisements pushed, in their order.                              *)
Content ==
  << Ad(Good, <<{1}>>), Ad("rrc00", <<{1}>>), Ad(Good, <<{1}, {7, 8}>>),
     Ad(Also, <<>>), Ad(Good, <<{1}, {9}>>) >>

Filter == INSTANCE Filters WITH
  Ads <- { Content[m] : m \in DOMAIN Content }, Networks <- {{1}, {2}, {1, 2}}

Passing(f) == { m \in DOMAIN Content : Content[m] \in f }
MCOutPass ==
  Passing(Filter!CombinedOrFilter({Filter!HostFilter(Good), Filter!HostFilter(Also)}))
MCInPass ==
  Passing(Filter!CombinedAndFilter({Filter!NoFilter, Filter!OwnASFilter(7)}))

(* What the filters decide, after the tests of filters.rs: a number in an  *)
(* AS set is found, any needs one element and all needs each, and networks *)
(* on either side of the one named overlap it.                             *)
ASSUME FilterTests ==
  LET host == Filter!HostFilter(Good) IN
  /\ MCInPass = DOMAIN Content \ {3}
  /\ MCOutPass = DOMAIN Content \ {2}
  /\ Filter!VecFilterAny(host, <<Content[2], Content[1]>>)
  /\ ~ Filter!VecFilterAny(host, <<Content[2], Content[4]>>)
  /\ Filter!VecFilterAll(host, <<Content[1], Content[3]>>)
  /\ ~ Filter!VecFilterAll(host, <<Content[1], Content[2]>>)
  /\ Filter!IpNetworkBlacklistFilter({1}) = {{1}, {1, 2}}
=============================================================================
