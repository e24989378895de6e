------------------------------ MODULE Filters ------------------------------
(***************************************************************************)
(* src/components/filters.rs: what the filters of interfaces decide.  A    *)
(* filter is the set of the elements it lets pass; none changes what it is *)
(* given, so that the order in which filters are combined, and where any   *)
(* and all stop looking, does not matter.                                  *)
(*                                                                         *)
(* A path is a sequence of sets of AS numbers: an ASN is the set of one,   *)
(* and a path that is not there is the empty one.                          *)
(***************************************************************************)
EXTENDS Sequences

CONSTANTS
  Ads,      (* advertisements, with host and path                          *)
  Networks  (* the networks routes go to, as sets of addresses, nested or  *)
            (* disjoint                                                    *)

NoFilter == Ads
HostFilter(host) == { ad \in Ads : ad.host = host }
OwnASFilter(asn) ==
  { ad \in Ads : ~ \E i \in DOMAIN ad.path : asn \in ad.path[i] }

(* Of no filters at all, the first lets nothing pass, the second all.      *)
CombinedOrFilter(filters) == UNION filters
CombinedAndFilter(filters) == { ad \in Ads : \A f \in filters : ad \in f }

(* A Vec passes if one, or each, of its elements does.                     *)
VecFilterAny(f, v) == \E i \in DOMAIN v : v[i] \in f
VecFilterAll(f, v) == \A i \in DOMAIN v : v[i] \in f

(* The networks that overlap the one named, which the filter lets pass: a  *)
(* list of what is allowed, despite its name.                              *)
IpNetworkBlacklistFilter(network) == { n \in Networks : n \cap network # {} }
=============================================================================
