--------------------------- MODULE MCNetworkConfig ---------------------------
(* Two NICs.  The lookups: none, an alias for the second, two aliases for   *)
(* one, an alias that is a NIC's name, one that no NIC answers, and a node  *)
(* of another host before one of this.                                      *)
EXTENDS NetworkConfig

CONSTANTS e1, e2, nic1, nic2, tenant

MCNics == {e1, e2}
MCPos == e1 :> 1 @@ e2 :> 2
MCNumberAlias == <<nic1, nic2>>
Node(map, byMac, dmi) == [map |-> map, byMac |-> byMac, dmi |-> dmi]
MCLookups == {<<>>,
              <<Node(nic1 :> e2, TRUE, FALSE)>>,
              <<Node(nic1 :> e1 @@ nic2 :> e1, FALSE, TRUE)>>,
              <<Node(e2 :> e1, FALSE, TRUE)>>,
              <<Node(tenant :> NoNic, TRUE, FALSE), Node(tenant :> e2 @@ nic1 :> NoNic, TRUE, FALSE)>>}
Leaf(key, value) == [key |-> key, value |-> value]
MCTemplates == {{Leaf("name", nic1), Leaf("description", nic1)}, {Leaf("port", tenant), Leaf("name", e1)}}
=============================================================================
