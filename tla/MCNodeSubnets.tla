--------------------------- MODULE MCNodeSubnets ---------------------------
(* Values for the constants of NodeSubnets: two other hosts, which have or *)
(* ask for a subnet, under their addresses.                                *)
EXTENDS NodeSubnets, TLC

CONSTANTS h1, h2, ip1, ip2, p1, p2, s1, s2

OwnHost   == (ip1 :> {h1}) @@ (ip2 :> {h2})
FullPath  == (ip1 :> p1) @@ (ip2 :> p2)
D(ip, S)  == {[ip |-> ip, subnet |-> s] : s \in S}
HostData  == (ip1 :> D(ip1, {s1, s2})) @@ (ip2 :> D(ip2, {s1, NoSubnet}))
OtherHost == (ip1 :> D(ip1, {s1, s2})) @@ (ip2 :> D(ip2, {s1}))
AllData   == UNION {HostData[k] : k \in Keys}
=============================================================================
