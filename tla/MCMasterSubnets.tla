--------------------------- MODULE MCMasterSubnets ---------------------------
(* Values for the constants of MasterSubnets: h1, h2, h3 may be Kubernetes *)
(* nodes, and h2 may be a server outside Kubernetes.                        *)
EXTENDS MasterSubnets, TLC

CONSTANTS h1, h2, h3, ip1, ip2

OneNode   == (h1 :> {<<ip1>>}) @@ (h2 :> {})
TwoNodes  == (h1 :> {<<ip1>>}) @@ (h2 :> {<<ip2>>})
OneHost   == (h1 :> {<<ip1>>})
NoNodes   == (h2 :> {})
SameIP    == (h1 :> {<<ip1>>}) @@ (h2 :> {<<ip1>>})
Renaming  == (h1 :> {<<ip1>>}) @@ (h2 :> {<<ip1>>}) @@ (h3 :> {<<ip2>>})
Moving    == (h1 :> {<<ip1>>, <<ip2>>}) @@ (h2 :> {})

NoRequests    == {}
ServerRequest == {[key |-> ip2, host |-> h2, ip |-> ip2]}
(* Also one for a server that is, or becomes, a node. *)
BothRequests  == ServerRequest \cup {[key |-> ip1, host |-> h1, ip |-> ip1]}
(* The example of admin.md: the key is not the address in the record. *)
OtherKey      == {[key |-> ip2, host |-> h2, ip |-> ip1]}
=============================================================================
