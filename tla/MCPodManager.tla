---------------------------- MODULE MCPodManager ----------------------------
(* Values for the constants of PodManager: pods of one or two namespaces. *)
EXTENDS PodManager, TLC

CONSTANTS p1, p2, ns1, ns2, ip1, ip2

TwoNamespaces == (p1 :> ns1) @@ (p2 :> ns2)
OneNamespace  == (p1 :> ns1) @@ (p2 :> ns1)
=============================================================================
