------------------------------ MODULE Tenancy ------------------------------
(***************************************************************************)
(* What tenants are promised, without VNIDs: which namespaces share a      *)
(* virtual network.  A namespace gets a network of its own when it is      *)
(* admitted, and from then on only a request about one namespace changes   *)
(* who shares with whom, and only for that namespace.                      *)
(***************************************************************************)
CONSTANTS Namespaces, AdminNamespaces

VARIABLES peers,    \* the namespaces on the same network, the namespace included; {} if not admitted
          globals   \* the namespaces on the network that reaches every other one

vars == <<peers, globals>>

Admitted == {ns \in Namespaces : peers[ns] # {}}

TypeOK == /\ peers \in [Namespaces -> SUBSET Namespaces]
          /\ globals \subseteq Namespaces

Init == /\ peers = [ns \in Namespaces |-> {}]
        /\ globals = {}

(* ns, wherever it was, is now with the members of group only. *)
Moved(ns, group) ==
    [m \in Namespaces |-> CASE m = ns                    -> (group \ {ns}) \cup {ns}
                            [] m # ns /\ m \in group     -> (peers[m] \ {ns}) \cup {ns}
                            [] m # ns /\ m \notin group  -> peers[m] \ {ns}]

Admit(ns) == /\ ns \notin Admitted \cup AdminNamespaces
             /\ peers' = Moved(ns, {})
             /\ UNCHANGED globals

MakeGlobal(ns) == /\ ns \in Admitted \cup AdminNamespaces
                  /\ peers' = Moved(ns, globals)
                  /\ globals' = globals \cup {ns}

Join(ns, other) == /\ {ns, other} \subseteq Admitted
                   /\ peers' = Moved(ns, peers[other])
                   /\ globals' = IF other \in globals THEN globals \cup {ns} ELSE globals \ {ns}

Isolate(ns) == /\ ns \in Admitted
               /\ peers' = Moved(ns, {})
               /\ globals' = globals \ {ns}

Dismiss(ns) == /\ peers' = [Moved(ns, {}) EXCEPT ![ns] = {}]
               /\ globals' = globals \ {ns}

Next == \E ns \in Namespaces :
            \/ Admit(ns)
            \/ MakeGlobal(ns)
            \/ \E other \in Namespaces : Join(ns, other)
            \/ Isolate(ns)
            \/ Dismiss(ns)

Spec == Init /\ [][Next]_vars
=============================================================================
