---------------------------- MODULE NodeVnidMap ----------------------------
(***************************************************************************)
(* What a node knows of the VNIDs: nodeVNIDMap of src/ksdn/vnids_node.go   *)
(* as a value, the VNID of each namespace and the namespaces of each VNID. *)
(* Every method of the code holds the map's lock from beginning to end.    *)
(***************************************************************************)
CONSTANTS Namespaces,
          NetIDs,        \* the VNIDs records may carry, the global one included
          GlobalVNID,    \* vnid.GlobalVNID, zero
          NoVNID

ASSUME NodeVnidMapAssumption == GlobalVNID \in NetIDs /\ NoVNID \notin NetIDs

NodeVnidMaps == [ids : [Namespaces -> NetIDs \cup {NoVNID}],
                 namespaces : [NetIDs -> SUBSET Namespaces]]

newNodeVNIDMap == [ids |-> [ns \in Namespaces |-> NoVNID],
                   namespaces |-> [id \in NetIDs |-> {}]]

Knows(vmap, ns) == vmap.ids[ns] # NoVNID

removeNamespaceFromSet(vmap, ns) ==
    [vmap.namespaces EXCEPT ![vmap.ids[ns]] = @ \ {ns}]

(* A plausible slip: the namespace stays in the set of its old VNID. *)
setVNID_Stays(vmap, ns, id) ==
    [ids |-> [vmap.ids EXCEPT ![ns] = id],
     namespaces |-> [vmap.namespaces EXCEPT ![id] = @ \cup {ns}]]

setVNID(vmap, ns, id) ==
    LET left == IF Knows(vmap, ns) THEN removeNamespaceFromSet(vmap, ns) ELSE vmap.namespaces
    IN [ids |-> [vmap.ids EXCEPT ![ns] = id],
        namespaces |-> [left EXCEPT ![id] = @ \cup {ns}]]

unsetVNID(vmap, ns) ==
    IF Knows(vmap, ns) THEN [ids |-> [vmap.ids EXCEPT ![ns] = NoVNID],
                             namespaces |-> removeNamespaceFromSet(vmap, ns)]
    ELSE vmap

(* From the records, whatever they are. *)
populateVNIDs ==
    {[ids |-> ids, namespaces |-> [id \in NetIDs |-> {ns \in Namespaces : ids[ns] = id}]] :
        ids \in [Namespaces -> NetIDs \cup {NoVNID}]}

(* The two maps of the code say the same. *)
MapsAgree(vmap) ==
    \A id \in NetIDs : vmap.namespaces[id] = {ns \in Namespaces : vmap.ids[ns] = id}
=============================================================================
