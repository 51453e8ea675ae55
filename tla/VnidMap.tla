------------------------------ MODULE VnidMap ------------------------------
(***************************************************************************)
(* The master's in-memory VNID map (masterVNIDMap in                       *)
(* src/ksdn/vnids_master.go) as a value and the operations on it.  A map   *)
(* is a record of                                                          *)
(*   ids        the VNID each namespace holds (vmap.ids), NoVNID for a     *)
(*              namespace the map has no entry for;                        *)
(*   allocated  the bits set in vmap.netIDManager, the bitmap allocator    *)
(*              over the range of VNIDs that may be given out.             *)
(* An operation that may fail, or may choose a VNID, yields the set of the *)
(* maps it can leave behind: the empty set when it returns an error and    *)
(* leaves the map as it was.  The machines that use this module apply the  *)
(* operations under vmap.lock.                                             *)
(***************************************************************************)
EXTENDS Integers

CONSTANTS Namespaces,       \* names a Kubernetes namespace can have
          AdminNamespaces,  \* those created with the global VNID (utils.SdnNamespace)
          VNIDs             \* the allocation range, MinVNID .. MaxVNID in the code

GlobalVNID == 0             \* reaches, and is reached by, every namespace
NoVNID     == -1            \* "not found" of a lookup

ASSUME VnidMapAssumption == /\ AdminNamespaces \subseteq Namespaces
                            /\ VNIDs \subseteq Nat \ {GlobalVNID}

VnidMaps == [ids       : [Namespaces -> VNIDs \cup {GlobalVNID, NoVNID}],
             allocated : SUBSET VNIDs]

newMasterVNIDMap == [ids |-> [ns \in Namespaces |-> NoVNID], allocated |-> {}]

setVNID(vm, ns, id) == [vm EXCEPT !.ids[ns] = id]

(* getVNIDCount is the size of this set; the code only compares it with 0 and 1. *)
NamespacesOf(vm, id) == {ns \in Namespaces : vm.ids[ns] = id}

(* netIDManager: AllocateNext returns any member of FreeVNIDs. *)
FreeVNIDs(vm)   == VNIDs \ vm.allocated
Allocate(vm, id) == [vm EXCEPT !.allocated = @ \cup {id}]
Release(vm, id)  == [vm EXCEPT !.allocated = @ \ {id}]

(* The VNIDs of the range that some namespace holds; the allocator is exact *)
(* when those, and the VNIDs set apart in extra, are what it has allocated.  *)
HeldVNIDs(vm)         == {vm.ids[ns] : ns \in Namespaces} \cap VNIDs
AllocatedBut(vm, extra) == vm.allocated = HeldVNIDs(vm) \cup extra
AllocatorExact(vm)    == AllocatedBut(vm, {})

(* The namespaces that share a network with each namespace, itself included. *)
PeersOf(vm) == [ns \in Namespaces |-> IF vm.ids[ns] = NoVNID THEN {}
                                      ELSE NamespacesOf(vm, vm.ids[ns])]

-----------------------------------------------------------------------------

(* Plausible slips in populateVNIDs and releaseNetID, used to show that the properties notice them. *)
populateVNIDs_NoAllocate(recorded) == [ids |-> recorded, allocated |-> {}]
populateVNIDs_WithGlobal(recorded) ==
    [ids |-> recorded, allocated |-> {recorded[ns] : ns \in Namespaces} \ {NoVNID}]
releaseNetID_Shared(vm, ns) ==
    IF vm.ids[ns] \in {NoVNID, GlobalVNID}
      THEN setVNID(vm, ns, NoVNID)
      ELSE Release(setVNID(vm, ns, NoVNID), vm.ids[ns])

-----------------------------------------------------------------------------

(* The map a starting master builds from the NetIDs recorded in etcd. *)
populateVNIDs(recorded) ==
    [ids |-> recorded, allocated |-> {recorded[ns] : ns \in Namespaces} \cap VNIDs]

(* The namespace leaves the map; its VNID is freed once no other entry has it. *)
releaseNetID(vm, ns) ==
    LET id == vm.ids[ns]
        without == setVNID(vm, ns, NoVNID)
    IN  IF id \in {NoVNID, GlobalVNID} \/ NamespacesOf(without, id) # {}
          THEN without
          ELSE Release(without, id)

(* A namespace the map does not know gets the global VNID or a free one. *)
allocateNetID(vm, ns) ==
    IF ns \in AdminNamespaces
      THEN {setVNID(vm, ns, GlobalVNID)}
      ELSE {setVNID(Allocate(vm, id), ns, id) : id \in FreeVNIDs(vm)}

(* A plausible slip: the old VNID is not released. *)
updateNetID_KeepOld(vm, ns, action, joinNs) ==
    CASE vm.ids[ns] = NoVNID -> {}
      [] action = "global"   -> {setVNID(vm, ns, GlobalVNID)}
      [] action = "join"     -> IF vm.ids[joinNs] = NoVNID THEN {}
                                ELSE {setVNID(vm, ns, vm.ids[joinNs])}
      [] action = "isolate"  -> {setVNID(Allocate(vm, id), ns, id) : id \in FreeVNIDs(vm)}

(* What an administrator's action does to the namespace's VNID.  The old VNID is *)
(* released after the new one is known, and an unknown action is an error.       *)
updateNetID(vm, ns, action, joinNs) ==
    LET oldnetid == vm.ids[ns]
        moved(v, id) == setVNID(releaseNetID(v, ns), ns, id)
    IN IF oldnetid = NoVNID THEN {} ELSE
       CASE action = "global"  -> {moved(vm, GlobalVNID)}
         [] action = "join"    -> {moved(vm, id) : id \in {vm.ids[joinNs]} \ {NoVNID}}
         [] action = "isolate" -> IF NamespacesOf(vm, oldnetid) = {ns}
                                    THEN {vm}
                                    ELSE {moved(Allocate(vm, id), id) : id \in FreeVNIDs(vm)}
         [] OTHER              -> {}
=============================================================================
