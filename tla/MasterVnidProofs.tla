-------------------------- MODULE MasterVnidProofs --------------------------
(***************************************************************************)
(* Proofs about MasterVnid, for all values of the constants: what the      *)
(* operations of VnidMap preserve; type correctness, the exactness of the  *)
(* VNID allocator and the agreement of master and etcd; that MasterVnid    *)
(* implements Tenancy, and that tenants nobody asked to merge stay apart   *)
(* in etcd.                                                                *)
(***************************************************************************)
EXTENDS MasterVnid, FiniteSetTheorems, TLAPS

-----------------------------------------------------------------------------
(* The operations of the map. *)

(* setVNID touches one entry of the map and nothing of the allocator. *)
LEMMA SetVNIDFacts ==
    ASSUME NEW vm \in VnidMaps, NEW ns \in Namespaces,
           NEW id \in VNIDs \cup {GlobalVNID, NoVNID}
    PROVE  /\ setVNID(vm, ns, id) \in VnidMaps
           /\ setVNID(vm, ns, id).allocated = vm.allocated
           /\ setVNID(vm, ns, id).ids = [vm.ids EXCEPT ![ns] = id]
  BY DEF setVNID, VnidMaps

(* Allocate and Release touch one bit of the allocator and no entry. *)
LEMMA AllocateFacts ==
    ASSUME NEW vm \in VnidMaps, NEW id \in VNIDs
    PROVE  /\ Allocate(vm, id) \in VnidMaps
           /\ Allocate(vm, id).ids = vm.ids
           /\ Allocate(vm, id).allocated = vm.allocated \cup {id}
  BY DEF Allocate, VnidMaps

LEMMA ReleaseFacts ==
    ASSUME NEW vm \in VnidMaps, NEW id \in VNIDs
    PROVE  /\ Release(vm, id) \in VnidMaps
           /\ Release(vm, id).ids = vm.ids
           /\ Release(vm, id).allocated = vm.allocated \ {id}
  BY DEF Release, VnidMaps

(* releaseNetID removes the namespace's entry and no other. *)
LEMMA ReleaseNetIDFacts ==
    ASSUME NEW vm \in VnidMaps, NEW ns \in Namespaces
    PROVE  /\ releaseNetID(vm, ns) \in VnidMaps
           /\ releaseNetID(vm, ns).ids = [vm.ids EXCEPT ![ns] = NoVNID]
<1> DEFINE without == setVNID(vm, ns, NoVNID)
<1>1. /\ without \in VnidMaps
      /\ without.ids = [vm.ids EXCEPT ![ns] = NoVNID]
  BY SetVNIDFacts
<1>2. CASE vm.ids[ns] \in {NoVNID, GlobalVNID} \/ NamespacesOf(without, vm.ids[ns]) # {}
  <2>1. releaseNetID(vm, ns) = without
    BY <1>2 DEF releaseNetID
  <2> QED BY <1>1, <2>1
<1>3. CASE ~ (vm.ids[ns] \in {NoVNID, GlobalVNID} \/ NamespacesOf(without, vm.ids[ns]) # {})
  <2>1. releaseNetID(vm, ns) = Release(without, vm.ids[ns])
    BY <1>3 DEF releaseNetID
  <2>2. vm.ids[ns] \in VNIDs
    BY <1>3 DEF VnidMaps
  <2> HIDE DEF without
  <2> QED BY <1>1, <2>1, <2>2, ReleaseFacts
<1> QED BY <1>2, <1>3

(* releaseNetID keeps the allocator exact: the VNID is freed with its last *)
(* holder.  extra are VNIDs reserved for an update under way.              *)
LEMMA ReleaseNetIDExact ==
    ASSUME NEW vm \in VnidMaps, NEW ns \in Namespaces, NEW extra \in SUBSET VNIDs,
           AllocatedBut(vm, extra), extra \cap HeldVNIDs(vm) = {}
    PROVE  AllocatedBut(releaseNetID(vm, ns), extra)
<1> DEFINE without == setVNID(vm, ns, NoVNID)
           id == vm.ids[ns]
<1>1. /\ without \in VnidMaps
      /\ without.ids = [vm.ids EXCEPT ![ns] = NoVNID]
      /\ without.allocated = vm.allocated
  BY SetVNIDFacts
<1>2. NoVNID \notin VNIDs /\ GlobalVNID \notin VNIDs
  BY VnidMapAssumption DEF NoVNID, GlobalVNID
<1>3. /\ id \in VNIDs \cup {GlobalVNID, NoVNID}
      /\ vm.ids \in [Namespaces -> VNIDs \cup {GlobalVNID, NoVNID}]
  BY DEF VnidMaps
<1>4. HeldVNIDs(vm) = HeldVNIDs(without) \cup ({id} \cap VNIDs)
  BY <1>1, <1>2, <1>3 DEF HeldVNIDs
<1>5. CASE id \in {NoVNID, GlobalVNID} \/ NamespacesOf(without, id) # {}
  <2>1. releaseNetID(vm, ns) = without
    BY <1>5 DEF releaseNetID
  <2>2. {id} \cap VNIDs \subseteq HeldVNIDs(without)
    BY <1>1, <1>2, <1>5 DEF HeldVNIDs, NamespacesOf
  <2> QED BY <1>1, <1>4, <2>1, <2>2 DEF AllocatedBut
<1>6. CASE ~ (id \in {NoVNID, GlobalVNID} \/ NamespacesOf(without, id) # {})
  <2>1. releaseNetID(vm, ns) = Release(without, id)
    BY <1>6 DEF releaseNetID
  <2>2. id \in VNIDs /\ id \notin HeldVNIDs(without)
    BY <1>3, <1>6 DEF HeldVNIDs, NamespacesOf
  <2>3. id \notin extra
    BY <1>4, <2>2
  <2>4. /\ releaseNetID(vm, ns).ids = without.ids
        /\ releaseNetID(vm, ns).allocated = without.allocated \ {id}
    <3> HIDE DEF without, id
    <3> QED BY <1>1, <2>1, <2>2, ReleaseFacts
  <2>5. HeldVNIDs(releaseNetID(vm, ns)) = HeldVNIDs(without)
    BY <2>4 DEF HeldVNIDs
  <2> QED BY <1>1, <1>4, <2>2, <2>3, <2>4, <2>5 DEF AllocatedBut
<1> QED BY <1>5, <1>6

(* Giving a namespace without an entry a VNID leaves the allocator exact if *)
(* that VNID, when it is of the range, was all there was to set apart.       *)
LEMMA SetVNIDExact ==
    ASSUME NEW vm \in VnidMaps, NEW ns \in Namespaces, vm.ids[ns] = NoVNID,
           NEW id \in VNIDs \cup {GlobalVNID},
           AllocatedBut(vm, {id} \cap VNIDs)
    PROVE  AllocatorExact(setVNID(vm, ns, id))
<1>1. NoVNID \notin VNIDs /\ GlobalVNID \notin VNIDs
  BY VnidMapAssumption DEF NoVNID, GlobalVNID
<1>2. /\ setVNID(vm, ns, id).allocated = vm.allocated
      /\ setVNID(vm, ns, id).ids = [vm.ids EXCEPT ![ns] = id]
  BY SetVNIDFacts
<1>3. HeldVNIDs(setVNID(vm, ns, id)) = HeldVNIDs(vm) \cup ({id} \cap VNIDs)
  BY <1>1, <1>2 DEF HeldVNIDs, VnidMaps
<1> QED BY <1>2, <1>3 DEF AllocatedBut, AllocatorExact

(* A new namespace: typed, exact, and no other entry changes. *)
LEMMA AllocateNetIDFacts ==
    ASSUME NEW vm \in VnidMaps, NEW ns \in Namespaces, NEW m \in allocateNetID(vm, ns)
    PROVE  /\ m \in VnidMaps
           /\ m.ids[ns] \in (VNIDs \ vm.allocated) \cup {GlobalVNID}
           /\ \A n \in Namespaces : n # ns => m.ids[n] = vm.ids[n]
<1>1. CASE ns \in AdminNamespaces
  <2>1. m = setVNID(vm, ns, GlobalVNID)
    BY <1>1 DEF allocateNetID
  <2>2. m \in VnidMaps /\ m.ids = [vm.ids EXCEPT ![ns] = GlobalVNID]
    BY <2>1, SetVNIDFacts
  <2>3. m.ids[ns] = GlobalVNID
    BY <2>2 DEF VnidMaps
  <2> QED BY <2>2, <2>3 DEF VnidMaps
<1>2. CASE ns \notin AdminNamespaces
  <2>1. PICK id \in VNIDs \ vm.allocated : m = setVNID(Allocate(vm, id), ns, id)
    BY <1>2 DEF allocateNetID, FreeVNIDs
  <2>2. Allocate(vm, id) \in VnidMaps /\ Allocate(vm, id).ids = vm.ids
    BY AllocateFacts
  <2>3. m \in VnidMaps /\ m.ids = [vm.ids EXCEPT ![ns] = id]
    BY <2>1, <2>2, SetVNIDFacts
  <2> QED BY <2>3 DEF VnidMaps
<1> QED BY <1>1, <1>2

LEMMA AllocateNetIDExact ==
    ASSUME NEW vm \in VnidMaps, NEW ns \in Namespaces, vm.ids[ns] = NoVNID,
           NEW m \in allocateNetID(vm, ns), AllocatorExact(vm)
    PROVE  AllocatorExact(m)
<1>1. CASE ns \in AdminNamespaces
  <2>1. m = setVNID(vm, ns, GlobalVNID)
    BY <1>1 DEF allocateNetID
  <2>2. AllocatedBut(vm, {GlobalVNID} \cap VNIDs)
    BY VnidMapAssumption DEF AllocatorExact, AllocatedBut
  <2> QED BY <2>1, <2>2, SetVNIDExact
<1>2. CASE ns \notin AdminNamespaces
  <2>1. PICK id \in VNIDs \ vm.allocated : m = setVNID(Allocate(vm, id), ns, id)
    BY <1>2 DEF allocateNetID, FreeVNIDs
  <2>2. /\ Allocate(vm, id) \in VnidMaps
        /\ Allocate(vm, id).ids = vm.ids
        /\ Allocate(vm, id).allocated = vm.allocated \cup {id}
    BY AllocateFacts
  <2>3. AllocatedBut(Allocate(vm, id), {id} \cap VNIDs)
    BY <2>2 DEF AllocatorExact, AllocatedBut, HeldVNIDs
  <2> QED BY <2>1, <2>2, <2>3, SetVNIDExact
<1> QED BY <1>1, <1>2

(* An update moves one namespace, to the global VNID, to the VNID of the     *)
(* namespace it joins, or to one nobody had; or it changes nothing.          *)
LEMMA UpdateNetIDCases ==
    ASSUME NEW vm \in VnidMaps, NEW ns \in Namespaces, NEW other \in Namespaces,
           NEW action, NEW m \in updateNetID(vm, ns, action, other)
    PROVE  /\ vm.ids[ns] # NoVNID
           /\ \/ m = vm
              \/ m = setVNID(releaseNetID(vm, ns), ns, GlobalVNID)
              \/ /\ action = "join"
                 /\ vm.ids[other] # NoVNID
                 /\ m = setVNID(releaseNetID(vm, ns), ns, vm.ids[other])
              \/ \E id \in VNIDs \ vm.allocated :
                    m = setVNID(releaseNetID(Allocate(vm, id), ns), ns, id)
  BY DEF updateNetID, FreeVNIDs

LEMMA UpdateNetIDFacts ==
    ASSUME NEW vm \in VnidMaps, NEW ns \in Namespaces, NEW other \in Namespaces,
           NEW action, NEW m \in updateNetID(vm, ns, action, other)
    PROVE  /\ m \in VnidMaps
           /\ m.ids[ns] # NoVNID
           /\ \A n \in Namespaces : n # ns => m.ids[n] = vm.ids[n]
<1>0. NoVNID \notin VNIDs /\ GlobalVNID # NoVNID
  BY VnidMapAssumption DEF NoVNID, GlobalVNID
<1>1. /\ releaseNetID(vm, ns) \in VnidMaps
      /\ releaseNetID(vm, ns).ids = [vm.ids EXCEPT ![ns] = NoVNID]
  BY ReleaseNetIDFacts
<1>2. CASE m = vm
  BY <1>2, UpdateNetIDCases DEF VnidMaps
<1>3. ASSUME NEW id \in VNIDs \cup {GlobalVNID},
             m = setVNID(releaseNetID(vm, ns), ns, id)
      PROVE  /\ m \in VnidMaps /\ m.ids[ns] # NoVNID
             /\ \A n \in Namespaces : n # ns => m.ids[n] = vm.ids[n]
  <2> DEFINE r == releaseNetID(vm, ns)
  <2>1. r \in VnidMaps /\ r.ids = [vm.ids EXCEPT ![ns] = NoVNID]
    BY <1>1
  <2> HIDE DEF r
  <2>2. m \in VnidMaps /\ m.ids = [r.ids EXCEPT ![ns] = id]
    BY <1>3, <2>1, SetVNIDFacts DEF r
  <2> QED BY <1>0, <2>1, <2>2 DEF VnidMaps
<1>4. ASSUME NEW id \in VNIDs \ vm.allocated,
             m = setVNID(releaseNetID(Allocate(vm, id), ns), ns, id)
      PROVE  /\ m \in VnidMaps /\ m.ids[ns] # NoVNID
             /\ \A n \in Namespaces : n # ns => m.ids[n] = vm.ids[n]
  <2>1. Allocate(vm, id) \in VnidMaps /\ Allocate(vm, id).ids = vm.ids
    BY AllocateFacts
  <2> DEFINE r == releaseNetID(Allocate(vm, id), ns)
  <2>2. r \in VnidMaps /\ r.ids = [vm.ids EXCEPT ![ns] = NoVNID]
    BY <2>1, ReleaseNetIDFacts
  <2> HIDE DEF r
  <2>3. m \in VnidMaps /\ m.ids = [r.ids EXCEPT ![ns] = id]
    BY <1>4, <2>2, SetVNIDFacts DEF r
  <2> QED BY <1>0, <2>2, <2>3 DEF VnidMaps
<1>5. vm.ids[other] \in VNIDs \cup {GlobalVNID} \/ vm.ids[other] = NoVNID
  BY DEF VnidMaps
<1> QED BY <1>2, <1>3, <1>4, <1>5, UpdateNetIDCases

(* Unless a namespace joins itself, an update keeps the allocator exact. *)
LEMMA UpdateNetIDExact ==
    ASSUME NEW vm \in VnidMaps, NEW ns \in Namespaces, NEW other \in Namespaces,
           NEW action, NEW m \in updateNetID(vm, ns, action, other),
           action = "join" => other # ns,
           AllocatorExact(vm)
    PROVE  AllocatorExact(m)
<1>1. /\ releaseNetID(vm, ns) \in VnidMaps
      /\ releaseNetID(vm, ns).ids = [vm.ids EXCEPT ![ns] = NoVNID]
  BY ReleaseNetIDFacts
<1>2. AllocatedBut(releaseNetID(vm, ns), {})
  BY ReleaseNetIDExact DEF AllocatorExact
<1>3. releaseNetID(vm, ns).ids[ns] = NoVNID
  BY <1>1 DEF VnidMaps
<1>4. CASE m = setVNID(releaseNetID(vm, ns), ns, GlobalVNID)
  <2>1. AllocatedBut(releaseNetID(vm, ns), {GlobalVNID} \cap VNIDs)
    BY <1>2, VnidMapAssumption DEF AllocatedBut
  <2> QED BY <1>1, <1>3, <1>4, <2>1, SetVNIDExact
<1>5. CASE /\ action = "join" /\ vm.ids[other] # NoVNID
           /\ m = setVNID(releaseNetID(vm, ns), ns, vm.ids[other])
  <2>1. vm.ids[other] \in VNIDs \cup {GlobalVNID}
    BY <1>5 DEF VnidMaps
  <2>2. releaseNetID(vm, ns).ids[other] = vm.ids[other]
    BY <1>1, <1>5 DEF VnidMaps
  <2>3. AllocatedBut(releaseNetID(vm, ns), {vm.ids[other]} \cap VNIDs)
    BY <1>2, <2>2 DEF AllocatedBut, HeldVNIDs
  <2> QED BY <1>1, <1>3, <1>5, <2>1, <2>3, SetVNIDExact
<1>6. CASE \E id \in VNIDs \ vm.allocated :
              m = setVNID(releaseNetID(Allocate(vm, id), ns), ns, id)
  <2>1. PICK id \in VNIDs \ vm.allocated :
              m = setVNID(releaseNetID(Allocate(vm, id), ns), ns, id)
    BY <1>6
  <2> DEFINE r == releaseNetID(Allocate(vm, id), ns)
  <2>2. /\ Allocate(vm, id) \in VnidMaps
        /\ Allocate(vm, id).ids = vm.ids
        /\ Allocate(vm, id).allocated = vm.allocated \cup {id}
    BY AllocateFacts
  <2>3. AllocatedBut(Allocate(vm, id), {id}) /\ {id} \cap HeldVNIDs(Allocate(vm, id)) = {}
    BY <2>2 DEF AllocatorExact, AllocatedBut, HeldVNIDs
  <2>4. AllocatedBut(r, {id})
    BY <2>2, <2>3, ReleaseNetIDExact
  <2>5. r \in VnidMaps /\ r.ids[ns] = NoVNID
    <3>1. r \in VnidMaps /\ r.ids = [Allocate(vm, id).ids EXCEPT ![ns] = NoVNID]
      BY <2>2, ReleaseNetIDFacts
    <3> QED BY <2>2, <3>1 DEF VnidMaps
  <2> HIDE DEF r
  <2>6. AllocatedBut(r, {id} \cap VNIDs)
    BY <2>4
  <2>7. AllocatorExact(setVNID(r, ns, id))
    BY <2>5, <2>6, SetVNIDExact
  <2> QED BY <2>1, <2>7 DEF r
<1> QED BY <1>4, <1>5, <1>6, UpdateNetIDCases

-----------------------------------------------------------------------------
(* Types. *)

(* What waits for a namespace tells whether Kubernetes still has it. *)
DeltaFits ==
    \A ns \in Namespaces :
        /\ ns \in kubeNs    => nsDelta[ns] # "Deleted"
        /\ ns \notin kubeNs => nsDelta[ns] \in {"None", "Deleted"}

TypeInv == TypeOK /\ DeltaFits

(* One delta is all that waits for an object, and the combinations a consumer *)
(* meets are in the matrix: an "Added" comes only for an object that is new   *)
(* or whose deletion waits, a resync only when nothing waits.                 *)
LEMMA QueueActionType ==
    ASSUME NEW old \in PendingTypes
    PROVE  /\ old \in {"None", "Deleted"} =>
                queueActionLocked(old, "Added") \in {"Added", "Updated"}
           /\ old # "Deleted" =>
                queueActionLocked(old, "Updated") \in {"Added", "Sync", "Updated"}
           /\ queueActionLocked(old, "Deleted") \in {"None", "Deleted"}
           /\ queueActionLocked("None", "Sync") = "Sync"
  BY DEF queueActionLocked, deltaCompressor, deltaActionMatrix, PendingTypes, DeltaTypes

(* A snapshot hands over edits that administrators made. *)
LEMMA UnservedEditsType ==
    ASSUME NEW s \in SetToSeqs(UnservedEdits)
    PROVE  s \in Seq(AdminEdits)
<1>1. UnservedEdits \subseteq AdminEdits
  BY DEF UnservedEdits
<1>2. Cardinality(UnservedEdits) \in Nat
  BY <1>1, MasterVnidAssumption, FS_Subset, FS_CardinalityType
<1>3. s \in [1 .. Cardinality(UnservedEdits) -> AdminEdits]
  BY <1>1 DEF SetToSeqs
<1> QED BY <1>2, <1>3

(* The map a starting master reads is a map, and its allocator is exact. *)
LEMMA PopulateFacts ==
    ASSUME NEW recorded \in [Namespaces -> VNIDs \cup {GlobalVNID, NoVNID}]
    PROVE  /\ populateVNIDs(recorded) \in VnidMaps
           /\ populateVNIDs(recorded).ids = recorded
           /\ AllocatorExact(populateVNIDs(recorded))
  BY DEF populateVNIDs, VnidMaps, AllocatorExact, AllocatedBut, HeldVNIDs

-----------------------------------------------------------------------------

(* Consuming a delta leaves "None". *)
LEMMA ConsumeType ==
    ASSUME TypeInv, NEW ns \in Namespaces, NEW types, Consume(ns, types), UNCHANGED kubeNs
    PROVE  nsDelta' \in [Namespaces -> PendingTypes] /\ DeltaFits'
  BY DEF TypeInv, TypeOK, DeltaFits, Consume, PendingTypes

LEMMA RecordType ==
    ASSUME NEW ns \in Namespaces, NEW id \in VNIDs \cup {GlobalVNID, NoVNID}
    PROVE  Record(ns, id) \in Records
  BY DEF Record, Records

LEMMA InitType == Init => TypeInv
<1> SUFFICES ASSUME Init PROVE TypeInv
  OBVIOUS
<1>1. vmap \in VnidMaps
  BY DEF Init, newMasterVNIDMap, VnidMaps
<1>2. netns \in [Namespaces -> Records]
  BY RecordType DEF Init
<1>3. netnsEvents \in Seq(AdminEdits)
  BY DEF Init
<1>4. nsDelta \in [Namespaces -> PendingTypes] /\ DeltaFits
  BY DEF Init, DeltaFits, PendingTypes
<1> QED BY <1>1, <1>2, <1>3, <1>4 DEF Init, TypeInv, TypeOK

LEMMA NextType == TypeInv /\ [Next]_vars => TypeInv'
<1> SUFFICES ASSUME TypeInv, [Next]_vars PROVE TypeInv'
  OBVIOUS
<1> USE DEF TypeInv
<1>1. ASSUME NEW ns \in Namespaces, CreateNamespace(ns) PROVE TypeInv'
  <2>1. nsDelta[ns] \in {"None", "Deleted"} /\ nsDelta[ns] \in PendingTypes
    BY <1>1 DEF CreateNamespace, TypeOK, DeltaFits
  <2>2. queueActionLocked(nsDelta[ns], "Added") \in {"Added", "Updated"}
    BY <2>1, QueueActionType
  <2> QED BY <1>1, <2>2 DEF CreateNamespace, Queue, TypeOK, DeltaFits, PendingTypes, DeltaTypes
<1>2. ASSUME NEW ns \in Namespaces, ModifyNamespace(ns) PROVE TypeInv'
  <2>1. nsDelta[ns] # "Deleted" /\ nsDelta[ns] \in PendingTypes
    BY <1>2 DEF ModifyNamespace, TypeOK, DeltaFits
  <2>2. queueActionLocked(nsDelta[ns], "Updated") \in {"Added", "Sync", "Updated"}
    BY <2>1, QueueActionType
  <2> QED BY <1>2, <2>2 DEF ModifyNamespace, Queue, TypeOK, DeltaFits, PendingTypes, DeltaTypes
<1>3. ASSUME NEW ns \in Namespaces, DeleteNamespace(ns) PROVE TypeInv'
  <2>1. queueActionLocked(nsDelta[ns], "Deleted") \in {"None", "Deleted"}
    BY QueueActionType DEF TypeOK
  <2> QED BY <1>3, <2>1 DEF DeleteNamespace, Queue, TypeOK, DeltaFits, PendingTypes, DeltaTypes
<1>4. ASSUME NEW ns \in Namespaces, Resync(ns) PROVE TypeInv'
  <2>1. queueActionLocked(nsDelta[ns], "Sync") = "Sync"
    BY <1>4, QueueActionType DEF Resync, PendingTypes
  <2> QED BY <1>4, <2>1 DEF Resync, Queue, TypeOK, DeltaFits, PendingTypes, DeltaTypes
<1>5. ASSUME NEW e \in AdminEdits, EditNetns(e) PROVE TypeInv'
  <2>1. /\ e.NetName \in Namespaces
        /\ e.Action \in Actions
        /\ e.Namespace \in Namespaces
    BY MasterVnidAssumption
  <2>2. netns' \in [Namespaces -> Records]
    BY <1>5, <2>1 DEF EditNetns, TypeOK, Records
  <2> QED BY <1>5, <2>2 DEF EditNetns, TypeOK, DeltaFits
<1>6. ASSUME NEW ns \in Namespaces, assignVNID_Skip(ns) PROVE TypeInv'
  <2>1. nsDelta' \in [Namespaces -> PendingTypes] /\ DeltaFits'
    BY <1>6, ConsumeType DEF assignVNID_Skip
  <2> QED BY <1>6, <2>1 DEF assignVNID_Skip, TypeOK
<1>7. ASSUME NEW ns \in Namespaces, assignVNID_New(ns) PROVE TypeInv'
  <2>1. nsDelta' \in [Namespaces -> PendingTypes] /\ DeltaFits'
    BY <1>7, ConsumeType DEF assignVNID_New
  <2>2. PICK vm \in allocateNetID(vmap, ns) :
           \/ /\ netns' = [netns EXCEPT ![ns] = Record(ns, vm.ids[ns])]
              /\ vmap' = vm
           \/ /\ AcquireFails(ns, vm.ids[ns])
              /\ vmap' = releaseNetID(vm, ns)
    BY <1>7 DEF assignVNID_New
  <2>3. vm \in VnidMaps /\ vm.ids[ns] \in VNIDs \cup {GlobalVNID, NoVNID}
    BY <2>2, AllocateNetIDFacts DEF TypeOK
  <2>4. vmap' \in VnidMaps
    BY <2>2, <2>3, ReleaseNetIDFacts
  <2>5. netns' \in [Namespaces -> Records]
    BY <2>2, <2>3, RecordType DEF AcquireFails, TypeOK
  <2> QED BY <1>7, <2>1, <2>4, <2>5 DEF assignVNID_New, TypeOK
<1>8. ASSUME NEW ns \in Namespaces, revokeVNID(ns) PROVE TypeInv'
  <2>1. nsDelta' \in [Namespaces -> PendingTypes] /\ DeltaFits'
    BY <1>8, ConsumeType DEF revokeVNID
  <2>2. vmap' \in VnidMaps
    BY <1>8, ReleaseNetIDFacts DEF revokeVNID, TypeOK
  <2>3. netns' \in [Namespaces -> Records]
    BY <1>8, RecordType DEF revokeVNID, RevokeFails, TypeOK
  <2> QED BY <1>8, <2>1, <2>2, <2>3 DEF revokeVNID, TypeOK
<1>9. ASSUME updateVNID PROVE TypeInv'
  <2> DEFINE e == Head(netnsEvents)
             updated == updateNetID(vmap, e.NetName, e.Action, e.Namespace)
  <2>1. /\ e \in AdminEdits
        /\ netnsEvents' \in Seq(AdminEdits)
    BY <1>9 DEF updateVNID, TypeOK
  <2>2. e.NetName \in Namespaces /\ e.Namespace \in Namespaces
    BY <2>1, MasterVnidAssumption
  <2>3. CASE UNCHANGED <<vmap, netns>>
    BY <1>9, <2>1, <2>3 DEF updateVNID, TypeOK, DeltaFits
  <2>4. CASE \E vm \in updated :
               /\ vmap' = vm
               /\ \/ netns' = [netns EXCEPT ![e.NetName] = Record(e.NetName, vm.ids[e.NetName])]
                  \/ UNCHANGED netns
    <3>1. PICK vm \in updated :
               /\ vmap' = vm
               /\ \/ netns' = [netns EXCEPT ![e.NetName] = Record(e.NetName, vm.ids[e.NetName])]
                  \/ UNCHANGED netns
      BY <2>4
    <3>2. vm \in VnidMaps /\ vm.ids[e.NetName] \in VNIDs \cup {GlobalVNID, NoVNID}
      <4>1. vm \in VnidMaps
        BY <2>2, UpdateNetIDFacts DEF TypeOK
      <4> QED BY <2>2, <4>1 DEF VnidMaps
    <3>3. netns' \in [Namespaces -> Records]
      BY <2>2, <3>1, <3>2, RecordType DEF TypeOK
    <3> QED BY <1>9, <2>1, <3>1, <3>2, <3>3 DEF updateVNID, TypeOK, DeltaFits
  <2> QED BY <1>9, <2>3, <2>4 DEF updateVNID
<1>10. ASSUME Restart PROVE TypeInv'
  <2>1. Recorded \in [Namespaces -> VNIDs \cup {GlobalVNID, NoVNID}]
    BY DEF Recorded, TypeOK, Records
  <2>2. vmap' \in VnidMaps
    BY <1>10, <2>1, PopulateFacts DEF Restart
  <2>3. netnsEvents' \in Seq(AdminEdits)
    BY <1>10, UnservedEditsType DEF Restart
  <2> QED BY <1>10, <2>2, <2>3 DEF Restart, TypeOK, DeltaFits, PendingTypes, DeltaTypes
<1>11. CASE UNCHANGED vars
  BY <1>11 DEF vars, TypeOK, DeltaFits
<1> QED BY <1>1, <1>2, <1>3, <1>4, <1>5, <1>6, <1>7, <1>8, <1>9, <1>10, <1>11
        DEF Next, KubeStep, assignVNID

(* Every reachable state is well typed: no combination of deltas panics and  *)
(* every edit in flight is one an administrator made.                        *)
THEOREM TypeCorrect == Spec => []TypeOK
<1>1. Spec => []TypeInv
  BY InitType, NextType, PTL DEF Spec
<1>2. TypeInv => TypeOK
  BY DEF TypeInv
<1> QED BY <1>1, <1>2, PTL

-----------------------------------------------------------------------------

(* The allocator is exact across every step: only assignVNID, revokeVNID,     *)
(* updateVNID and a restart touch the map, and each keeps it exact, with or   *)
(* without the answer of etcd.                                                *)
LEMMA NextExact ==
    ASSUME NoSelfJoin, TypeOK, AllocatorExact(vmap), [Next]_vars
    PROVE  AllocatorExact(vmap')
<1>1. ASSUME NEW ns \in Namespaces, assignVNID_New(ns) PROVE AllocatorExact(vmap')
  <2>1. PICK vm \in allocateNetID(vmap, ns) : vmap' \in {vm, releaseNetID(vm, ns)}
    BY <1>1 DEF assignVNID_New
  <2>2. vm \in VnidMaps /\ AllocatorExact(vm)
    BY <1>1, AllocateNetIDFacts, AllocateNetIDExact DEF assignVNID_New, TypeOK
  <2> QED BY <2>1, <2>2, ReleaseNetIDExact DEF AllocatorExact
<1>2. ASSUME NEW ns \in Namespaces, revokeVNID(ns) PROVE AllocatorExact(vmap')
  <2>1. vmap' \in {vmap, releaseNetID(vmap, ns)}
    BY <1>2 DEF revokeVNID
  <2> QED BY <2>1, ReleaseNetIDExact DEF AllocatorExact, TypeOK
<1>3. ASSUME updateVNID PROVE AllocatorExact(vmap')
  <2> DEFINE e == Head(netnsEvents)
  <2>1. e \in AdminEdits
    BY <1>3 DEF updateVNID, TypeOK
  <2>2. /\ e.NetName \in Namespaces /\ e.Namespace \in Namespaces
        /\ e.Action = "join" => e.Namespace # e.NetName
    BY <2>1, MasterVnidAssumption DEF NoSelfJoin
  <2>3. vmap' = vmap \/ vmap' \in updateNetID(vmap, e.NetName, e.Action, e.Namespace)
    BY <1>3 DEF updateVNID
  <2> QED BY <2>2, <2>3, UpdateNetIDExact DEF TypeOK
<1>4. ASSUME Restart PROVE AllocatorExact(vmap')
  <2>1. Recorded \in [Namespaces -> VNIDs \cup {GlobalVNID, NoVNID}]
    BY DEF Recorded, TypeOK, Records
  <2> QED BY <1>4, <2>1, PopulateFacts DEF Restart
<1>5. ASSUME UNCHANGED vmap PROVE AllocatorExact(vmap')
  BY <1>5
<1> QED BY <1>1, <1>2, <1>3, <1>4, <1>5
        DEF Next, KubeStep, CreateNamespace, ModifyNamespace, DeleteNamespace, Resync,
            EditNetns, assignVNID, assignVNID_Skip, vars

LEMMA InitExact == Init => AllocatorExact(vmap)
<1>1. NoVNID \notin VNIDs
  BY VnidMapAssumption DEF NoVNID
<1> QED BY <1>1 DEF Init, newMasterVNIDMap, AllocatorExact, AllocatedBut, HeldVNIDs

LEMMA AlwaysExact == ASSUME NoSelfJoin PROVE Spec => []AllocatorExact(vmap)
<1>1. AllocatorExact(vmap) /\ TypeOK /\ [Next]_vars => AllocatorExact(vmap)'
  BY NextExact
<1> QED BY <1>1, InitExact, TypeCorrect, PTL DEF Spec

(* Unless a namespace is joined to itself, a VNID in use is never free in  *)
(* the allocator, whatever etcd answers and however often the master       *)
(* restarts: no namespace is given the VNID of another.                    *)
THEOREM AllocatorCorrect ==
    ASSUME NoSelfJoin PROVE Spec => []HeldVNIDsReserved
<1>1. AllocatorExact(vmap) => HeldVNIDsReserved
  BY DEF AllocatorExact, AllocatedBut, HeldVNIDsReserved
<1> QED BY <1>1, AlwaysExact, PTL

(* A VNID not in use is always free: no write that fails, at whatever point *)
(* of an assignment, an edit or a deletion, leaves one reserved for nobody. *)
THEOREM NothingLeaked ==
    ASSUME NoSelfJoin PROVE Spec => []NoVNIDLeaked
<1>1. AllocatorExact(vmap) => NoVNIDLeaked
  BY DEF AllocatorExact, AllocatedBut, NoVNIDLeaked
<1> QED BY <1>1, AlwaysExact, PTL

-----------------------------------------------------------------------------

(* What a write to one record leaves of the NetIDs. *)
LEMMA NetIDAfterWrite ==
    ASSUME NEW store \in [Namespaces -> Records], NEW ns \in Namespaces, NEW id
    PROVE  \A n \in Namespaces :
              [store EXCEPT ![ns] = Record(ns, id)][n].NetID = IF n = ns THEN id ELSE store[n].NetID
  BY DEF Record

LEMMA NetIDAfterEdit ==
    ASSUME NEW store \in [Namespaces -> Records], NEW ns \in Namespaces,
           NEW action, NEW other, NEW n \in Namespaces
    PROVE  [store EXCEPT ![ns].Action = action, ![ns].Namespace = other][n].NetID = store[n].NetID
<1> DEFINE first  == [store EXCEPT ![ns].Action = action]
           second == [first EXCEPT ![ns].Namespace = other]
<1>1. store[n] \in Records /\ DOMAIN store = Namespaces
  OBVIOUS
<1>2. DOMAIN first = Namespaces /\ first[n].NetID = store[n].NetID /\ DOMAIN first[n] = DOMAIN store[n]
  BY <1>1 DEF Records
<1>3. second[n].NetID = first[n].NetID
  BY <1>1, <1>2 DEF Records
<1> QED BY <1>2, <1>3

(* One step, of an etcd that does what it answers, keeps map and records equal. *)
LEMMA NextAgrees ==
    ASSUME EtcdFaults = {}, TypeInv, EtcdAgrees, [Next]_vars
    PROVE  EtcdAgrees'
<1> DEFINE Same == \A n \in Namespaces : netns[n].NetID = vmap.ids[n]
<1>1. Same
  BY DEF EtcdAgrees, Recorded
<1>2. TypeOK /\ TypeOK'
  BY NextType DEF TypeInv
<1>3. Same' => EtcdAgrees'
  BY <1>2 DEF EtcdAgrees, Recorded, TypeOK, VnidMaps
<1>4. ASSUME NEW e \in AdminEdits, EditNetns(e) PROVE Same'
  <2>1. ASSUME NEW n \in Namespaces PROVE netns'[n].NetID = netns[n].NetID
    BY <1>2, <1>4, NetIDAfterEdit, MasterVnidAssumption DEF EditNetns, TypeOK
  <2> QED BY <1>1, <1>4, <2>1 DEF EditNetns
<1>5. ASSUME NEW ns \in Namespaces, assignVNID_New(ns) PROVE Same'
  <2>1. ~ Exists(ns)
    BY <1>1, <1>5 DEF assignVNID_New, Exists
  <2>2. PICK vm \in allocateNetID(vmap, ns) :
           /\ netns' = [netns EXCEPT ![ns] = Record(ns, vm.ids[ns])]
           /\ vmap' = vm
    BY <1>5, <2>1 DEF assignVNID_New, AcquireFails
  <2>3. \A n \in Namespaces : n # ns => vmap'.ids[n] = vmap.ids[n]
    BY <2>2, <1>2, AllocateNetIDFacts DEF TypeOK
  <2>4. \A n \in Namespaces : netns'[n].NetID = IF n = ns THEN vmap'.ids[ns] ELSE netns[n].NetID
    <3>1. netns \in [Namespaces -> Records]
      BY <1>2 DEF TypeOK
    <3>2. netns' = [netns EXCEPT ![ns] = Record(ns, vmap'.ids[ns])]
      BY <2>2
    <3> QED BY <3>1, <3>2, NetIDAfterWrite
  <2> QED BY <1>1, <2>3, <2>4
<1>6. ASSUME NEW ns \in Namespaces, revokeVNID(ns) PROVE Same'
  <2>1. CASE ~ Exists(ns)
    BY <1>1, <1>6, <2>1 DEF revokeVNID, RevokeFails
  <2>2. CASE Exists(ns)
    <3>1. /\ netns' = [netns EXCEPT ![ns] = Record(ns, NoVNID)]
          /\ vmap' = releaseNetID(vmap, ns)
      BY <1>6, <2>2 DEF revokeVNID, RevokeFails
    <3>2. vmap'.ids = [vmap.ids EXCEPT ![ns] = NoVNID]
      BY <1>2, <3>1, ReleaseNetIDFacts DEF TypeOK
    <3>3. \A n \in Namespaces : vmap'.ids[n] = IF n = ns THEN NoVNID ELSE vmap.ids[n]
      BY <1>2, <3>2 DEF TypeOK, VnidMaps
    <3>4. netns \in [Namespaces -> Records]
      BY <1>2 DEF TypeOK
    <3>5. \A n \in Namespaces : netns'[n].NetID = IF n = ns THEN NoVNID ELSE netns[n].NetID
      BY <3>1, <3>4, NetIDAfterWrite
    <3> QED BY <1>1, <3>3, <3>5
  <2> QED BY <2>1, <2>2
<1>7. ASSUME updateVNID PROVE Same'
  <2> DEFINE e == Head(netnsEvents)
             updated == updateNetID(vmap, e.NetName, e.Action, e.Namespace)
  <2>1. e.NetName \in Namespaces /\ e.Namespace \in Namespaces
    BY <1>2, <1>7, MasterVnidAssumption DEF updateVNID, TypeOK
  <2>2. CASE UNCHANGED <<vmap, netns>>
    BY <1>1, <2>2
  <2>3. CASE \E vm \in updated :
               /\ vmap' = vm
               /\ netns' = [netns EXCEPT ![e.NetName] = Record(e.NetName, vm.ids[e.NetName])]
    <3>1. PICK vm \in updated :
               /\ vmap' = vm
               /\ netns' = [netns EXCEPT ![e.NetName] = Record(e.NetName, vm.ids[e.NetName])]
      BY <2>3
    <3>2. \A n \in Namespaces : n # e.NetName => vmap'.ids[n] = vmap.ids[n]
      BY <3>1, <1>2, <2>1, UpdateNetIDFacts DEF TypeOK
    <3> HIDE DEF e
    <3>3. netns \in [Namespaces -> Records]
      BY <1>2 DEF TypeOK
    <3>4. netns' = [netns EXCEPT ![e.NetName] = Record(e.NetName, vmap'.ids[e.NetName])]
      BY <3>1
    <3>5. \A n \in Namespaces :
             netns'[n].NetID = IF n = e.NetName THEN vmap'.ids[e.NetName] ELSE netns[n].NetID
      BY <2>1, <3>3, <3>4, NetIDAfterWrite
    <3> QED BY <1>1, <3>2, <3>5
  <2> QED BY <1>7, <2>2, <2>3 DEF updateVNID
<1>8. ASSUME Restart PROVE Same'
  <2>1. Recorded \in [Namespaces -> VNIDs \cup {GlobalVNID, NoVNID}]
    BY <1>2 DEF Recorded, TypeOK, Records
  <2>2. vmap'.ids = Recorded
    BY <1>8, <2>1, PopulateFacts DEF Restart
  <2> QED BY <1>8, <2>2 DEF Restart, Recorded
<1>9. ASSUME UNCHANGED <<vmap, netns>> PROVE Same'
  BY <1>1, <1>9
<1> QED BY <1>3, <1>4, <1>5, <1>6, <1>7, <1>8, <1>9
        DEF Next, KubeStep, CreateNamespace, ModifyNamespace, DeleteNamespace, Resync,
            assignVNID, assignVNID_Skip, vars

LEMMA InitAgrees == Init => EtcdAgrees
<1> SUFFICES ASSUME Init PROVE EtcdAgrees
  OBVIOUS
<1>1. \A n \in Namespaces : netns[n].NetID = NoVNID
  BY DEF Init, Record
<1>2. vmap.ids = [n \in Namespaces |-> NoVNID]
  BY DEF Init, newMasterVNIDMap
<1> QED BY <1>1, <1>2 DEF EtcdAgrees, Recorded

(* The VNIDs in the master's memory are those in etcd after every step, a    *)
(* restart included, as long as no call to etcd fails.                       *)
THEOREM AgreementCorrect ==
    ASSUME EtcdFaults = {} PROVE Spec => []EtcdAgrees
<1>1. TypeInv /\ EtcdAgrees /\ [Next]_vars => EtcdAgrees'
  BY NextAgrees
<1> QED BY <1>1, InitType, NextType, InitAgrees, PTL DEF Spec

-----------------------------------------------------------------------------
(* What the master does to the VNIDs, seen as the sets of namespaces that *)
(* share a network, is what tenants are promised.                         *)

NetIDs == VNIDs \cup {GlobalVNID, NoVNID}
Tables == [Namespaces -> NetIDs]

(* Who shares a network, by a table of VNIDs. *)
Sharing(ids, id) == {m \in Namespaces : ids[m] = id}
PeerSets(ids)    == [ns \in Namespaces |-> IF ids[ns] = NoVNID THEN {} ELSE Sharing(ids, ids[ns])]

(* Tenancy's Moved, of any table of peers. *)
MovedIn(table, ns, group) ==
    [m \in Namespaces |-> CASE m = ns                    -> (group \ {ns}) \cup {ns}
                            [] m # ns /\ m \in group     -> (table[m] \ {ns}) \cup {ns}
                            [] m # ns /\ m \notin group  -> table[m] \ {ns}]

(* A VNID of the range that no namespace holds. *)
Fresh(ids, id) == id \in VNIDs /\ \A m \in Namespaces : ids[m] # id

(* The changes of the table one step of the master makes. *)
Sets(ids, new, ns, id) == new = [ids EXCEPT ![ns] = id]
Admits(ids, new, ns)   == /\ ids[ns] = NoVNID /\ ns \notin AdminNamespaces
                          /\ \E id \in VNIDs : Fresh(ids, id) /\ Sets(ids, new, ns, id)
Opens(ids, new, ns)    == /\ ids[ns] # NoVNID \/ ns \in AdminNamespaces
                          /\ Sets(ids, new, ns, GlobalVNID)
Joins(ids, new, ns, other) == /\ ids[ns] # NoVNID /\ ids[other] # NoVNID
                              /\ Sets(ids, new, ns, ids[other])
Isolates(ids, new, ns) == /\ ids[ns] # NoVNID
                          /\ \E id \in VNIDs : Fresh(ids, id) /\ Sets(ids, new, ns, id)
Dismisses(ids, new, ns) == Sets(ids, new, ns, NoVNID)

(* An edit is needed for a join. *)
Changes(ids, new) ==
    \E ns \in Namespaces :
       \/ Admits(ids, new, ns)
       \/ Opens(ids, new, ns)
       \/ \E e \in AdminEdits : e.NetName = ns /\ e.Action = "join" /\ Joins(ids, new, ns, e.Namespace)
       \/ Isolates(ids, new, ns)
       \/ Dismisses(ids, new, ns)

-----------------------------------------------------------------------------
(* Tables and the sets of peers they stand for. *)

(* The three kinds of values a table holds are different. *)
LEMMA NetIDsDiffer ==
    NoVNID \notin VNIDs /\ GlobalVNID \notin VNIDs /\ GlobalVNID # NoVNID
  BY VnidMapAssumption DEF NoVNID, GlobalVNID

(* Writing a VNID into the table moves the namespace to those that hold it. *)
LEMMA PeersMoved ==
    ASSUME NEW ids \in Tables, NEW ns \in Namespaces, NEW id \in NetIDs, id # NoVNID,
           NEW group \in SUBSET Namespaces, group \ {ns} = Sharing(ids, id) \ {ns},
           NEW new, Sets(ids, new, ns, id)
    PROVE  PeerSets(new) = MovedIn(PeerSets(ids), ns, group)
<1>1. \A m \in Namespaces : new[m] = IF m = ns THEN id ELSE ids[m]
  BY DEF Sets, Tables
<1>2. ASSUME NEW m \in Namespaces PROVE PeerSets(new)[m] = MovedIn(PeerSets(ids), ns, group)[m]
  <2>1. CASE m = ns
    <3>1. PeerSets(new)[m] = Sharing(new, id)
      BY <1>1, <2>1 DEF PeerSets
    <3>2. Sharing(new, id) = (Sharing(ids, id) \ {ns}) \cup {ns}
      BY <1>1 DEF Sharing
    <3>3. MovedIn(PeerSets(ids), ns, group)[m] = (group \ {ns}) \cup {ns}
      BY <2>1 DEF MovedIn
    <3> QED BY <3>1, <3>2, <3>3
  <2>2. CASE m # ns /\ ids[m] = id
    <3>1. m \in group
      BY <2>2 DEF Sharing
    <3>2. PeerSets(new)[m] = Sharing(new, id) /\ PeerSets(ids)[m] = Sharing(ids, id)
      BY <1>1, <2>2 DEF PeerSets
    <3>3. Sharing(new, id) = (Sharing(ids, id) \ {ns}) \cup {ns}
      BY <1>1 DEF Sharing
    <3>4. MovedIn(PeerSets(ids), ns, group)[m] = (PeerSets(ids)[m] \ {ns}) \cup {ns}
      BY <2>2, <3>1 DEF MovedIn
    <3> QED BY <3>2, <3>3, <3>4
  <2>3. CASE m # ns /\ ids[m] # id
    <3>1. m \notin group
      BY <2>3 DEF Sharing
    <3>2. MovedIn(PeerSets(ids), ns, group)[m] = PeerSets(ids)[m] \ {ns}
      BY <2>3, <3>1 DEF MovedIn
    <3>3. CASE ids[m] = NoVNID
      BY <1>1, <2>3, <3>2, <3>3 DEF PeerSets
    <3>4. CASE ids[m] # NoVNID
      <4>1. PeerSets(new)[m] = Sharing(new, ids[m]) /\ PeerSets(ids)[m] = Sharing(ids, ids[m])
        BY <1>1, <2>3, <3>4 DEF PeerSets
      <4>2. Sharing(new, ids[m]) = Sharing(ids, ids[m]) \ {ns}
        BY <1>1, <2>3 DEF Sharing
      <4> QED BY <3>2, <4>1, <4>2
    <3> QED BY <3>3, <3>4
  <2> QED BY <2>1, <2>2, <2>3
<1> QED BY <1>2 DEF PeerSets, MovedIn

(* Taking the entry out of the table takes the namespace out of every set. *)
LEMMA PeersDismissed ==
    ASSUME NEW ids \in Tables, NEW ns \in Namespaces, NEW new, Dismisses(ids, new, ns)
    PROVE  PeerSets(new) = [MovedIn(PeerSets(ids), ns, {}) EXCEPT ![ns] = {}]
<1>1. \A m \in Namespaces : new[m] = IF m = ns THEN NoVNID ELSE ids[m]
  BY DEF Dismisses, Sets, Tables
<1> DEFINE moved == [MovedIn(PeerSets(ids), ns, {}) EXCEPT ![ns] = {}]
<1>2. ASSUME NEW m \in Namespaces PROVE PeerSets(new)[m] = moved[m]
  <2>1. CASE m = ns
    BY <1>1, <2>1 DEF PeerSets, MovedIn
  <2>2. CASE m # ns
    <3>1. moved[m] = PeerSets(ids)[m] \ {ns}
      BY <2>2 DEF MovedIn
    <3>2. CASE ids[m] = NoVNID
      BY <1>1, <2>2, <3>1, <3>2 DEF PeerSets
    <3>3. CASE ids[m] # NoVNID
      <4>1. PeerSets(new)[m] = Sharing(new, ids[m]) /\ PeerSets(ids)[m] = Sharing(ids, ids[m])
        BY <1>1, <2>2, <3>3 DEF PeerSets
      <4>2. Sharing(new, ids[m]) = Sharing(ids, ids[m]) \ {ns}
        BY <1>1, <3>3 DEF Sharing
      <4> QED BY <3>1, <4>1, <4>2
    <3> QED BY <3>2, <3>3
  <2> QED BY <2>1, <2>2
<1>3. moved = [m \in Namespaces |-> moved[m]]
  BY DEF MovedIn
<1> HIDE DEF moved
<1>4. PeerSets(new) = [m \in Namespaces |-> moved[m]]
  BY <1>2 DEF PeerSets
<1> QED BY <1>3, <1>4 DEF moved

(* A namespace has peers when it has a VNID. *)
LEMMA PeersAdmitted ==
    ASSUME NEW ids \in Tables, NEW ns \in Namespaces
    PROVE  PeerSets(ids)[ns] # {} <=> ids[ns] # NoVNID
  BY DEF PeerSets, Sharing

(* The namespaces on the global network after a write. *)
LEMMA GlobalsMoved ==
    ASSUME NEW ids \in Tables, NEW ns \in Namespaces, NEW id \in NetIDs, NEW new,
           Sets(ids, new, ns, id)
    PROVE  Sharing(new, GlobalVNID) = IF id = GlobalVNID
                                        THEN Sharing(ids, GlobalVNID) \cup {ns}
                                        ELSE Sharing(ids, GlobalVNID) \ {ns}
  BY DEF Sharing, Sets, Tables

-----------------------------------------------------------------------------
(* What the operations of the VNID map do to its table. *)

(* A VNID the exact allocator gives out is one nobody holds. *)
LEMMA FreeIsFresh ==
    ASSUME NEW vm \in VnidMaps, AllocatorExact(vm), NEW id \in FreeVNIDs(vm)
    PROVE  id \in VNIDs /\ Fresh(vm.ids, id)
  BY DEF FreeVNIDs, Fresh, AllocatorExact, AllocatedBut, HeldVNIDs

(* allocateNetID admits a tenant alone and the admin namespace to the global network. *)
LEMMA AllocateNetIDChanges ==
    ASSUME NEW vm \in VnidMaps, AllocatorExact(vm), NEW ns \in Namespaces,
           vm.ids[ns] = NoVNID, NEW m \in allocateNetID(vm, ns)
    PROVE  Changes(vm.ids, m.ids)
<1>1. CASE ns \in AdminNamespaces
  <2>1. m = setVNID(vm, ns, GlobalVNID)
    BY <1>1 DEF allocateNetID
  <2>2. m.ids = [vm.ids EXCEPT ![ns] = GlobalVNID]
    BY <2>1, SetVNIDFacts
  <2> QED BY <1>1, <2>2 DEF Changes, Opens, Sets
<1>2. CASE ns \notin AdminNamespaces
  <2>1. PICK id \in FreeVNIDs(vm) : m = setVNID(Allocate(vm, id), ns, id)
    BY <1>2 DEF allocateNetID
  <2>2. id \in VNIDs /\ Fresh(vm.ids, id)
    BY <2>1, FreeIsFresh
  <2>3. m.ids = [vm.ids EXCEPT ![ns] = id]
    BY <2>1, <2>2, AllocateFacts, SetVNIDFacts
  <2>4. Admits(vm.ids, m.ids, ns)
    BY <1>2, <2>2, <2>3 DEF Admits, Sets
  <2> QED BY <2>4 DEF Changes
<1> QED BY <1>1, <1>2

(* Releasing the old VNID and setting the new one is one write to the table. *)
LEMMA MovedSets ==
    ASSUME NEW vm \in VnidMaps, NEW ns \in Namespaces, NEW id \in NetIDs
    PROVE  setVNID(releaseNetID(vm, ns), ns, id).ids = [vm.ids EXCEPT ![ns] = id]
<1>1. /\ releaseNetID(vm, ns) \in VnidMaps
      /\ releaseNetID(vm, ns).ids = [vm.ids EXCEPT ![ns] = NoVNID]
  BY ReleaseNetIDFacts
<1>2. setVNID(releaseNetID(vm, ns), ns, id).ids = [releaseNetID(vm, ns).ids EXCEPT ![ns] = id]
  BY <1>1, SetVNIDFacts DEF NetIDs
<1> QED BY <1>1, <1>2 DEF VnidMaps

(* An edit changes the table as its action says, or not at all. *)
LEMMA UpdateNetIDChanges ==
    ASSUME NEW vm \in VnidMaps, AllocatorExact(vm), NEW e \in AdminEdits,
           NEW m \in updateNetID(vm, e.NetName, e.Action, e.Namespace)
    PROVE  m.ids = vm.ids \/ Changes(vm.ids, m.ids)
<1> DEFINE ns == e.NetName
           other == e.Namespace
<1>1. ns \in Namespaces /\ other \in Namespaces
  BY MasterVnidAssumption
<1>2. vm.ids[ns] # NoVNID
  BY <1>1, UpdateNetIDCases
<1>3. vm.ids[other] \in NetIDs
  BY <1>1 DEF VnidMaps, NetIDs
<1>4. CASE m = vm
  BY <1>4
<1>5. CASE m = setVNID(releaseNetID(vm, ns), ns, GlobalVNID)
  <2>1. Sets(vm.ids, m.ids, ns, GlobalVNID)
    BY <1>1, <1>5, MovedSets DEF Sets, NetIDs
  <2> QED BY <1>1, <1>2, <2>1 DEF Changes, Opens
<1>6. CASE /\ e.Action = "join"
           /\ vm.ids[other] # NoVNID
           /\ m = setVNID(releaseNetID(vm, ns), ns, vm.ids[other])
  <2>1. Sets(vm.ids, m.ids, ns, vm.ids[other])
    BY <1>1, <1>3, <1>6, MovedSets DEF Sets
  <2>2. Joins(vm.ids, m.ids, ns, other)
    BY <1>2, <1>6, <2>1 DEF Joins
  <2> QED BY <1>1, <1>6, <2>2 DEF Changes
<1>7. ASSUME NEW id \in VNIDs \ vm.allocated,
             m = setVNID(releaseNetID(Allocate(vm, id), ns), ns, id)
      PROVE  Changes(vm.ids, m.ids)
  <2>1. Allocate(vm, id) \in VnidMaps /\ Allocate(vm, id).ids = vm.ids
    BY AllocateFacts
  <2>2. Sets(vm.ids, m.ids, ns, id)
    BY <1>1, <1>7, <2>1, MovedSets DEF Sets, NetIDs
  <2>3. Fresh(vm.ids, id)
    BY FreeIsFresh DEF FreeVNIDs
  <2>4. Isolates(vm.ids, m.ids, ns)
    BY <1>2, <2>2, <2>3 DEF Isolates
  <2> QED BY <1>1, <2>4 DEF Changes
<1> HIDE DEF ns, other
<1>8. \/ m = vm
      \/ m = setVNID(releaseNetID(vm, ns), ns, GlobalVNID)
      \/ /\ e.Action = "join"
         /\ vm.ids[other] # NoVNID
         /\ m = setVNID(releaseNetID(vm, ns), ns, vm.ids[other])
      \/ \E id \in VNIDs \ vm.allocated :
            m = setVNID(releaseNetID(Allocate(vm, id), ns), ns, id)
  BY <1>1, UpdateNetIDCases DEF ns, other
<1> QED BY <1>4, <1>5, <1>6, <1>7, <1>8

-----------------------------------------------------------------------------
(* What the steps of the master do to it. *)

(* A starting master finds the VNIDs it had: it does not start, or etcd kept them. *)
Keeps == MayRestart = FALSE \/ EtcdAgrees

(* Each step of the master leaves the table alone or makes one of its changes. *)
LEMMA NextChanges ==
    ASSUME TypeOK, AllocatorExact(vmap), Keeps, [Next]_vars
    PROVE  vmap'.ids = vmap.ids \/ Changes(vmap.ids, vmap'.ids)
<1>0. vmap \in VnidMaps
  BY DEF TypeOK
<1>1. ASSUME NEW ns \in Namespaces, assignVNID_New(ns)
      PROVE  vmap'.ids = vmap.ids \/ Changes(vmap.ids, vmap'.ids)
  <2>1. PICK vm \in allocateNetID(vmap, ns) : vmap' \in {vm, releaseNetID(vm, ns)}
    BY <1>1 DEF assignVNID_New
  <2>2. vmap.ids[ns] = NoVNID
    BY <1>1 DEF assignVNID_New
  <2>3. CASE vmap' = vm
    BY <1>0, <2>1, <2>2, <2>3, AllocateNetIDChanges
  <2>4. CASE vmap' = releaseNetID(vm, ns)
    <3>1. vm \in VnidMaps /\ \A n \in Namespaces : n # ns => vm.ids[n] = vmap.ids[n]
      BY <1>0, <2>1, AllocateNetIDFacts
    <3>2. vmap'.ids = [vm.ids EXCEPT ![ns] = NoVNID]
      BY <2>4, <3>1, ReleaseNetIDFacts
    <3> QED BY <1>0, <2>2, <3>1, <3>2 DEF VnidMaps
  <2> QED BY <2>1, <2>3, <2>4
<1>2. ASSUME NEW ns \in Namespaces, revokeVNID(ns)
      PROVE  vmap'.ids = vmap.ids \/ Changes(vmap.ids, vmap'.ids)
  <2>1. vmap' \in {vmap, releaseNetID(vmap, ns)}
    BY <1>2 DEF revokeVNID
  <2>2. releaseNetID(vmap, ns).ids = [vmap.ids EXCEPT ![ns] = NoVNID]
    BY <1>0, ReleaseNetIDFacts
  <2> QED BY <2>1, <2>2 DEF Changes, Dismisses, Sets
<1>3. ASSUME updateVNID
      PROVE  vmap'.ids = vmap.ids \/ Changes(vmap.ids, vmap'.ids)
  <2> DEFINE e == Head(netnsEvents)
  <2>1. e \in AdminEdits
    BY <1>3 DEF updateVNID, TypeOK
  <2>2. vmap' = vmap \/ vmap' \in updateNetID(vmap, e.NetName, e.Action, e.Namespace)
    BY <1>3 DEF updateVNID
  <2> HIDE DEF e
  <2> QED BY <1>0, <2>1, <2>2, UpdateNetIDChanges
<1>4. ASSUME Restart PROVE vmap'.ids = vmap.ids
  <2>1. Recorded \in [Namespaces -> VNIDs \cup {GlobalVNID, NoVNID}]
    BY DEF Recorded, TypeOK, Records
  <2>2. Recorded = vmap.ids
    BY <1>4 DEF Restart, Keeps, EtcdAgrees
  <2> QED BY <1>4, <2>1, <2>2, PopulateFacts DEF Restart
<1>5. ASSUME UNCHANGED vmap PROVE vmap'.ids = vmap.ids
  BY <1>5
<1> QED BY <1>1, <1>2, <1>3, <1>4, <1>5
        DEF Next, KubeStep, CreateNamespace, ModifyNamespace, DeleteNamespace, Resync,
            EditNetns, assignVNID, assignVNID_Skip, vars

-----------------------------------------------------------------------------
(* The refinement. *)

(* What MasterVnid shows to Tenancy, read off the table. *)
LEMMA PeersAreSets == Peers = PeerSets(vmap.ids) /\ Globals = Sharing(vmap.ids, GlobalVNID)
  BY DEF Peers, PeersOf, PeerSets, Globals, NamespacesOf, Sharing

(* A change of the table is a step of Tenancy. *)
LEMMA ChangesPermitted ==
    ASSUME NEW ids \in Tables, NEW new, Changes(ids, new),
           Peers = PeerSets(ids),  Globals = Sharing(ids, GlobalVNID),
           Peers' = PeerSets(new), Globals' = Sharing(new, GlobalVNID)
    PROVE  T!Next
<1>1. \A n \in Namespaces : n \in T!Admitted <=> ids[n] # NoVNID
  BY PeersAdmitted DEF T!Admitted
<1>2. \A n \in Namespaces, g \in SUBSET Namespaces : T!Moved(n, g) = MovedIn(PeerSets(ids), n, g)
  BY DEF T!Moved, MovedIn
<1>3. PICK ns \in Namespaces :
         \/ Admits(ids, new, ns)
         \/ Opens(ids, new, ns)
         \/ \E e \in AdminEdits : e.NetName = ns /\ e.Action = "join" /\ Joins(ids, new, ns, e.Namespace)
         \/ Isolates(ids, new, ns)
         \/ Dismisses(ids, new, ns)
  BY DEF Changes
<1>4. ASSUME NEW id \in VNIDs, Fresh(ids, id), Sets(ids, new, ns, id)
      PROVE  /\ Peers' = T!Moved(ns, {})
             /\ Globals' = Globals \ {ns}
  <2>1. id \in NetIDs /\ id # NoVNID /\ id # GlobalVNID
    BY NetIDsDiffer DEF NetIDs
  <2>2. {} \ {ns} = Sharing(ids, id) \ {ns}
    BY <1>4 DEF Sharing, Fresh
  <2>3. PeerSets(new) = MovedIn(PeerSets(ids), ns, {})
    BY <1>4, <2>1, <2>2, PeersMoved
  <2>4. Sharing(new, GlobalVNID) = Sharing(ids, GlobalVNID) \ {ns}
    BY <1>4, <2>1, GlobalsMoved
  <2> QED BY <1>2, <2>3, <2>4
<1>5. CASE Admits(ids, new, ns)
  <2>1. ns \notin T!Admitted \cup AdminNamespaces
    BY <1>1, <1>5 DEF Admits
  <2>2. ns \notin Globals
    BY <1>5, NetIDsDiffer DEF Admits, Sharing
  <2>3. Peers' = T!Moved(ns, {}) /\ Globals' = Globals
    BY <1>4, <1>5, <2>2 DEF Admits
  <2>4. T!Admit(ns)
    BY <2>1, <2>3 DEF T!Admit
  <2> QED BY <2>4 DEF T!Next
<1>6. CASE Opens(ids, new, ns)
  <2>1. ns \in T!Admitted \cup AdminNamespaces
    BY <1>1, <1>6 DEF Opens
  <2>2. GlobalVNID \in NetIDs /\ GlobalVNID # NoVNID /\ Sets(ids, new, ns, GlobalVNID)
    BY <1>6, NetIDsDiffer DEF NetIDs, Opens
  <2>3. PeerSets(new) = MovedIn(PeerSets(ids), ns, Globals)
    BY <2>2, PeersMoved DEF Sharing
  <2>4. Sharing(new, GlobalVNID) = Globals \cup {ns}
    BY <2>2, GlobalsMoved
  <2>5. Globals \in SUBSET Namespaces
    BY DEF Sharing
  <2>6. T!MakeGlobal(ns)
    BY <1>2, <2>1, <2>3, <2>4, <2>5 DEF T!MakeGlobal
  <2> QED BY <2>6 DEF T!Next
<1>7. ASSUME NEW e \in AdminEdits, Joins(ids, new, ns, e.Namespace) PROVE T!Next
  <2> DEFINE other == e.Namespace
             id == ids[other]
  <2>1. other \in Namespaces
    BY MasterVnidAssumption
  <2>2. id \in NetIDs /\ id # NoVNID /\ Sets(ids, new, ns, id)
    BY <1>7, <2>1 DEF Joins, Tables
  <2>3. {ns, other} \subseteq T!Admitted
    BY <1>1, <1>7, <2>1 DEF Joins
  <2>4. Peers[other] = Sharing(ids, id) /\ Peers[other] \in SUBSET Namespaces
    BY <2>1, <2>2 DEF PeerSets, Sharing
  <2>5. PeerSets(new) = MovedIn(PeerSets(ids), ns, Peers[other])
    BY <2>2, <2>4, PeersMoved
  <2>6. other \in Globals <=> id = GlobalVNID
    BY <2>1 DEF Sharing
  <2>7. Globals' = IF other \in Globals THEN Globals \cup {ns} ELSE Globals \ {ns}
    BY <2>2, <2>6, GlobalsMoved
  <2> HIDE DEF other, id
  <2>8. T!Join(ns, other)
    BY <1>2, <2>3, <2>4, <2>5, <2>7 DEF T!Join
  <2> QED BY <2>1, <2>8 DEF T!Next
<1>8. CASE Isolates(ids, new, ns)
  <2>1. ns \in T!Admitted
    BY <1>1, <1>8 DEF Isolates
  <2>2. Peers' = T!Moved(ns, {}) /\ Globals' = Globals \ {ns}
    BY <1>4, <1>8 DEF Isolates
  <2>3. T!Isolate(ns)
    BY <2>1, <2>2 DEF T!Isolate
  <2> QED BY <2>3 DEF T!Next
<1>9. CASE Dismisses(ids, new, ns)
  <2>1. PeerSets(new) = [MovedIn(PeerSets(ids), ns, {}) EXCEPT ![ns] = {}]
    BY <1>9, PeersDismissed
  <2>2. NoVNID \in NetIDs /\ NoVNID # GlobalVNID /\ Sets(ids, new, ns, NoVNID)
    BY <1>9, NetIDsDiffer DEF NetIDs, Dismisses
  <2>3. Globals' = Globals \ {ns}
    BY <2>2, GlobalsMoved
  <2>4. T!Dismiss(ns)
    BY <1>2, <2>1, <2>3 DEF T!Dismiss
  <2> QED BY <2>4 DEF T!Next
<1> QED BY <1>3, <1>5, <1>6, <1>7, <1>8, <1>9

(* An empty map shares nothing. *)
LEMMA InitPermitted == Init => T!Init
<1> SUFFICES ASSUME Init PROVE T!Init
  OBVIOUS
<1>1. vmap.ids = [ns \in Namespaces |-> NoVNID]
  BY DEF Init, newMasterVNIDMap
<1>2. Peers = [ns \in Namespaces |-> {}]
  BY <1>1, PeersAreSets DEF PeerSets
<1>3. Globals = {}
  BY <1>1, PeersAreSets, NetIDsDiffer DEF Sharing
<1> QED BY <1>2, <1>3 DEF T!Init

(* Each step of the master is a step of Tenancy or a stutter. *)
LEMMA NextPermitted ==
    ASSUME TypeOK, AllocatorExact(vmap), Keeps, [Next]_vars
    PROVE  [T!Next]_(T!vars)
<1>0. vmap.ids \in Tables
  BY DEF TypeOK, VnidMaps, Tables, NetIDs
<1>1. PICK ids : ids = vmap.ids
  OBVIOUS
<1>2. PICK new : new = vmap'.ids
  OBVIOUS
<1>3. /\ Peers  = PeerSets(ids) /\ Globals  = Sharing(ids, GlobalVNID)
  BY <1>1, PeersAreSets
<1>4. /\ Peers' = PeerSets(new) /\ Globals' = Sharing(new, GlobalVNID)
  BY <1>2 DEF Peers, PeersOf, PeerSets, Globals, NamespacesOf, Sharing
<1>5. new = ids \/ Changes(ids, new)
  BY <1>1, <1>2, NextChanges
<1>6. CASE new = ids
  BY <1>3, <1>4, <1>6 DEF T!vars
<1>7. CASE Changes(ids, new)
  BY <1>0, <1>1, <1>3, <1>4, <1>7, ChangesPermitted
<1> QED BY <1>5, <1>6, <1>7

(* Whatever the master does to VNIDs is a step of Tenancy or leaves who      *)
(* shares with whom alone: as long as no namespace is joined to itself, and  *)
(* either the master does not restart or no call to etcd fails.              *)
THEOREM PromiseKept ==
    ASSUME NoSelfJoin, MayRestart = FALSE \/ EtcdFaults = {}
    PROVE  Spec => Promise
<1>1. Spec => []Keeps
  <2>1. CASE MayRestart = FALSE
    <3>1. Keeps
      BY <2>1 DEF Keeps
    <3> QED BY <3>1, PTL
  <2>2. CASE EtcdFaults = {}
    <3>1. Spec => []EtcdAgrees
      BY <2>2, AgreementCorrect
    <3>2. EtcdAgrees => Keeps
      BY DEF Keeps
    <3> QED BY <3>1, <3>2, PTL
  <2> QED BY <2>1, <2>2
<1>2. TypeOK /\ AllocatorExact(vmap) /\ Keeps /\ [Next]_vars => [T!Next]_(T!vars)
  BY NextPermitted
<1>3. Spec => T!Init /\ [][T!Next]_(T!vars)
  BY <1>1, <1>2, InitPermitted, TypeCorrect, AlwaysExact, PTL DEF Spec
<1> QED BY <1>3 DEF Promise, T!Spec

-----------------------------------------------------------------------------
(* Tenants stay apart. *)

(* No VNID of the range has two holders. *)
Apart(ids) == \A m, n \in Namespaces : m # n /\ ids[m] \in VNIDs => ids[m] # ids[n]

(* Only a join gives a VNID a second holder. *)
LEMMA ChangesApart ==
    ASSUME NeverJoined, NoSelfJoin, NEW ids \in Tables, Apart(ids), NEW new, Changes(ids, new)
    PROVE  Apart(new)
<1>1. \A e \in AdminEdits : e.Action # "join"
  BY DEF NeverJoined, NoSelfJoin
<1>2. PICK ns \in Namespaces, id \in NetIDs : Sets(ids, new, ns, id) /\ (id \in VNIDs => Fresh(ids, id))
  BY <1>1, NetIDsDiffer DEF Changes, Admits, Opens, Isolates, Dismisses, NetIDs
<1>3. \A m \in Namespaces : new[m] = IF m = ns THEN id ELSE ids[m]
  BY <1>2 DEF Sets, Tables
<1> QED BY <1>2, <1>3 DEF Apart, Fresh

(* Each step of the master keeps the tenants apart. *)
LEMMA NextApart ==
    ASSUME NeverJoined, NoSelfJoin, TypeOK, AllocatorExact(vmap), Keeps, Apart(vmap.ids), [Next]_vars
    PROVE  Apart(vmap'.ids)
<1>1. vmap.ids \in Tables
  BY DEF TypeOK, VnidMaps, Tables, NetIDs
<1>2. PICK ids : ids = vmap.ids
  OBVIOUS
<1>3. PICK new : new = vmap'.ids
  OBVIOUS
<1>4. new = ids \/ Changes(ids, new)
  BY <1>2, <1>3, NextChanges
<1>5. Apart(new)
  BY <1>1, <1>2, <1>4, ChangesApart
<1> QED BY <1>3, <1>5

(* While etcd does what it answers, tenants nobody asked to join read        *)
(* different VNIDs in it, after any edits and restarts of the master.        *)
THEOREM ApartCorrect ==
    ASSUME NoSelfJoin, EtcdFaults = {} PROVE Spec => []TenantsApart
<1>1. CASE ~ NeverJoined
  <2>1. TenantsApart
    BY <1>1 DEF TenantsApart
  <2> QED BY <2>1, PTL
<1>2. CASE NeverJoined
  <2>1. Init => Apart(vmap.ids)
    BY NetIDsDiffer DEF Init, newMasterVNIDMap, Apart
  <2>2. TypeOK /\ AllocatorExact(vmap) /\ EtcdAgrees /\ Apart(vmap.ids) /\ [Next]_vars => Apart(vmap.ids)'
    BY <1>2, NextApart DEF Keeps
  <2>3. EtcdAgrees /\ Apart(vmap.ids) => TenantsApart
    BY DEF EtcdAgrees, Recorded, Apart, TenantsApart
  <2> QED BY <2>1, <2>2, <2>3, TypeCorrect, AlwaysExact, AgreementCorrect, PTL DEF Spec
<1> QED BY <1>1, <1>2

-----------------------------------------------------------------------------
(* Records and entries come and go together. *)

(* The faults after which the caller knows what etcd did. *)
NothingLost == EtcdFaults \subseteq {"createFailed", "updateFailed", "deleteFailed"}

(* Each handler writes the entry and the record together, or takes the entry back. *)
LEMMA NextIffKnown ==
    ASSUME NothingLost, TypeInv, RecordIffKnown, [Next]_vars
    PROVE  RecordIffKnown'
<1> DEFINE Iff == \A n \in Namespaces : netns[n].NetID # NoVNID <=> vmap.ids[n] # NoVNID
<1>1. Iff
  BY DEF RecordIffKnown, Exists
<1>2. Iff' => RecordIffKnown'
  BY DEF RecordIffKnown, Exists
<1>3. /\ vmap \in VnidMaps
      /\ netns \in [Namespaces -> Records]
      /\ TypeOK
  BY DEF TypeInv, TypeOK
<1>4. ASSUME NEW e \in AdminEdits, EditNetns(e) PROVE Iff'
  <2>1. ASSUME NEW n \in Namespaces PROVE netns'[n].NetID = netns[n].NetID
    BY <1>3, <1>4, NetIDAfterEdit, MasterVnidAssumption DEF EditNetns
  <2> QED BY <1>1, <1>4, <2>1 DEF EditNetns
<1>5. ASSUME NEW ns \in Namespaces, assignVNID_New(ns) PROVE Iff'
  <2>1. vmap.ids[ns] = NoVNID /\ ~ Exists(ns)
    BY <1>1, <1>5 DEF assignVNID_New, Exists
  <2>2. PICK vm \in allocateNetID(vmap, ns) :
           \/ /\ netns' = [netns EXCEPT ![ns] = Record(ns, vm.ids[ns])]
              /\ vmap' = vm
           \/ /\ UNCHANGED netns
              /\ vmap' = releaseNetID(vm, ns)
    BY <1>5 DEF assignVNID_New, AcquireFails, NothingLost
  <2>3. /\ vm \in VnidMaps
        /\ vm.ids[ns] # NoVNID
        /\ \A n \in Namespaces : n # ns => vm.ids[n] = vmap.ids[n]
    BY <1>3, <2>2, AllocateNetIDFacts, NetIDsDiffer
  <2>4. CASE netns' = [netns EXCEPT ![ns] = Record(ns, vm.ids[ns])] /\ vmap' = vm
    <3>1. \A n \in Namespaces : netns'[n].NetID = IF n = ns THEN vm.ids[ns] ELSE netns[n].NetID
      BY <1>3, <2>4, NetIDAfterWrite
    <3> QED BY <1>1, <2>3, <2>4, <3>1
  <2>5. CASE UNCHANGED netns /\ vmap' = releaseNetID(vm, ns)
    <3>1. vmap'.ids = [vm.ids EXCEPT ![ns] = NoVNID]
      BY <2>3, <2>5, ReleaseNetIDFacts
    <3>2. \A n \in Namespaces : vmap'.ids[n] = vmap.ids[n]
      BY <2>1, <2>3, <3>1 DEF VnidMaps
    <3> QED BY <1>1, <2>5, <3>2
  <2> QED BY <2>2, <2>4, <2>5
<1>6. ASSUME NEW ns \in Namespaces, revokeVNID(ns) PROVE Iff'
  <2>1. \/ UNCHANGED <<netns, vmap>>
        \/ /\ netns' = [netns EXCEPT ![ns] = Record(ns, NoVNID)]
           /\ vmap' = releaseNetID(vmap, ns)
    BY <1>6 DEF revokeVNID, RevokeFails, NothingLost
  <2>2. CASE UNCHANGED <<netns, vmap>>
    BY <1>1, <2>2
  <2>3. CASE /\ netns' = [netns EXCEPT ![ns] = Record(ns, NoVNID)]
             /\ vmap' = releaseNetID(vmap, ns)
    <3>1. vmap'.ids = [vmap.ids EXCEPT ![ns] = NoVNID]
      BY <1>3, <2>3, ReleaseNetIDFacts
    <3>2. \A n \in Namespaces : vmap'.ids[n] = IF n = ns THEN NoVNID ELSE vmap.ids[n]
      BY <1>3, <3>1 DEF VnidMaps
    <3>3. \A n \in Namespaces : netns'[n].NetID = IF n = ns THEN NoVNID ELSE netns[n].NetID
      BY <1>3, <2>3, NetIDAfterWrite
    <3> QED BY <1>1, <3>2, <3>3
  <2> QED BY <2>1, <2>2, <2>3
<1>7. ASSUME updateVNID PROVE Iff'
  <2> DEFINE e == Head(netnsEvents)
             updated == updateNetID(vmap, e.NetName, e.Action, e.Namespace)
  <2>1. e.NetName \in Namespaces /\ e.Namespace \in Namespaces
    BY <1>3, <1>7, MasterVnidAssumption DEF updateVNID, TypeOK
  <2>2. CASE UNCHANGED <<vmap, netns>>
    BY <1>1, <2>2
  <2>3. CASE \E vm \in updated :
               /\ vmap' = vm
               /\ \/ netns' = [netns EXCEPT ![e.NetName] = Record(e.NetName, vm.ids[e.NetName])]
                  \/ UNCHANGED netns
    <3>1. PICK vm \in updated :
               /\ vmap' = vm
               /\ \/ netns' = [netns EXCEPT ![e.NetName] = Record(e.NetName, vm.ids[e.NetName])]
                  \/ UNCHANGED netns
      BY <2>3
    <3>2. /\ vmap.ids[e.NetName] # NoVNID /\ vm.ids[e.NetName] # NoVNID
          /\ \A n \in Namespaces : n # e.NetName => vm.ids[n] = vmap.ids[n]
      BY <1>3, <2>1, <3>1, UpdateNetIDCases, UpdateNetIDFacts
    <3> HIDE DEF e
    <3>3. CASE UNCHANGED netns
      BY <1>1, <3>1, <3>2, <3>3
    <3>4. CASE netns' = [netns EXCEPT ![e.NetName] = Record(e.NetName, vm.ids[e.NetName])]
      <4>1. \A n \in Namespaces :
               netns'[n].NetID = IF n = e.NetName THEN vm.ids[e.NetName] ELSE netns[n].NetID
        BY <1>3, <2>1, <3>4, NetIDAfterWrite
      <4> QED BY <1>1, <3>1, <3>2, <4>1
    <3> QED BY <3>1, <3>3, <3>4
  <2> QED BY <1>7, <2>2, <2>3 DEF updateVNID
<1>8. ASSUME Restart PROVE Iff'
  <2>1. Recorded \in [Namespaces -> VNIDs \cup {GlobalVNID, NoVNID}]
    BY <1>3 DEF Recorded, Records
  <2>2. vmap'.ids = Recorded
    BY <1>8, <2>1, PopulateFacts DEF Restart
  <2> QED BY <1>8, <2>2 DEF Restart, Recorded
<1>9. ASSUME UNCHANGED <<vmap, netns>> PROVE Iff'
  BY <1>1, <1>9
<1> QED BY <1>2, <1>4, <1>5, <1>6, <1>7, <1>8, <1>9
        DEF Next, KubeStep, CreateNamespace, ModifyNamespace, DeleteNamespace, Resync,
            assignVNID, assignVNID_Skip, vars

(* At first there is no record and no entry. *)
LEMMA NoRecordsFirst == Init => RecordIffKnown
<1> SUFFICES ASSUME Init PROVE RecordIffKnown
  OBVIOUS
<1>1. \A n \in Namespaces : netns[n].NetID = NoVNID
  BY DEF Init, Record
<1>2. \A n \in Namespaces : vmap.ids[n] = NoVNID
  BY DEF Init, newMasterVNIDMap
<1> QED BY <1>1, <1>2 DEF RecordIffKnown, Exists

(* A namespace has a record exactly when the master knows it, through        *)
(* writes that fail and restarts, as long as no answer of etcd is lost.      *)
THEOREM RecordsCorrect ==
    ASSUME NothingLost PROVE Spec => []RecordIffKnown
<1>1. Init => RecordIffKnown
  BY NoRecordsFirst
<1>2. TypeInv /\ RecordIffKnown /\ [Next]_vars => RecordIffKnown'
  BY NextIffKnown
<1> QED BY <1>1, <1>2, InitType, NextType, PTL DEF Spec
=============================================================================
