----------------------------- MODULE MasterVnid -----------------------------
(***************************************************************************)
(* The master's half of multi-tenancy: one VNID per Kubernetes namespace.  *)
(*                                                                         *)
(* Two goroutines of the master change the VNID map and the records in     *)
(* etcd: watchNamespaces, fed by an EventQueue of namespace deltas, and    *)
(* watchNetNamespaces, fed by an etcd watch of the records.  Both hold     *)
(* vmap.lock from the first change in memory to the answer of etcd, so     *)
(* each handler is one step here; what may come between its two halves is  *)
(* a crash, and that loses the memory, which is Restart.                   *)
(*                                                                         *)
(* Administrators ask for join, isolate and global by updating a record    *)
(* with etcdctl (admin.md): they copy the NetID they read and fill in      *)
(* Action and Namespace.                                                   *)
(***************************************************************************)
EXTENDS Deltas, VnidMap, Sequences, SequencesExt

CONSTANTS AdminEdits,   \* the edits administrators make: [NetName, Action, Namespace]
          EtcdFaults,   \* how a call to etcd may go wrong, a subset of FaultKinds
          MayRestart,   \* whether the master may crash and start again
          MaxEdits      \* bound: edits the watch has yet to deliver

VARIABLES vmap,         \* master.vnids
          netns,        \* the records under .../netnamespaces in etcd
          netnsEvents,  \* edits the netnamespace watch has yet to hand over, oldest first
          kubeNs,       \* the namespaces that exist in Kubernetes
          nsDelta       \* the delta of each namespace waiting in the EventQueue

vars == <<vmap, netns, netnsEvents, kubeNs, nsDelta>>

(* Failed: the write did not happen; Lost: it did and the answer was lost. *)
FaultKinds == {"createFailed", "createLost", "updateFailed", "deleteFailed", "deleteLost"}
Actions    == {"global", "join", "isolate"}

ASSUME MasterVnidAssumption ==
    /\ IsFiniteSet(AdminEdits)
    /\ AdminEdits \subseteq [NetName : Namespaces, Action : Actions, Namespace : Namespaces]
    /\ EtcdFaults \subseteq FaultKinds
    /\ MayRestart \in BOOLEAN
    /\ MaxEdits \in Nat

(* A record with NetID NoVNID is one that does not exist.  Namespace counts *)
(* only when Action is "join".                                              *)
Records == [NetID : VNIDs \cup {GlobalVNID, NoVNID}, Action : Actions \cup {""}, Namespace : Namespaces]
Record(ns, id) == [NetID |-> id, Action |-> "", Namespace |-> ns]
Exists(ns) == netns[ns].NetID # NoVNID
Recorded == [ns \in Namespaces |-> netns[ns].NetID]

(* The edits a snapshot of the records still shows: the watch of a starting *)
(* master begins with one and hands them over in the order etcd lists them. *)
UnservedEdits == {e \in AdminEdits : /\ Exists(e.NetName)
                                     /\ netns[e.NetName].Action = e.Action
                                     /\ netns[e.NetName].Namespace = e.Namespace}

-----------------------------------------------------------------------------

Init == /\ vmap = newMasterVNIDMap
        /\ netns = [ns \in Namespaces |-> Record(ns, NoVNID)]
        /\ netnsEvents = <<>>
        /\ kubeNs = {}
        /\ nsDelta = [ns \in Namespaces |-> "None"]

-----------------------------------------------------------------------------
(* Kubernetes and its reflector. *)

Queue(ns, type) == nsDelta' = [nsDelta EXCEPT ![ns] = queueActionLocked(@, type)]

CreateNamespace(ns) == /\ ns \notin kubeNs
                       /\ kubeNs' = kubeNs \cup {ns}
                       /\ Queue(ns, "Added")
                       /\ UNCHANGED <<vmap, netns, netnsEvents>>

ModifyNamespace(ns) == /\ ns \in kubeNs
                       /\ Queue(ns, "Updated")
                       /\ UNCHANGED <<vmap, netns, netnsEvents, kubeNs>>

DeleteNamespace(ns) == /\ ns \in kubeNs
                       /\ kubeNs' = kubeNs \ {ns}
                       /\ Queue(ns, "Deleted")
                       /\ UNCHANGED <<vmap, netns, netnsEvents>>

(* Every 30 minutes the objects the consumer has seen and that have nothing *)
(* waiting are queued again.                                                *)
Resync(ns) == /\ ns \in kubeNs
              /\ nsDelta[ns] = "None"
              /\ Queue(ns, "Sync")
              /\ UNCHANGED <<vmap, netns, netnsEvents, kubeNs>>

-----------------------------------------------------------------------------
(* Administrators. *)

(* One etcdctl update of the whole record, with the NetID it has: that of an *)
(* earlier read, written back over a newer one, is left out.                 *)
EditNetns(e) == /\ Exists(e.NetName)
                /\ Len(netnsEvents) < MaxEdits
                /\ netns' = [netns EXCEPT ![e.NetName].Action = e.Action,
                                          ![e.NetName].Namespace = e.Namespace]
                /\ netnsEvents' = Append(netnsEvents, e)
                /\ UNCHANGED <<vmap, kubeNs, nsDelta>>

-----------------------------------------------------------------------------
(* Calls to etcd: the error outcomes of a create and of a delete. *)

AcquireFails(ns, id) ==
    \/ /\ Exists(ns) \/ "createFailed" \in EtcdFaults
       /\ UNCHANGED netns
    \/ /\ "createLost" \in EtcdFaults
       /\ ~ Exists(ns)
       /\ netns' = [netns EXCEPT ![ns] = Record(ns, id)]

RevokeFails(ns) ==
    \/ /\ ~ Exists(ns) \/ "deleteFailed" \in EtcdFaults
       /\ UNCHANGED netns
    \/ /\ "deleteLost" \in EtcdFaults
       /\ Exists(ns)
       /\ netns' = [netns EXCEPT ![ns] = Record(ns, NoVNID)]

-----------------------------------------------------------------------------
(* The master's handlers. *)

Consume(ns, types) == /\ nsDelta[ns] \in types
                      /\ nsDelta' = [nsDelta EXCEPT ![ns] = "None"]

(* Nothing to do for a namespace the map knows, an error when no VNID is free. *)
assignVNID_Skip(ns) ==
    /\ Consume(ns, {"Sync", "Added", "Updated"})
    /\ vmap.ids[ns] # NoVNID \/ allocateNetID(vmap, ns) = {}
    /\ UNCHANGED <<vmap, netns, netnsEvents, kubeNs>>

(* A plausible slip: a failed create does not give the VNID back. *)
assignVNID_NoRollback(ns) ==
    /\ Consume(ns, {"Sync", "Added", "Updated"})
    /\ vmap.ids[ns] = NoVNID
    /\ \E vm \in allocateNetID(vmap, ns) :
         /\ vmap' = vm
         /\ \/ /\ ~ Exists(ns)
               /\ netns' = [netns EXCEPT ![ns] = Record(ns, vm.ids[ns])]
            \/ AcquireFails(ns, vm.ids[ns])
    /\ UNCHANGED <<netnsEvents, kubeNs>>

assignVNID_New(ns) ==
    /\ Consume(ns, {"Sync", "Added", "Updated"})
    /\ vmap.ids[ns] = NoVNID
    /\ \E vm \in allocateNetID(vmap, ns) :
         \/ /\ ~ Exists(ns)
            /\ netns' = [netns EXCEPT ![ns] = Record(ns, vm.ids[ns])]
            /\ vmap' = vm
         \/ /\ AcquireFails(ns, vm.ids[ns])
            /\ vmap' = releaseNetID(vm, ns)
    /\ UNCHANGED <<netnsEvents, kubeNs>>

assignVNID(ns) == assignVNID_Skip(ns) \/ assignVNID_New(ns)

(* A plausible slip: only the map forgets the namespace. *)
revokeVNID_MemoryOnly(ns) ==
    /\ Consume(ns, {"Deleted"})
    /\ vmap' = releaseNetID(vmap, ns)
    /\ UNCHANGED <<netns, netnsEvents, kubeNs>>

(* The record is deleted first; on an error the map keeps its entry. *)
revokeVNID(ns) ==
    /\ Consume(ns, {"Deleted"})
    /\ \/ /\ Exists(ns)
          /\ netns' = [netns EXCEPT ![ns] = Record(ns, NoVNID)]
          /\ vmap' = releaseNetID(vmap, ns)
       \/ /\ RevokeFails(ns)
          /\ UNCHANGED vmap
    /\ UNCHANGED <<netnsEvents, kubeNs>>

(* A plausible slip: the new VNID is not written to the record. *)
updateVNID_MemoryOnly ==
    /\ netnsEvents # <<>>
    /\ netnsEvents' = Tail(netnsEvents)
    /\ LET e == Head(netnsEvents)
       IN vmap' \in updateNetID(vmap, e.NetName, e.Action, e.Namespace)
    /\ UNCHANGED <<netns, kubeNs, nsDelta>>

(* The map is changed first; the record is then overwritten whatever it holds, *)
(* and nothing is undone if that fails.                                        *)
updateVNID ==
    /\ netnsEvents # <<>>
    /\ netnsEvents' = Tail(netnsEvents)
    /\ LET e == Head(netnsEvents)
           updated == updateNetID(vmap, e.NetName, e.Action, e.Namespace)
       IN \/ /\ updated = {}
             /\ UNCHANGED <<vmap, netns>>
          \/ \E vm \in updated :
               /\ vmap' = vm
               /\ \/ netns' = [netns EXCEPT ![e.NetName] = Record(e.NetName, vm.ids[e.NetName])]
                  \/ "updateFailed" \in EtcdFaults /\ UNCHANGED netns
    /\ UNCHANGED <<kubeNs, nsDelta>>

(* A crash and the next start: the map is read back from etcd, the reflector *)
(* lists the namespaces and the watch begins with a snapshot.  Deletions the *)
(* queue still held are lost with it, as are those made meanwhile.           *)
Restart ==
    /\ MayRestart
    /\ vmap' = populateVNIDs(Recorded)
    /\ netnsEvents' \in SetToSeqs(UnservedEdits)
    /\ nsDelta' = [ns \in Namespaces |-> IF ns \in kubeNs THEN "Sync" ELSE "None"]
    /\ UNCHANGED <<netns, kubeNs>>

-----------------------------------------------------------------------------

KubeStep == \E ns \in Namespaces : \/ CreateNamespace(ns)
                                   \/ ModifyNamespace(ns)
                                   \/ DeleteNamespace(ns)
                                   \/ Resync(ns)

Next == \/ KubeStep
        \/ \E e \in AdminEdits : EditNetns(e)
        \/ \E ns \in Namespaces : assignVNID(ns) \/ revokeVNID(ns)
        \/ updateVNID
        \/ Restart

Spec == Init /\ [][Next]_vars

-----------------------------------------------------------------------------
(* Fairness.  The two handler goroutines never stop (utilwait.Forever), so a *)
(* delta or an edit that waits is handled; the resync timer fires again and  *)
(* again; an etcd that is asked again and again answers at some point.       *)

HandlersRun == /\ \A ns \in Namespaces : WF_vars(assignVNID(ns)) /\ WF_vars(revokeVNID(ns))
               /\ WF_vars(updateVNID)
ResyncRuns  == \A ns \in Namespaces : WF_vars(Resync(ns))
EtcdAnswers == \A ns \in Namespaces : SF_vars(assignVNID(ns) /\ netns[ns] # netns'[ns])

FairSpec == Spec /\ HandlersRun /\ ResyncRuns /\ EtcdAnswers

-----------------------------------------------------------------------------
(* Properties. *)

(* Every variable holds what the code can put there; an edit that waits, or *)
(* that a record still shows, is one an administrator made.                  *)
TypeOK ==
    /\ vmap \in VnidMaps
    /\ netns \in [Namespaces -> Records]
    /\ netnsEvents \in Seq(AdminEdits)
    /\ kubeNs \subseteq Namespaces
    /\ nsDelta \in [Namespaces -> PendingTypes]

(* No administrator asks to join a namespace to itself. *)
NoSelfJoin == \A e \in AdminEdits : e.Action = "join" => e.Namespace # e.NetName

(* No VNID that a namespace holds is free in the allocator (AllocateNext     *)
(* would give it to a second tenant), whatever etcd does: releaseNetID frees *)
(* a VNID only with its last holder.                                         *)
HeldVNIDsReserved == HeldVNIDs(vmap) \subseteq vmap.allocated

(* No VNID stays reserved without a holder: joins, isolations and failed     *)
(* creates, repeated, never use up the range.                                *)
NoVNIDLeaked == vmap.allocated \subseteq HeldVNIDs(vmap)

(* Master and etcd agree on every VNID as long as etcd does what it answers: *)
(* what assignVNID, updateVNID and revokeVNID keep in memory is what nodes   *)
(* read, and a restart changes nothing.                                      *)
EtcdAgrees == Recorded = vmap.ids

(* A record exists exactly for the namespaces the map knows, even when       *)
(* writes fail: assignVNID takes its entry back, revokeVNID keeps it.        *)
RecordIffKnown == \A ns \in Namespaces : Exists(ns) <=> vmap.ids[ns] # NoVNID

(* Who shares a network changes only as Tenancy allows: allocateNetID never  *)
(* merges two tenants and an action moves one namespace, none of the others. *)
Peers   == PeersOf(vmap)
Globals == NamespacesOf(vmap, GlobalVNID)
T == INSTANCE Tenancy WITH peers <- Peers, globals <- Globals
Promise == T!Spec

(* Two tenants whose networks no administrator ever asked to merge have      *)
(* different VNIDs in etcd, where the nodes read them.                       *)
NeverJoined == \A e \in AdminEdits : e.Action = "join" => e.Namespace = e.NetName
TenantsApart ==
    NeverJoined => \A a, b \in Namespaces :
                      a # b /\ netns[a].NetID \in VNIDs => netns[a].NetID # netns[b].NetID

(* A namespace that is not global after all asks for "isolate": one that was *)
(* global no longer is once the master has served it and a VNID was free.    *)
IsolateServed ==
    [][\A e \in AdminEdits :
          (/\ e.Action = "isolate"
           /\ netnsEvents # <<>> /\ e = Head(netnsEvents)
           /\ netnsEvents' = Tail(netnsEvents)
           /\ vmap.ids[e.NetName] # NoVNID /\ FreeVNIDs(vmap) # {})
              => vmap'.ids[e.NetName] # GlobalVNID]_vars

(* A namespace that stays has, in the end and for good, a VNID and a record: *)
(* a failed create is retried by the resync.                                 *)
EventuallyAssigned ==
    \A ns \in Namespaces :
        <>[](ns \in kubeNs) => <>[](vmap.ids[ns] # NoVNID /\ Exists(ns))

(* A namespace that is gone for good gives its VNID and its record back.     *)
EventuallyRevoked ==
    \A ns \in Namespaces :
        <>[](ns \notin kubeNs) => <>[](vmap.ids[ns] = NoVNID /\ ~ Exists(ns))
=============================================================================
