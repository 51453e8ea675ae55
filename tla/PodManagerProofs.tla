--------------------------- MODULE PodManagerProofs ---------------------------
(***************************************************************************)
(* Proofs about PodManager, for any pods, namespaces, addresses and VNIDs, *)
(* any capacity of the queue, and the faults each theorem names.           *)
(***************************************************************************)
EXTENDS PodManager, TLAPS

(***************************************************************************)
(* The queue.  What waits in it is waited for: an ADD and a DEL by kubelet *)
(* for the pod, the one UPDATE by the goroutine of the records.  A pod     *)
(* that the worker is at is not changed by anybody else.                   *)
(***************************************************************************)
Waits(r) == /\ r.cmd = "ADD" => life[r.pod] = "adding" /\ ~ InSetup(r.pod)
            /\ r.cmd = "DEL" => life[r.pod] = "deleting"
            /\ r.cmd = "UPDATE" => netnsJob.at = "wait" /\ work.at # "update"

Clash(r, s) == r = s \/ (r.cmd = "UPDATE" /\ s.cmd = "UPDATE")

QueueInv ==
    /\ \A i \in 1 .. Len(requests) : Waits(requests[i])
    /\ \A i, j \in 1 .. Len(requests) : i # j => ~ Clash(requests[i], requests[j])
    /\ work.at = "setup" => life[work.pod] = "adding" /\ addr[work.pod] # NoIP
    /\ work.at = "update" => /\ life[work.pod] \in {"added", "running", "deleting"}
                             /\ netnsJob.at = "wait"
    /\ \A p \in SetUp : addr[p] # NoIP

(* The addresses: who has one holds it, and who holds one is set up, being   *)
(* set up or torn down, and holds no second one.                            *)
HasItsAddress == \A p \in Pods : addr[p] # NoIP => ipam[addr[p]] = p

Held(p, ip) == \/ (p \in SetUp \/ InSetup(p)) /\ addr[p] = ip
               \/ life[p] = "deleting"
HoldsOne == \A ip \in IPs, p \in Pods : ipam[ip] = p => Held(p, ip)

(* The flows: none before the pod is set up, those of one VNID afterwards.  *)
OwnFlows == \A p \in SetUp : \E id \in NetIDs : FlowsOf(p) = FlowsFor(p, addr[p], id)
FlowsInv == /\ OwnFlows
            /\ \A p \in Pods : life[p] \in {"absent", "pending", "adding"} => FlowsOf(p) = {}

(* Whose flows are on an address: those of the pod that holds it and of pods *)
(* that are gone, and for the packets of one VNID one flow.                  *)
HeldFlows  == \A g \in flows : life[g.pod] = "gone" \/ ipam[g.ip] = g.pod
OneForEach == \A f, g \in flows :
                 f.dir = "to" /\ g.dir = "to" /\ f.ip = g.ip /\ f.vnid = g.vnid => f.pod = g.pod
DisputeInv == HeldFlows /\ OneForEach

-----------------------------------------------------------------------------
(* The queue: what a request served or added leaves in it. *)

(* The request at the head is taken, the others stay and clash with neither *)
(* it nor each other.                                                       *)
LEMMA Served ==
    ASSUME TypeOK, QueueInv, NEW cmd, NEW p, Serving(cmd, p), Serve
    PROVE  /\ requests' \in Seq(Requests) /\ Len(requests') <= QueueCap
           /\ p \in Pods /\ Waits([cmd |-> cmd, pod |-> p])
           /\ \A i \in 1 .. Len(requests') :
                 /\ requests'[i] \in Requests /\ Waits(requests'[i])
                 /\ ~ Clash(requests'[i], [cmd |-> cmd, pod |-> p])
           /\ \A i, j \in 1 .. Len(requests') : i # j => ~ Clash(requests'[i], requests'[j])
<1>1. /\ requests \in Seq(Requests) /\ requests # <<>> /\ requests' = Tail(requests)
      /\ Len(requests) <= QueueCap /\ QueueCap \in Nat
      /\ Head(requests) = [cmd |-> cmd, pod |-> p]
  BY PodManagerAssumption DEF TypeOK, Serving, Serve
<1>2. /\ requests' \in Seq(Requests) /\ Len(requests') <= QueueCap
      /\ 1 \in 1 .. Len(requests) /\ requests[1] = [cmd |-> cmd, pod |-> p]
      /\ \A i \in 1 .. Len(requests') : /\ i + 1 \in 1 .. Len(requests) /\ i + 1 # 1
                                        /\ requests'[i] = requests[i + 1]
  BY <1>1
<1>3. \A i, j \in 1 .. Len(requests') : i # j => i + 1 # j + 1
  OBVIOUS
<1>4. requests[1] \in Requests
  BY <1>1, <1>2
<1>5. \A i \in 1 .. Len(requests') : requests'[i] \in Requests
  BY <1>1, <1>2
<1>6. p \in Pods
  BY <1>2, <1>4 DEF Requests
<1>7. Waits([cmd |-> cmd, pod |-> p]) /\ \A i \in 1 .. Len(requests') : Waits(requests'[i])
  BY <1>2 DEF QueueInv
<1>8. \A i \in 1 .. Len(requests') : ~ Clash(requests'[i], [cmd |-> cmd, pod |-> p])
  BY <1>2 DEF QueueInv
<1>9. \A i, j \in 1 .. Len(requests') : i # j => ~ Clash(requests'[i], requests'[j])
  BY <1>2, <1>3 DEF QueueInv
<1> QED BY <1>2, <1>5, <1>6, <1>7, <1>8, <1>9

(* A request is added behind the others.                                    *)
LEMMA Added ==
    ASSUME TypeOK, QueueInv, NEW cmd \in {"ADD", "UPDATE", "DEL"}, NEW p \in Pods,
           addRequest(cmd, p),
           \A i \in 1 .. Len(requests) : ~ Clash(requests[i], [cmd |-> cmd, pod |-> p])
    PROVE  /\ requests' \in Seq(Requests) /\ Len(requests') <= QueueCap
           /\ \A i \in 1 .. Len(requests') :
                 \/ requests'[i] = [cmd |-> cmd, pod |-> p]
                 \/ requests'[i] \in Requests /\ Waits(requests'[i])
           /\ \A i, j \in 1 .. Len(requests') : i # j => ~ Clash(requests'[i], requests'[j])
<1> DEFINE r == [cmd |-> cmd, pod |-> p]
<1>1. r \in Requests
  BY DEF Requests
<1>2. /\ requests \in Seq(Requests) /\ Len(requests) < QueueCap /\ QueueCap \in Nat
      /\ requests' = Append(requests, r)
  BY PodManagerAssumption DEF TypeOK, addRequest
<1> HIDE DEF r
<1>3. /\ requests' \in Seq(Requests) /\ Len(requests') <= QueueCap
      /\ Len(requests') = Len(requests) + 1 /\ requests'[Len(requests) + 1] = r
      /\ \A i \in 1 .. Len(requests) : requests'[i] = requests[i]
  BY <1>1, <1>2
<1>4. ASSUME NEW i \in 1 .. Len(requests')
      PROVE  \/ i = Len(requests) + 1 /\ requests'[i] = r
             \/ i \in 1 .. Len(requests) /\ requests'[i] = requests[i] /\ requests[i] \in Requests
  BY <1>2, <1>3
<1>5. ASSUME NEW i \in 1 .. Len(requests) PROVE ~ Clash(requests[i], r) /\ ~ Clash(r, requests[i])
  BY DEF r, Clash
<1>6. ASSUME NEW i \in 1 .. Len(requests'), NEW j \in 1 .. Len(requests'), i # j
      PROVE  ~ Clash(requests'[i], requests'[j])
  BY <1>4, <1>5, <1>6 DEF QueueInv
<1>7. ASSUME NEW i \in 1 .. Len(requests')
      PROVE  requests'[i] = r \/ (requests'[i] \in Requests /\ Waits(requests'[i]))
  BY <1>4 DEF QueueInv
<1> QED BY <1>3, <1>6, <1>7 DEF r

(* What the worker and the goroutine of the records do, by their `at`.      *)
LEMMA WorkIs ==
    ASSUME TypeOK
    PROVE  /\ work.at \in {"idle", "setup", "update"} /\ (work.at = "idle" => work = Idle)
           /\ work.at \in {"setup", "update"} => /\ work.pod \in Pods /\ work.vnid \in NetIDs
                                                 /\ work # Idle
           /\ netnsJob.at \in {"wait", "update"} =>
                 netnsJob = [at |-> netnsJob.at, ns |-> netnsJob.ns, removed |-> netnsJob.removed,
                             run |-> netnsJob.run, others |-> netnsJob.others]
           /\ netnsJob.at # "idle" => netnsJob.ns \in Namespaces /\ netnsJob.removed \in BOOLEAN
           /\ netnsJob.at \in {"wait", "update"} =>
                 netnsJob.run \in SUBSET Pods /\ netnsJob.others \in SUBSET Pods
BY DEF TypeOK, Works, NetnsJobs, Idle

(* A step that leaves the queue and the worker alone, and a pod that is     *)
(* waited for as it is.                                                     *)
LEMMA QueueKept ==
    ASSUME TypeOK, QueueInv, UNCHANGED <<requests, work>>,
           netnsJob.at = "wait" => netnsJob'.at = "wait",
           \A q \in Pods : /\ life[q] = "adding" => life'[q] = "adding" /\ addr'[q] = addr[q]
                           /\ life[q] = "deleting" => life'[q] = "deleting"
                           /\ life[q] \in {"added", "running"}
                                => life'[q] \in {"added", "running", "deleting"},
           \A q \in SetUp' : addr'[q] # NoIP
    PROVE  QueueInv'
<1>1. \A i \in 1 .. Len(requests) : requests[i].pod \in Pods
  <2>1. \A i \in 1 .. Len(requests) : requests[i] \in Requests
    BY DEF TypeOK
  <2> QED BY <2>1 DEF Requests
<1>2. \A i \in 1 .. Len(requests') : Waits(requests[i])'
  BY <1>1 DEF QueueInv, Waits, InSetup
<1>3. \A i, j \in 1 .. Len(requests') : i # j => ~ Clash(requests[i], requests[j])'
  BY DEF QueueInv, Clash
<1>4. work'.at = "setup" => life'[work'.pod] = "adding" /\ addr'[work'.pod] # NoIP
  BY WorkIs DEF QueueInv
<1>5. work'.at = "update" => /\ life'[work'.pod] \in {"added", "running", "deleting"}
                             /\ netnsJob'.at = "wait"
  BY WorkIs DEF QueueInv
<1> QED BY <1>2, <1>3, <1>4, <1>5 DEF QueueInv

-----------------------------------------------------------------------------
(* The steps: types and queue. *)

TypeInv == TypeOK /\ QueueInv

(* It holds in the beginning.                                               *)
LEMMA TypeInit == Init => TypeInv
<1> SUFFICES ASSUME Init PROVE TypeInv
  OBVIOUS
<1>1. TypeOK
  BY PodManagerAssumption DEF Init, TypeOK, Lives, Works, NetnsJobs
<1>2. QueueInv
  BY DEF Init, QueueInv, Idle, SetUp
<1> QED BY <1>1, <1>2 DEF TypeInv

(* The API server and kubelet, as far as they send no request.              *)
LEMMA LifeNext ==
    ASSUME TypeInv, NEW p \in Pods, CreatePod(p) \/ ReportRunning(p) \/ DeletePod(p)
    PROVE  TypeInv'
<1>1. /\ TypeOK /\ QueueInv /\ UNCHANGED <<addr, vmap, ipam, flows, requests, work, netnsJob>>
  BY DEF TypeInv, CreatePod, ReportRunning, DeletePod, netnsVars
<1>2. CASE CreatePod(p) \/ ReportRunning(p)
  <2> PICK l \in {"pending", "running"} :
             /\ life' = [life EXCEPT ![p] = l] /\ doomed' = doomed
             /\ l = "pending" => life[p] = "absent"
             /\ l = "running" => life[p] = "added"
    BY <1>2 DEF CreatePod, ReportRunning, Becomes
  <2>1. \A q \in Pods : life'[q] = IF q = p THEN l ELSE life[q]
    BY <1>1 DEF TypeOK
  <2>2. TypeOK'
    BY <1>1 DEF TypeOK, Lives
  <2>3. \A q \in SetUp' : addr'[q] # NoIP
    BY <1>1, <2>1 DEF SetUp, QueueInv
  <2>4. QueueInv'
    BY <1>1, <2>1, <2>3, QueueKept
  <2> QED BY <2>2, <2>4 DEF TypeInv
<1>3. CASE DeletePod(p)
  <2>1. life' = life /\ doomed' = doomed \cup {p}
    BY <1>3 DEF DeletePod
  <2>2. TypeOK'
    BY <1>1, <2>1 DEF TypeOK
  <2>3. QueueInv'
    BY <1>1, <2>1, QueueKept DEF QueueInv, SetUp
  <2> QED BY <2>2, <2>3 DEF TypeInv
<1> QED BY <1>2, <1>3

(* kubelet asks for an ADD.                                                 *)
LEMMA KubeletAddsNext == ASSUME TypeInv, NEW p \in Pods, KubeletAdds(p) PROVE TypeInv'
<1> DEFINE r == [cmd |-> "ADD", pod |-> p]
<1>1. /\ TypeOK /\ QueueInv /\ life[p] = "pending" /\ addRequest("ADD", p)
      /\ life' = [life EXCEPT ![p] = "adding"]
      /\ UNCHANGED <<doomed, addr, vmap, ipam, flows, work, netnsJob>>
  BY DEF TypeInv, KubeletAdds, Becomes, netnsVars
<1>2. \A q \in Pods : life'[q] = IF q = p THEN "adding" ELSE life[q]
  BY <1>1 DEF TypeOK
<1>3. \A i \in 1 .. Len(requests) : ~ Clash(requests[i], r)
  BY <1>1 DEF QueueInv, Waits, Clash
<1>4. /\ requests' \in Seq(Requests) /\ Len(requests') <= QueueCap
      /\ \A i \in 1 .. Len(requests') :
            requests'[i] = r \/ (requests'[i] \in Requests /\ Waits(requests'[i]))
      /\ \A i, j \in 1 .. Len(requests') : i # j => ~ Clash(requests'[i], requests'[j])
  BY <1>1, <1>3, Added
<1>5. TypeOK'
  BY <1>1, <1>4 DEF TypeOK, Lives
<1>6. ~ InSetup(p)
  BY <1>1 DEF QueueInv, InSetup
<1>7. ASSUME NEW i \in 1 .. Len(requests') PROVE Waits(requests[i])'
  <2>1. CASE requests'[i] = r
    BY <1>1, <1>2, <1>6, <2>1 DEF Waits, InSetup
  <2>2. CASE requests'[i] \in Requests /\ Waits(requests'[i])
    BY <1>1, <1>2, <2>2 DEF Waits, InSetup, Requests
  <2> QED BY <1>4, <2>1, <2>2
<1>8. \A i, j \in 1 .. Len(requests') : i # j => ~ Clash(requests[i], requests[j])'
  BY <1>4 DEF Clash
<1>9. /\ work.at = "setup" => life'[work.pod] = "adding" /\ addr[work.pod] # NoIP
      /\ work.at = "update" => /\ life'[work.pod] \in {"added", "running", "deleting"}
                               /\ netnsJob.at = "wait"
      /\ \A q \in SetUp' : addr[q] # NoIP
  BY <1>1, <1>2, WorkIs DEF QueueInv, SetUp
<1> QED BY <1>1, <1>5, <1>7, <1>8, <1>9 DEF TypeInv, QueueInv

(* kubelet asks for a DEL, or the pod goes without one.                     *)
LEMMA KubeletDeletesNext == ASSUME TypeInv, NEW p \in Pods, KubeletDeletes(p) PROVE TypeInv'
<1> DEFINE r == [cmd |-> "DEL", pod |-> p]
<1>1. /\ TypeOK /\ QueueInv /\ UNCHANGED <<doomed, vmap, ipam, flows, work, netnsJob>>
      /\ life[p] # "adding" /\ life[p] # "deleting" /\ life[p] # "absent"
      /\ \/ /\ life[p] = "pending" /\ life' = [life EXCEPT ![p] = "gone"] /\ UNCHANGED <<addr, requests>>
         \/ /\ life' = [life EXCEPT ![p] = "deleting"] /\ addRequest("DEL", p)
            /\ addr' \in {addr, [addr EXCEPT ![p] = NoIP]}
  BY DEF TypeInv, KubeletDeletes, AsksAgain, Becomes, netnsVars
<1>2. CASE life' = [life EXCEPT ![p] = "gone"] /\ UNCHANGED <<addr, requests>> /\ life[p] = "pending"
  <2>1. \A q \in Pods : life'[q] = IF q = p THEN "gone" ELSE life[q]
    BY <1>1, <1>2 DEF TypeOK
  <2>2. TypeOK'
    BY <1>1, <1>2 DEF TypeOK, Lives
  <2>3. QueueInv'
    BY <1>1, <1>2, <2>1, QueueKept DEF QueueInv, SetUp
  <2> QED BY <2>2, <2>3 DEF TypeInv
<1>3. CASE /\ life' = [life EXCEPT ![p] = "deleting"] /\ addRequest("DEL", p)
           /\ addr' \in {addr, [addr EXCEPT ![p] = NoIP]}
  <2>1. \A q \in Pods : /\ life'[q] = IF q = p THEN "deleting" ELSE life[q]
                        /\ q # p => addr'[q] = addr[q]
    BY <1>1, <1>3 DEF TypeOK
  <2>2. \A i \in 1 .. Len(requests) : ~ Clash(requests[i], r)
    BY <1>1 DEF QueueInv, Waits, Clash
  <2>3. /\ requests' \in Seq(Requests) /\ Len(requests') <= QueueCap
        /\ \A i \in 1 .. Len(requests') :
              requests'[i] = r \/ (requests'[i] \in Requests /\ Waits(requests'[i]))
        /\ \A i, j \in 1 .. Len(requests') : i # j => ~ Clash(requests'[i], requests'[j])
    BY <1>1, <1>3, <2>2, Added
  <2>4. addr' \in [Pods -> IPs \cup {NoIP}]
    BY <1>1, <1>3 DEF TypeOK
  <2>5. TypeOK'
    BY <1>1, <1>3, <2>3, <2>4 DEF TypeOK, Lives
  <2>6. ASSUME NEW i \in 1 .. Len(requests') PROVE Waits(requests[i])'
    <3>1. CASE requests'[i] = r
      BY <2>1, <3>1 DEF Waits
    <3>2. CASE requests'[i] \in Requests /\ Waits(requests'[i])
      BY <1>1, <2>1, <3>2 DEF Waits, InSetup, Requests
    <3> QED BY <2>3, <3>1, <3>2
  <2>7. \A i, j \in 1 .. Len(requests') : i # j => ~ Clash(requests[i], requests[j])'
    BY <2>3 DEF Clash
  <2>8. /\ work.at = "setup" => life'[work.pod] = "adding" /\ addr'[work.pod] # NoIP
        /\ work.at = "update" => /\ life'[work.pod] \in {"added", "running", "deleting"}
                                 /\ netnsJob.at = "wait"
        /\ \A q \in SetUp' : addr'[q] # NoIP
    BY <1>1, <2>1, WorkIs DEF QueueInv, SetUp
  <2> QED BY <1>1, <2>5, <2>6, <2>7, <2>8 DEF TypeInv, QueueInv
<1> QED BY <1>1, <1>2, <1>3

(* The flows of a pod are flows, and so is what is left of them.            *)
LEMMA FlowsTyped ==
    ASSUME TypeOK
    PROVE  /\ \A p \in Pods, ip \in IPs, id \in NetIDs : FlowsFor(p, ip, id) \subseteq Flows
           /\ \A ip : \A left \in PartlyDeleted(flows, ip) : left \subseteq Flows
           /\ \A ip : \A new \in SUBSET Flows :
                 /\ add_ovs_flows(flows, new) \subseteq Flows
                 /\ add_ovs_flows(del_ovs_flows(flows, ip), new) \subseteq Flows
<1>1. \A p \in Pods, ip \in IPs, id \in NetIDs : FlowsFor(p, ip, id) \subseteq Flows
  BY DEF Flows
<1>2. flows \subseteq Flows
  BY DEF TypeOK
<1> QED BY <1>1, <1>2 DEF add_ovs_flows, del_ovs_flows, PartlyDeleted

(* The worker takes an ADD, and the pod gets an address or waits again.     *)
LEMMA SetupBeginsNext == ASSUME TypeInv, NEW p \in Pods, SetupBegins(p) PROVE TypeInv'
<1> DEFINE r == [cmd |-> "ADD", pod |-> p]
           id == vmap[NamespaceOf[p]]
<1>1. /\ TypeOK /\ QueueInv /\ work = Idle /\ Serving("ADD", p) /\ Serve
      /\ UNCHANGED <<doomed, flows, vmap, netnsJob>>
  BY DEF TypeInv, SetupBegins, Serving, netnsVars
<1>2. /\ requests' \in Seq(Requests) /\ Len(requests') <= QueueCap /\ Waits(r)
      /\ \A i \in 1 .. Len(requests') :
            requests'[i] \in Requests /\ Waits(requests'[i]) /\ ~ Clash(requests'[i], r)
      /\ \A i, j \in 1 .. Len(requests') : i # j => ~ Clash(requests'[i], requests'[j])
  BY <1>1, Served
<1>3. life[p] = "adding"
  BY <1>2 DEF Waits
<1>4. \A i, j \in 1 .. Len(requests') : i # j => ~ Clash(requests[i], requests[j])'
  BY <1>2 DEF Clash
<1>5. ASSUME id # NoVNID, NEW ip \in FreeIPs,
             ipam' = [ipam EXCEPT ![ip] = p], addr' = [addr EXCEPT ![p] = ip],
             work' = [at |-> "setup", pod |-> p, vnid |-> id], UNCHANGED life
      PROVE  TypeInv'
  <2>1. id \in NetIDs /\ ip \in IPs /\ ip # NoIP
    BY <1>1, <1>5, PodManagerAssumption DEF TypeOK, FreeIPs
  <2>2. work' \in Works
    BY <1>5, <2>1 DEF Works
  <2>3. ipam' \in [IPs -> Pods \cup {NoPod}] /\ addr' \in [Pods -> IPs \cup {NoIP}]
    BY <1>1, <1>5, <2>1 DEF TypeOK
  <2>4. TypeOK'
    BY <1>1, <1>2, <1>5, <2>2, <2>3 DEF TypeOK
  <2>5. ASSUME NEW i \in 1 .. Len(requests') PROVE Waits(requests[i])'
    <3>1. /\ requests'[i] \in Requests /\ Waits(requests'[i]) /\ requests'[i] # r
      BY <1>2 DEF Clash
    <3>2. requests'[i].cmd = "ADD" => requests'[i].pod # p
      BY <3>1 DEF Requests
    <3> QED BY <1>1, <1>5, <3>1, <3>2 DEF Waits, InSetup
  <2>6. work'.at = "setup" /\ work'.pod = p /\ addr'[p] = ip
    BY <1>1, <1>5 DEF TypeOK
  <2>7. \A q \in SetUp' : addr'[q] # NoIP
    BY <1>1, <1>5, <2>1 DEF TypeOK, QueueInv, SetUp
  <2>8. QueueInv'
    BY <1>3, <1>4, <1>5, <2>1, <2>5, <2>6, <2>7 DEF QueueInv
  <2> QED BY <2>4, <2>8 DEF TypeInv
<1>6. ASSUME life' = [life EXCEPT ![p] = "pending"], UNCHANGED <<ipam, addr, work>>
      PROVE  TypeInv'
  <2>1. \A q \in Pods : life'[q] = IF q = p THEN "pending" ELSE life[q]
    BY <1>1, <1>6 DEF TypeOK
  <2>2. TypeOK'
    BY <1>1, <1>2, <1>6 DEF TypeOK, Lives
  <2>3. ASSUME NEW i \in 1 .. Len(requests') PROVE Waits(requests[i])'
    <3>1. /\ requests'[i] \in Requests /\ Waits(requests'[i]) /\ requests'[i] # r
      BY <1>2 DEF Clash
    <3>2. requests'[i].pod \in Pods /\ (requests'[i].cmd = "ADD" => requests'[i].pod # p)
      BY <3>1 DEF Requests
    <3> QED BY <1>1, <1>3, <1>6, <2>1, <3>1, <3>2 DEF Waits, InSetup
  <2>4. \A q \in SetUp' : addr'[q] # NoIP
    BY <1>1, <1>6, <2>1 DEF QueueInv, SetUp
  <2>5. work'.at = "idle"
    BY <1>1, <1>6 DEF Idle
  <2>6. QueueInv'
    BY <1>4, <2>3, <2>4, <2>5 DEF QueueInv
  <2> QED BY <2>2, <2>6 DEF TypeInv
<1> QED BY <1>5, <1>6 DEF SetupBegins, Becomes

(* The script has run for an ADD.                                           *)
LEMMA SetupEndsNext == ASSUME TypeInv, NEW p \in Pods, SetupEnds(p) PROVE TypeInv'
<1> DEFINE new == FlowsFor(p, addr[p], work.vnid)
<1>1. /\ TypeOK /\ QueueInv /\ work.at = "setup" /\ work.pod = p /\ work' = Idle
      /\ UNCHANGED <<doomed, requests, vmap, netnsJob>>
  BY DEF TypeInv, SetupEnds, netnsVars
<1>2. life[p] = "adding" /\ addr[p] \in IPs /\ new \subseteq Flows /\ addr[p] # NoIP
  <2>1. life[p] = "adding" /\ addr[p] # NoIP /\ work.vnid \in NetIDs
    BY <1>1, WorkIs DEF QueueInv
  <2>2. addr[p] \in IPs
    BY <1>1, <2>1 DEF TypeOK
  <2> QED BY <1>1, <2>1, <2>2, FlowsTyped
<1> HIDE DEF new
<1>3. PICK l \in {"added", "gone"} :
        /\ life' = [life EXCEPT ![p] = l] /\ flows' \subseteq Flows
        /\ ipam' \in {ipam, [ipam EXCEPT ![addr[p]] = NoPod]}
        /\ addr' \in {addr, [addr EXCEPT ![p] = NoIP]}
        /\ l = "added" => addr' = addr
  <2>1. CASE flows' = add_ovs_flows(flows, new) /\ Becomes(p, "added") /\ UNCHANGED <<addr, ipam>>
    BY <1>1, <1>2, <2>1, FlowsTyped DEF Becomes
  <2>2. CASE /\ \E done \in SUBSET new \ {new} : flows' = add_ovs_flows(flows, done)
             /\ Becomes(p, "gone") /\ Gone(p) /\ ipam' = [ipam EXCEPT ![addr[p]] = NoPod]
    <3>1. flows' \subseteq Flows
      BY <1>1, <1>2, <2>2, FlowsTyped
    <3> QED BY <2>2, <3>1 DEF Becomes, Gone
  <2> QED BY <2>1, <2>2 DEF SetupEnds, new
<1>4. \A q \in Pods : /\ life'[q] = IF q = p THEN l ELSE life[q]
                      /\ q # p => addr'[q] = addr[q]
  BY <1>1, <1>3 DEF TypeOK
<1>5. TypeOK'
  <2>1. /\ life' \in [Pods -> Lives] /\ addr' \in [Pods -> IPs \cup {NoIP}]
        /\ ipam' \in [IPs -> Pods \cup {NoPod}]
    BY <1>1, <1>2, <1>3 DEF TypeOK, Lives
  <2> QED BY <1>1, <1>3, <2>1 DEF TypeOK, Works
<1>6. ASSUME NEW i \in 1 .. Len(requests') PROVE Waits(requests[i])'
  <2>1. requests[i] \in Requests
    BY <1>1 DEF TypeOK
  <2>2. requests[i].pod \in Pods
    BY <2>1 DEF Requests
  <2>3. Waits(requests[i])
    BY <1>1 DEF QueueInv
  <2> QED BY <1>1, <1>2, <1>4, <2>1, <2>2, <2>3 DEF Waits, InSetup, Idle
<1>7. \A i, j \in 1 .. Len(requests') : i # j => ~ Clash(requests[i], requests[j])'
  BY <1>1 DEF QueueInv, Clash
<1>8. \A q \in SetUp' : addr'[q] # NoIP
  <2> SUFFICES ASSUME NEW q \in Pods, q \in SetUp' PROVE addr'[q] # NoIP
    BY DEF SetUp
  <2>1. CASE q = p
    BY <1>2, <1>3, <1>4, <2>1 DEF SetUp
  <2>2. CASE q # p
    BY <1>1, <1>4, <2>2 DEF SetUp, QueueInv
  <2> QED BY <2>1, <2>2
<1>9. work'.at = "idle"
  BY <1>1 DEF Idle
<1> QED BY <1>1, <1>5, <1>6, <1>7, <1>8, <1>9 DEF TypeInv, QueueInv

(* The worker takes an UPDATE, and goes on with it or answers at once.      *)
LEMMA UpdateBeginsNext == ASSUME TypeInv, NEW p \in Pods, UpdateBegins(p) PROVE TypeInv'
<1> DEFINE r == [cmd |-> "UPDATE", pod |-> p]
           id == vmap[NamespaceOf[p]]
<1>1. /\ TypeOK /\ QueueInv /\ work = Idle /\ Serving("UPDATE", p) /\ Serve
      /\ UNCHANGED <<life, doomed, addr, vmap, ipam, flows>>
  BY DEF TypeInv, UpdateBegins, Serving
<1>2. /\ requests' \in Seq(Requests) /\ Len(requests') <= QueueCap /\ Waits(r)
      /\ \A i \in 1 .. Len(requests') :
            requests'[i] \in Requests /\ Waits(requests'[i]) /\ ~ Clash(requests'[i], r)
      /\ \A i, j \in 1 .. Len(requests') : i # j => ~ Clash(requests'[i], requests'[j])
  BY <1>1, Served
<1>3. /\ netnsJob.at = "wait"
      /\ \A i \in 1 .. Len(requests') : requests'[i].cmd # "UPDATE"
  BY <1>2 DEF Waits, Clash
<1>4. \A i, j \in 1 .. Len(requests') : i # j => ~ Clash(requests[i], requests[j])'
  BY <1>2 DEF Clash
<1>5. \A q \in SetUp' : addr'[q] # NoIP
  BY <1>1 DEF QueueInv, SetUp
<1>6. ASSUME p \in SetUp, id # NoVNID, work' = [at |-> "update", pod |-> p, vnid |-> id],
             UNCHANGED netnsJob
      PROVE  TypeInv'
  <2>1. id \in NetIDs
    BY <1>1, <1>6, PodManagerAssumption DEF TypeOK
  <2>2. work' \in Works /\ work'.at = "update" /\ work'.pod = p
    BY <1>6, <2>1 DEF Works
  <2>3. TypeOK'
    BY <1>1, <1>2, <1>6, <2>2 DEF TypeOK
  <2>4. \A i \in 1 .. Len(requests') : Waits(requests[i])'
    BY <1>1, <1>2, <1>3, <2>2 DEF Waits, InSetup
  <2> QED BY <1>1, <1>3, <1>4, <1>5, <1>6, <2>2, <2>3, <2>4 DEF TypeInv, QueueInv, SetUp
<1>7. ASSUME Answered, UNCHANGED work PROVE TypeInv'
  <2>1. netnsJob' \in NetnsJobs
    <3>1. netnsJob' = [at |-> "update", ns |-> netnsJob.ns, removed |-> netnsJob.removed,
                       run |-> netnsJob.run, others |-> netnsJob.others]
      BY <1>1, <1>3, <1>7, WorkIs DEF Answered
    <3>2. /\ netnsJob.ns \in Namespaces /\ netnsJob.removed \in BOOLEAN
          /\ netnsJob.run \in SUBSET Pods /\ netnsJob.others \in SUBSET Pods
      BY <1>1, <1>3, WorkIs
    <3> QED BY <3>1, <3>2 DEF NetnsJobs
  <2>2. TypeOK'
    BY <1>1, <1>2, <1>7, <2>1 DEF TypeOK
  <2>3. work'.at = "idle"
    BY <1>1, <1>7 DEF Idle
  <2>4. \A i \in 1 .. Len(requests') : Waits(requests[i])'
    BY <1>1, <1>2, <1>3, <1>7 DEF Waits, InSetup
  <2> QED BY <1>4, <1>5, <2>2, <2>3, <2>4 DEF TypeInv, QueueInv
<1> QED BY <1>6, <1>7 DEF UpdateBegins

(* The answer to an UPDATE leaves a job of the goroutine of the records.     *)
LEMMA AnsweredType ==
    ASSUME TypeOK, netnsJob.at = "wait", Answered
    PROVE  netnsJob' \in NetnsJobs
<1>1. netnsJob' = [at |-> "update", ns |-> netnsJob.ns, removed |-> netnsJob.removed,
                   run |-> netnsJob.run, others |-> netnsJob.others]
  BY WorkIs DEF Answered
<1>2. /\ netnsJob.ns \in Namespaces /\ netnsJob.removed \in BOOLEAN
      /\ netnsJob.run \in SUBSET Pods /\ netnsJob.others \in SUBSET Pods
  BY WorkIs
<1> QED BY <1>1, <1>2 DEF NetnsJobs

(* The script has run for an UPDATE.                                        *)
LEMMA UpdateEndsNext == ASSUME TypeInv, NEW p \in Pods, UpdateEnds(p) PROVE TypeInv'
<1>1. /\ TypeOK /\ QueueInv /\ work.at = "update" /\ work.pod = p /\ work' = Idle
      /\ UNCHANGED <<life, doomed, addr, vmap, ipam, requests>> /\ Answered
  BY DEF TypeInv, UpdateEnds
<1>2. netnsJob.at = "wait" /\ netnsJob' \in NetnsJobs
  BY <1>1, AnsweredType DEF QueueInv
<1>3. flows' \subseteq Flows
  <2>1. CASE addr[p] = NoIP
    BY <1>1, <2>1 DEF UpdateEnds, TypeOK
  <2>2. CASE addr[p] # NoIP
    <3>1. addr[p] \in IPs /\ work.vnid \in NetIDs
      BY <1>1, <2>2, WorkIs DEF TypeOK
    <3> DEFINE new == FlowsFor(p, addr[p], work.vnid)
    <3>2. new \subseteq Flows
      BY <1>1, <3>1, FlowsTyped
    <3> HIDE DEF new
    <3>3. \/ flows' \in PartlyDeleted(flows, addr[p])
          \/ \E done \in SUBSET new : flows' = add_ovs_flows(del_ovs_flows(flows, addr[p]), done)
      BY <2>2 DEF UpdateEnds, new
    <3>4. \A done \in SUBSET new : done \in SUBSET Flows
      BY <3>2
    <3> QED BY <1>1, <3>3, <3>4, FlowsTyped
  <2> QED BY <2>1, <2>2
<1>4. TypeOK'
  BY <1>1, <1>2, <1>3 DEF TypeOK, Works
<1>5. ASSUME NEW i \in 1 .. Len(requests') PROVE Waits(requests[i])'
  <2>1. Waits(requests[i])
    BY <1>1 DEF QueueInv
  <2> QED BY <1>1, <2>1 DEF Waits, InSetup, Idle
<1>6. \A i, j \in 1 .. Len(requests') : i # j => ~ Clash(requests[i], requests[j])'
  BY <1>1 DEF QueueInv, Clash
<1>7. work'.at = "idle"
  BY <1>1 DEF Idle
<1>8. \A q \in SetUp' : addr'[q] # NoIP
  BY <1>1 DEF QueueInv, SetUp
<1> QED BY <1>4, <1>5, <1>6, <1>7, <1>8 DEF TypeInv, QueueInv

(* The worker serves a DEL.                                                 *)
LEMMA TeardownNext == ASSUME TypeInv, NEW p \in Pods, Teardown(p) PROVE TypeInv'
<1> DEFINE r == [cmd |-> "DEL", pod |-> p]
<1>1. /\ TypeOK /\ QueueInv /\ work = Idle /\ Serving("DEL", p) /\ Serve
      /\ life' = [life EXCEPT ![p] = "gone"]
      /\ UNCHANGED <<doomed, vmap, work, netnsJob>>
      /\ addr' \in {addr, [addr EXCEPT ![p] = NoIP]}
      /\ flows' \in PartlyDeleted(flows, addr[p])
      /\ ipam' \in {ipam, [ip \in IPs |-> IF ipam[ip] = p THEN NoPod ELSE ipam[ip]]}
  BY DEF TypeInv, Teardown, Serving, Becomes, Gone, netnsVars, PartlyDeleted
<1>2. /\ requests' \in Seq(Requests) /\ Len(requests') <= QueueCap /\ Waits(r)
      /\ \A i \in 1 .. Len(requests') :
            requests'[i] \in Requests /\ Waits(requests'[i]) /\ ~ Clash(requests'[i], r)
      /\ \A i, j \in 1 .. Len(requests') : i # j => ~ Clash(requests'[i], requests'[j])
  BY <1>1, Served
<1>3. life[p] = "deleting"
  BY <1>2 DEF Waits
<1>4. \A q \in Pods : /\ life'[q] = IF q = p THEN "gone" ELSE life[q]
                      /\ q # p => addr'[q] = addr[q]
  BY <1>1 DEF TypeOK
<1>5. TypeOK'
  <2>1. /\ life' \in [Pods -> Lives] /\ addr' \in [Pods -> IPs \cup {NoIP}]
        /\ ipam' \in [IPs -> Pods \cup {NoPod}]
    BY <1>1 DEF TypeOK, Lives
  <2>2. flows' \subseteq Flows
    BY <1>1, FlowsTyped DEF TypeOK
  <2> QED BY <1>1, <1>2, <2>1, <2>2 DEF TypeOK
<1>6. ASSUME NEW i \in 1 .. Len(requests') PROVE Waits(requests[i])'
  <2>1. /\ requests'[i] \in Requests /\ Waits(requests'[i]) /\ requests'[i] # r
    BY <1>2 DEF Clash
  <2>2. requests'[i].pod \in Pods /\ (requests'[i].cmd = "DEL" => requests'[i].pod # p)
    BY <2>1 DEF Requests
  <2> QED BY <1>1, <1>3, <1>4, <2>1, <2>2 DEF Waits, InSetup
<1>7. \A i, j \in 1 .. Len(requests') : i # j => ~ Clash(requests[i], requests[j])'
  BY <1>2 DEF Clash
<1>8. \A q \in SetUp' : addr'[q] # NoIP
  BY <1>1, <1>4 DEF SetUp, QueueInv
<1>9. work'.at = "idle"
  BY <1>1 DEF Idle
<1> QED BY <1>5, <1>6, <1>7, <1>8, <1>9 DEF TypeInv, QueueInv

(* The goroutine of the records, as far as it sends no request.             *)
LEMMA NetnsNext ==
    ASSUME TypeInv,
           \/ \E ns \in Namespaces : NetnsRemoved(ns) \/ \E id \in NetIDs : NetnsAdded(ns, id)
           \/ ListPods \/ FinishNetns
           \/ \E p \in Pods : DeleteOther(p)
    PROVE  TypeInv'
<1>1. /\ TypeOK /\ QueueInv /\ netnsJob.at # "wait"
      /\ UNCHANGED <<life, addr, ipam, flows, requests, work>>
  BY DEF TypeInv, NetnsRemoved, NetnsAdded, ListPods, FinishNetns, DeleteOther, Idle, podVars
<1>2. QueueInv'
  BY <1>1, QueueKept DEF QueueInv, SetUp
<1>3. doomed' \subseteq Pods /\ vmap' \in [Namespaces -> NetIDs \cup {NoVNID}]
  BY <1>1 DEF TypeOK, NetnsRemoved, NetnsAdded, ListPods, FinishNetns, DeleteOther, podVars
<1>4. netnsJob' \in NetnsJobs
  <2>1. ASSUME NEW ns \in Namespaces, NetnsRemoved(ns) PROVE netnsJob' \in NetnsJobs
    BY <2>1 DEF NetnsRemoved, NetnsJobs
  <2>2. ASSUME NEW ns \in Namespaces, NEW id \in NetIDs, NetnsAdded(ns, id)
        PROVE  netnsJob' \in NetnsJobs
    BY <2>2 DEF NetnsAdded, NetnsJobs
  <2>3. CASE ListPods
    <3>1. netnsJob.ns \in Namespaces /\ netnsJob.removed \in BOOLEAN
      BY <1>1, <2>3, WorkIs DEF ListPods
    <3>2. PICK pods : netnsJob' =
            [at |-> "update", ns |-> netnsJob.ns, removed |-> netnsJob.removed,
             run |-> {p \in pods : Running(p)}, others |-> {p \in pods : ~ Running(p)}]
             /\ pods \subseteq Pods
      BY <2>3 DEF ListPods, LocalPods
    <3> QED BY <3>1, <3>2 DEF NetnsJobs
  <2>4. CASE FinishNetns
    BY <2>4 DEF FinishNetns, NetnsJobs
  <2>5. ASSUME NEW p \in Pods, DeleteOther(p) PROVE netnsJob' \in NetnsJobs
    <3>1. netnsJob' = [at |-> "update", ns |-> netnsJob.ns, removed |-> netnsJob.removed,
                       run |-> netnsJob.run, others |-> netnsJob.others \ {p}]
      BY <1>1, <2>5, WorkIs DEF DeleteOther
    <3>2. /\ netnsJob.ns \in Namespaces /\ netnsJob.removed \in BOOLEAN
          /\ netnsJob.run \in SUBSET Pods /\ netnsJob.others \in SUBSET Pods
      BY <1>1, <2>5, WorkIs DEF DeleteOther
    <3> QED BY <3>1, <3>2 DEF NetnsJobs
  <2> QED BY <2>1, <2>2, <2>3, <2>4, <2>5
<1> QED BY <1>1, <1>2, <1>3, <1>4 DEF TypeInv, TypeOK

(* It asks for an UPDATE.                                                   *)
LEMMA UpdatePodNext == ASSUME TypeInv, NEW p \in Pods, UpdatePod(p) PROVE TypeInv'
<1> DEFINE r == [cmd |-> "UPDATE", pod |-> p]
<1>1. /\ TypeOK /\ QueueInv /\ netnsJob.at = "update" /\ addRequest("UPDATE", p)
      /\ UNCHANGED <<life, doomed, addr, vmap, ipam, flows, work>>
  BY DEF TypeInv, UpdatePod, podVars
<1>2. \A i \in 1 .. Len(requests) : requests[i].cmd # "UPDATE"
  BY <1>1 DEF QueueInv, Waits
<1>3. \A i \in 1 .. Len(requests) : ~ Clash(requests[i], r)
  BY <1>2 DEF Clash
<1>4. /\ requests' \in Seq(Requests) /\ Len(requests') <= QueueCap
      /\ \A i \in 1 .. Len(requests') :
            requests'[i] = r \/ (requests'[i] \in Requests /\ Waits(requests'[i]))
      /\ \A i, j \in 1 .. Len(requests') : i # j => ~ Clash(requests'[i], requests'[j])
  BY <1>1, <1>3, Added
<1>5. netnsJob' = [at |-> "wait", ns |-> netnsJob.ns, removed |-> netnsJob.removed,
                   run |-> netnsJob.run \ {p}, others |-> netnsJob.others]
  BY <1>1, WorkIs DEF UpdatePod
<1>6. netnsJob' \in NetnsJobs
  <2>1. /\ netnsJob.ns \in Namespaces /\ netnsJob.removed \in BOOLEAN
        /\ netnsJob.run \in SUBSET Pods /\ netnsJob.others \in SUBSET Pods
    BY <1>1, WorkIs
  <2> QED BY <1>5, <2>1 DEF NetnsJobs
<1>7. TypeOK'
  BY <1>1, <1>4, <1>6 DEF TypeOK
<1>8. work.at # "update" /\ netnsJob'.at = "wait"
  BY <1>1, <1>5 DEF QueueInv
<1>9. ASSUME NEW i \in 1 .. Len(requests') PROVE Waits(requests[i])'
  <2>1. CASE requests'[i] = r
    BY <1>1, <1>8, <2>1 DEF Waits
  <2>2. CASE requests'[i] \in Requests /\ Waits(requests'[i])
    BY <1>1, <1>8, <2>2 DEF Waits, InSetup
  <2> QED BY <1>4, <2>1, <2>2
<1>10. \A i, j \in 1 .. Len(requests') : i # j => ~ Clash(requests[i], requests[j])'
  BY <1>4 DEF Clash
<1>11. /\ work.at = "setup" => life'[work.pod] = "adding" /\ addr'[work.pod] # NoIP
       /\ \A q \in SetUp' : addr'[q] # NoIP
  BY <1>1 DEF QueueInv, SetUp
<1> QED BY <1>1, <1>7, <1>8, <1>9, <1>10, <1>11 DEF TypeInv, QueueInv

(* Every step keeps the types and the queue.                                *)
LEMMA TypeNext == TypeInv /\ [Next]_vars => TypeInv'
<1> SUFFICES ASSUME TypeInv, [Next]_vars PROVE TypeInv'
  OBVIOUS
<1>1. ASSUME NEW p \in Pods,
             \/ CreatePod(p) \/ ReportRunning(p) \/ DeletePod(p)
             \/ KubeletAdds(p) \/ KubeletDeletes(p)
      PROVE  TypeInv'
  BY <1>1, LifeNext, KubeletAddsNext, KubeletDeletesNext
<1>2. CASE Worker
  BY <1>2, SetupBeginsNext, SetupEndsNext, UpdateBeginsNext, UpdateEndsNext, TeardownNext
  DEF Worker
<1>3. CASE \E ns \in Namespaces : NetnsRemoved(ns) \/ \E id \in NetIDs : NetnsAdded(ns, id)
  BY <1>3, NetnsNext
<1>4. CASE NetnsCall
  BY <1>4, NetnsNext, UpdatePodNext DEF NetnsCall
<1>5. CASE UNCHANGED vars
  <2>1. TypeOK' BY <1>5 DEF vars, TypeInv, TypeOK
  <2>2. QueueInv'
    BY <1>5, QueueKept DEF vars, TypeInv, QueueInv, SetUp
  <2> QED BY <2>1, <2>2 DEF TypeInv
<1> QED BY <1>1, <1>2, <1>3, <1>4, <1>5 DEF Next

(* The queue, the addresses, the flows and the jobs are what the code can   *)
(* put there, whatever fails: above all no more requests wait than the      *)
(* queue holds, and every answer finds the job that waits for it.           *)
THEOREM TypeCorrect == Spec => []TypeOK
<1>1. Spec => []TypeInv
  BY TypeInit, TypeNext, PTL DEF Spec
<1> QED BY <1>1, PTL DEF TypeInv

-----------------------------------------------------------------------------
(* The addresses. *)

(* When kubelet does not repeat a DEL, whoever has an address holds it.     *)
LEMMA HasNext ==
    ASSUME "again" \notin Faults, TypeInv, HasItsAddress, [Next]_vars
    PROVE  HasItsAddress'
<1>1. TypeOK /\ QueueInv
  BY DEF TypeInv
<1>2. CASE UNCHANGED <<addr, ipam>>
  BY <1>2 DEF HasItsAddress
<1>3. ASSUME NEW p \in Pods, addr' \in {addr, [addr EXCEPT ![p] = NoIP]}, UNCHANGED ipam
      PROVE  HasItsAddress'
  BY <1>1, <1>3 DEF HasItsAddress, TypeOK
<1>4. ASSUME NEW p \in Pods, NEW ip \in FreeIPs,
             ipam' = [ipam EXCEPT ![ip] = p], addr' = [addr EXCEPT ![p] = ip]
      PROVE  HasItsAddress'
  <2> SUFFICES ASSUME NEW q \in Pods, addr'[q] # NoIP PROVE ipam'[addr'[q]] = q
    BY DEF HasItsAddress
  <2>1. ip \in IPs /\ ipam[ip] = NoPod
    BY DEF FreeIPs
  <2>2. CASE q = p
    BY <1>1, <1>4, <2>1, <2>2 DEF TypeOK
  <2>3. CASE q # p
    <3>1. addr'[q] = addr[q] /\ addr[q] \in IPs /\ ipam[addr[q]] = q
      BY <1>1, <1>4, <2>3 DEF TypeOK, HasItsAddress
    <3>2. addr[q] # ip
      BY <2>1, <3>1, PodManagerAssumption
    <3> QED BY <1>1, <1>4, <3>1, <3>2 DEF TypeOK
  <2> QED BY <2>2, <2>3
<1>5. ASSUME NEW p \in Pods, addr[p] # NoIP,
             ipam' = [ipam EXCEPT ![addr[p]] = NoPod], addr' = [addr EXCEPT ![p] = NoIP]
      PROVE  HasItsAddress'
  <2> SUFFICES ASSUME NEW q \in Pods, addr'[q] # NoIP PROVE ipam'[addr'[q]] = q
    BY DEF HasItsAddress
  <2>1. q # p /\ addr'[q] = addr[q] /\ addr[q] \in IPs /\ ipam[addr[q]] = q /\ ipam[addr[p]] = p
    BY <1>1, <1>5 DEF TypeOK, HasItsAddress
  <2>2. addr[q] # addr[p]
    BY <2>1
  <2> QED BY <1>1, <1>5, <2>1, <2>2 DEF TypeOK
<1>6. ASSUME NEW p \in Pods, addr' = [addr EXCEPT ![p] = NoIP],
             ipam' = [ip \in IPs |-> IF ipam[ip] = p THEN NoPod ELSE ipam[ip]]
      PROVE  HasItsAddress'
  <2> SUFFICES ASSUME NEW q \in Pods, addr'[q] # NoIP PROVE ipam'[addr'[q]] = q
    BY DEF HasItsAddress
  <2>1. q # p /\ addr'[q] = addr[q] /\ addr[q] \in IPs /\ ipam[addr[q]] = q
    BY <1>1, <1>6 DEF TypeOK, HasItsAddress
  <2> QED BY <1>6, <2>1
<1>7. ASSUME NEW p \in Pods, KubeletDeletes(p) PROVE HasItsAddress'
  <2>1. addr' \in {addr, [addr EXCEPT ![p] = NoIP]} /\ UNCHANGED ipam
    BY <1>7 DEF KubeletDeletes
  <2> QED BY <1>3, <2>1
<1>8. ASSUME NEW p \in Pods, SetupBegins(p) PROVE HasItsAddress'
  BY <1>2, <1>4, <1>8 DEF SetupBegins
<1>9. ASSUME NEW p \in Pods, SetupEnds(p) PROVE HasItsAddress'
  <2>1. addr[p] # NoIP
    BY <1>1, <1>9 DEF SetupEnds, QueueInv
  <2>2. \/ UNCHANGED <<addr, ipam>>
        \/ ipam' = [ipam EXCEPT ![addr[p]] = NoPod] /\ addr' = [addr EXCEPT ![p] = NoIP]
    BY <1>9 DEF SetupEnds, Gone
  <2> QED BY <1>2, <1>5, <2>1, <2>2
<1>10. ASSUME NEW p \in Pods, Teardown(p) PROVE HasItsAddress'
  <2>1. /\ addr' = [addr EXCEPT ![p] = NoIP]
        /\ \/ UNCHANGED ipam
           \/ ipam' = [ip \in IPs |-> IF ipam[ip] = p THEN NoPod ELSE ipam[ip]]
    BY <1>10 DEF Teardown, Gone
  <2> QED BY <1>3, <1>6, <2>1
<1> QED BY <1>2, <1>7, <1>8, <1>9, <1>10
  DEF Next, Worker, NetnsCall, vars, CreatePod, ReportRunning, DeletePod, KubeletAdds,
      UpdateBegins, UpdateEnds, NetnsRemoved, NetnsAdded, ListPods, UpdatePod, DeleteOther, FinishNetns

(* When the teardown does not fail either, a pod that holds an address is   *)
(* set up, being set up or torn down, and holds one.                        *)
LEMMA HoldsNext ==
    ASSUME {"teardown", "again"} \cap Faults = {}, TypeInv, HasItsAddress, HoldsOne, [Next]_vars
    PROVE  HoldsOne'
<1>1. TypeOK /\ QueueInv
  BY DEF TypeInv
<1>2. \A p \in Pods : InSetup(p) => life[p] = "adding"
  BY <1>1 DEF QueueInv, InSetup
(* A pod whose life goes on while it holds nothing, or keeps what it holds. *)
<1>3. ASSUME NEW p \in Pods, NEW l, life' = [life EXCEPT ![p] = l], UNCHANGED ipam,
             UNCHANGED work,
             \A q \in Pods \ {p} : addr'[q] = addr[q],
             \/ life[p] \in {"absent", "pending", "adding"} /\ ~ InSetup(p)
             \/ l = "deleting"
             \/ life[p] \in {"added", "running"} /\ l \in {"added", "running"} /\ UNCHANGED addr
      PROVE  HoldsOne'
  <2> SUFFICES ASSUME NEW i \in IPs, NEW q \in Pods, ipam'[i] = q PROVE Held(q, i)'
    BY DEF HoldsOne
  <2>1. Held(q, i)
    BY <1>3 DEF HoldsOne
  <2>2. \A x \in Pods : life'[x] = IF x = p THEN l ELSE life[x]
    BY <1>1, <1>3 DEF TypeOK
  <2>3. CASE q = p
    BY <1>2, <1>3, <2>1, <2>2, <2>3 DEF SetUp, Held, InSetup
  <2>4. CASE q # p
    BY <1>3, <2>1, <2>2, <2>4 DEF SetUp, InSetup, Held
  <2> QED BY <2>3, <2>4
<1>4. ASSUME UNCHANGED <<life, addr, ipam>>, work.at # "setup", work'.at # "setup" \/ UNCHANGED work
      PROVE  HoldsOne'
  BY <1>1, <1>4 DEF HoldsOne, Held, SetUp, InSetup
<1>5. ASSUME UNCHANGED <<life, addr, ipam, work>> PROVE HoldsOne'
  BY <1>5 DEF HoldsOne, Held, SetUp, InSetup
<1>6. ASSUME NEW p \in Pods, CreatePod(p) \/ ReportRunning(p) \/ KubeletAdds(p) PROVE HoldsOne'
  <2>1. UNCHANGED <<addr, ipam, work>>
    BY <1>6 DEF CreatePod, ReportRunning, KubeletAdds
  <2>2. PICK l : /\ life' = [life EXCEPT ![p] = l]
                 /\ \/ life[p] \in {"absent", "pending"}
                    \/ life[p] = "added" /\ l = "running"
    BY <1>6 DEF CreatePod, ReportRunning, KubeletAdds, Becomes
  <2> QED BY <1>2, <1>3, <2>1, <2>2
<1>7. ASSUME NEW p \in Pods, KubeletDeletes(p) PROVE HoldsOne'
  <2>1. /\ UNCHANGED <<ipam, work>> /\ addr' \in {addr, [addr EXCEPT ![p] = NoIP]}
    BY <1>7 DEF KubeletDeletes
  <2>2. \A q \in Pods \ {p} : addr'[q] = addr[q]
    BY <1>1, <2>1 DEF TypeOK
  <2>3. PICK l : /\ life' = [life EXCEPT ![p] = l]
                 /\ life[p] = "pending" \/ l = "deleting"
    BY <1>7 DEF KubeletDeletes, Becomes
  <2> QED BY <1>2, <1>3, <2>1, <2>2, <2>3
<1>8. ASSUME NEW p \in Pods, SetupBegins(p) PROVE HoldsOne'
  <2>1. life[p] = "adding" /\ work = Idle /\ ~ InSetup(p)
    <3>1. Waits([cmd |-> "ADD", pod |-> p]) /\ work = Idle
      BY <1>1, <1>8, Served DEF SetupBegins, Serving
    <3> QED BY <3>1 DEF Waits
  <2>2. CASE life' = [life EXCEPT ![p] = "pending"] /\ UNCHANGED <<ipam, addr, work>>
    BY <1>3, <2>1, <2>2
  <2>3. ASSUME NEW ip \in FreeIPs, ipam' = [ipam EXCEPT ![ip] = p], addr' = [addr EXCEPT ![p] = ip],
               work' = [at |-> "setup", pod |-> p, vnid |-> vmap[NamespaceOf[p]]], UNCHANGED life
        PROVE  HoldsOne'
    <3> SUFFICES ASSUME NEW i \in IPs, NEW q \in Pods, ipam'[i] = q PROVE Held(q, i)'
    BY DEF HoldsOne
    <3>1. ip \in IPs /\ addr'[p] = ip /\ \A x \in Pods \ {p} : addr'[x] = addr[x]
      BY <1>1, <2>3 DEF TypeOK, FreeIPs
    <3>2. CASE i = ip
      <4>1. q = p
        BY <1>1, <2>3, <3>1, <3>2 DEF TypeOK
      <4> QED BY <2>3, <3>1, <3>2, <4>1 DEF Held, InSetup
    <3>3. CASE i # ip
      <4>1. ipam[i] = q
        BY <1>1, <2>3, <3>3 DEF TypeOK
      <4>2. Held(q, i) /\ ~ InSetup(q)
        BY <2>1, <4>1 DEF HoldsOne, InSetup, Idle
      <4>3. q # p
        BY <2>1, <4>2 DEF Held, SetUp
      <4> QED BY <2>3, <3>1, <4>2, <4>3 DEF Held, SetUp
    <3> QED BY <3>2, <3>3
  <2> QED BY <1>8, <2>2, <2>3 DEF SetupBegins, Becomes
<1>9. ASSUME NEW p \in Pods, SetupEnds(p) PROVE HoldsOne'
  <2>1. /\ work.at = "setup" /\ work.pod = p /\ life[p] = "adding" /\ work' = Idle
        /\ addr[p] \in IPs
    BY <1>1, <1>9 DEF SetupEnds, QueueInv, TypeOK
  <2>2. \/ life' = [life EXCEPT ![p] = "added"] /\ UNCHANGED <<addr, ipam>>
        \/ /\ life' = [life EXCEPT ![p] = "gone"] /\ addr' = [addr EXCEPT ![p] = NoIP]
           /\ ipam' = [ipam EXCEPT ![addr[p]] = NoPod]
    BY <1>9 DEF SetupEnds, Becomes, Gone
  <2> SUFFICES ASSUME NEW i \in IPs, NEW q \in Pods, ipam'[i] = q PROVE Held(q, i)'
    BY DEF HoldsOne
  <2>3. ipam[i] = q /\ Held(q, i)
    <3>1. ipam[i] = q
      BY <1>1, <2>1, <2>2, PodManagerAssumption DEF TypeOK
    <3> QED BY <3>1 DEF HoldsOne
  <2>4. CASE q = p
    <3>1. addr[p] = i
      BY <2>1, <2>3, <2>4 DEF SetUp, Held
    <3>2. life' = [life EXCEPT ![p] = "added"] /\ UNCHANGED <<addr, ipam>>
      BY <1>1, <2>1, <2>2, <2>4, <3>1, PodManagerAssumption DEF TypeOK
    <3> QED BY <1>1, <2>4, <3>1, <3>2 DEF SetUp, TypeOK, Held
  <2>5. CASE q # p
    <3>1. life'[q] = life[q] /\ addr'[q] = addr[q]
      BY <1>1, <2>2, <2>5 DEF TypeOK
    <3> QED BY <2>1, <2>3, <2>5, <3>1 DEF SetUp, InSetup, Held
  <2> QED BY <2>4, <2>5
<1>10. ASSUME NEW p \in Pods, Teardown(p) PROVE HoldsOne'
  <2>1. /\ work = Idle /\ UNCHANGED work /\ life' = [life EXCEPT ![p] = "gone"]
        /\ addr' = [addr EXCEPT ![p] = NoIP]
        /\ ipam' = [ip \in IPs |-> IF ipam[ip] = p THEN NoPod ELSE ipam[ip]]
    BY <1>10 DEF Teardown, Serving, Becomes, Gone
  <2> SUFFICES ASSUME NEW i \in IPs, NEW q \in Pods, ipam'[i] = q PROVE Held(q, i)'
    BY DEF HoldsOne
  <2>2. ipam[i] = q /\ q # p
    BY <2>1, PodManagerAssumption
  <2>3. Held(q, i) /\ life'[q] = life[q] /\ addr'[q] = addr[q]
    BY <1>1, <2>1, <2>2 DEF HoldsOne, TypeOK
  <2> QED BY <2>1, <2>3 DEF SetUp, InSetup, Held
<1>11. ASSUME NEW p \in Pods, UpdateBegins(p) \/ UpdateEnds(p) PROVE HoldsOne'
  <2>1. /\ UNCHANGED <<life, addr, ipam>> /\ work.at # "setup"
        /\ work'.at # "setup" \/ UNCHANGED work
    BY <1>11 DEF UpdateBegins, UpdateEnds, Serving, Idle
  <2> QED BY <1>4, <2>1
<1> QED BY <1>5, <1>6, <1>7, <1>8, <1>9, <1>10, <1>11
  DEF Next, Worker, NetnsCall, vars, podVars, DeletePod,
      NetnsRemoved, NetnsAdded, ListPods, UpdatePod, DeleteOther, FinishNetns

(* No address is held twice or for nothing, when kubelet repeats no DEL and *)
(* no teardown fails: failed setups, sandboxes that died and failed updates *)
(* leave none behind, for any number of pods and addresses.                 *)
THEOREM AddressesCorrect ==
    ASSUME {"teardown", "again"} \cap Faults = {}
    PROVE  Spec => []AddressesExact
<1>1. Init => TypeInv /\ HasItsAddress /\ HoldsOne
  BY TypeInit, PodManagerAssumption DEF Init, HasItsAddress, HoldsOne
<1>2. TypeInv /\ HasItsAddress /\ HoldsOne /\ [Next]_vars => (TypeInv /\ HasItsAddress /\ HoldsOne)'
  BY TypeNext, HasNext, HoldsNext
<1>3. TypeInv /\ HasItsAddress /\ HoldsOne => AddressesExact
  <2> SUFFICES ASSUME TypeInv, HasItsAddress, HoldsOne PROVE AddressesExact
    OBVIOUS
  <2>1. \A p \in SetUp : addr[p] # NoIP /\ ipam[addr[p]] = p
    BY DEF TypeInv, QueueInv, HasItsAddress, SetUp
  <2>2. \A ip \in IPs : ipam[ip] # NoPod => ipam[ip] \in Pods /\ Held(ipam[ip], ip)
    BY DEF TypeInv, TypeOK, HoldsOne
  <2> QED BY <2>1, <2>2 DEF AddressesExact, Held
<1> QED BY <1>1, <1>2, <1>3, PTL DEF Spec

-----------------------------------------------------------------------------
(* The flows. *)

FlowsIn(fs, p) == {f \in fs : f.pod = p}
AreOf(fs, p, ip) == \A f \in fs : f.pod = p /\ f.ip = ip
AllAt(fs, ip)  == \A f \in fs : f.ip = ip
NoneAt(fs, ip) == \A f \in fs : f.ip # ip

(* The flows of a pod are of this pod and of its address.                   *)
LEMMA FlowsForOf ==
    ASSUME NEW p, NEW ip, NEW id
    PROVE  AreOf(FlowsFor(p, ip, id), p, ip) /\ AllAt(FlowsFor(p, ip, id), ip)
BY DEF FlowsFor, From, To, AreOf, AllAt

(* Flows added for an address reach no flow of another one; those of a pod  *)
(* that has no other flow are what it has then.                             *)
LEMMA AddedFlows ==
    ASSUME NEW fs, NEW new, NEW p, NEW ip, NEW q,
           AreOf(new, p, ip)
    PROVE  /\ FlowsIn(fs, p) = {} => FlowsIn(add_ovs_flows(fs, new), p) = new
           /\ q # p /\ NoneAt(FlowsIn(fs, q), ip)
                => FlowsIn(add_ovs_flows(fs, new), q) = FlowsIn(fs, q)
BY DEF add_ovs_flows, FlowsIn, Replaces, AreOf, NoneAt

(* Flows deleted at an address are those of nobody with another one.        *)
LEMMA DeletedFlows ==
    ASSUME NEW fs, NEW ip, NEW q
    PROVE  /\ NoneAt(FlowsIn(fs, q), ip) =>
                 \A left \in PartlyDeleted(fs, ip) : FlowsIn(left, q) = FlowsIn(fs, q)
           /\ AllAt(FlowsIn(fs, q), ip) => FlowsIn(del_ovs_flows(fs, ip), q) = {}
BY DEF PartlyDeleted, del_ovs_flows, FlowsIn, AllAt, NoneAt

(* A pod that is not yet set up has no flow, one that is set up has those   *)
(* of its address.                                                          *)
LEMMA FlowsElsewhere ==
    ASSUME TypeInv, HasItsAddress, FlowsInv, NEW p \in Pods, NEW q \in Pods, q # p,
           q \in SetUp \/ life[q] \in {"absent", "pending", "adding"}
    PROVE  NoneAt(FlowsIn(flows, q), addr[p])
<1>1. CASE q \in SetUp
  <2>1. addr[q] # NoIP /\ addr[q] # addr[p]
    BY <1>1 DEF TypeInv, QueueInv, HasItsAddress, SetUp
  <2>2. PICK id \in NetIDs : FlowsIn(flows, q) = FlowsFor(q, addr[q], id)
    BY <1>1 DEF FlowsInv, OwnFlows, FlowsOf, FlowsIn
  <2> QED BY <2>1, <2>2, FlowsForOf DEF AllAt, NoneAt
<1>2. CASE life[q] \in {"absent", "pending", "adding"}
  BY <1>2 DEF FlowsInv, FlowsOf, FlowsIn, NoneAt
<1> QED BY <1>1, <1>2

(* FlowsInv for one pod.                                                    *)
FlowsAs(p) == /\ p \in SetUp => \E id \in NetIDs : FlowsIn(flows, p) = FlowsFor(p, addr[p], id)
              /\ life[p] \in {"absent", "pending", "adding"} => FlowsIn(flows, p) = {}

Early == {"absent", "pending", "adding"}
Late  == {"added", "running"}

(* Steps that leave a pod's flows and address alone leave it as it was.     *)
LEMMA FlowsAsKept ==
    ASSUME NEW p \in Pods, FlowsAs(p),
           life'[p] \in Early => life[p] \in Early /\ FlowsIn(flows', p) = FlowsIn(flows, p),
           life'[p] \in Late => /\ life[p] \in Late /\ FlowsIn(flows', p) = FlowsIn(flows, p)
                                /\ addr'[p] = addr[p]
    PROVE  FlowsAs(p)'
BY DEF FlowsAs, SetUp, Early, Late

(* When kubelet repeats no DEL and no update fails, the flows stay those.   *)
LEMMA FlowsNext ==
    ASSUME {"update", "again"} \cap Faults = {}, TypeInv, HasItsAddress, FlowsInv, [Next]_vars
    PROVE  FlowsInv'
<1>1. TypeOK /\ QueueInv /\ \A p \in Pods : FlowsAs(p)
  BY DEF TypeInv, FlowsInv, FlowsAs, OwnFlows, FlowsOf, FlowsIn
<1>2. (\A p \in Pods : FlowsAs(p)') => FlowsInv'
  BY DEF FlowsInv, FlowsAs, OwnFlows, FlowsOf, FlowsIn, SetUp
<1>3. ASSUME UNCHANGED <<life, addr, flows>> PROVE FlowsInv'
  BY <1>1, <1>2, <1>3, FlowsAsKept
<1>4. ASSUME NEW p \in Pods, NEW l, life' = [life EXCEPT ![p] = l], UNCHANGED flows,
             \A q \in Pods \ {p} : addr'[q] = addr[q],
             \/ l \in Early /\ life[p] \in Early
             \/ l \notin Early \cup Late
             \/ l \in Late /\ life[p] \in Late /\ UNCHANGED addr
      PROVE  FlowsInv'
  <2>1. ASSUME NEW q \in Pods PROVE FlowsAs(q)'
    <3>1. life'[q] = IF q = p THEN l ELSE life[q]
      BY <1>1, <1>4 DEF TypeOK
    <3> QED BY <1>1, <1>4, <3>1, FlowsAsKept DEF Early, Late
  <2> QED BY <1>2, <2>1
<1>5. ASSUME NEW p \in Pods, CreatePod(p) \/ ReportRunning(p) \/ KubeletAdds(p) PROVE FlowsInv'
  <2>1. UNCHANGED <<addr, flows>>
    BY <1>5 DEF CreatePod, ReportRunning, KubeletAdds
  <2>2. PICK l : /\ life' = [life EXCEPT ![p] = l]
                 /\ \/ life[p] \in Early /\ l \in Early
                    \/ life[p] = "added" /\ l = "running"
    BY <1>5 DEF CreatePod, ReportRunning, KubeletAdds, Becomes, Early
  <2> QED BY <1>4, <2>1, <2>2 DEF Late
<1>6. ASSUME NEW p \in Pods, KubeletDeletes(p) PROVE FlowsInv'
  <2>1. /\ UNCHANGED flows /\ addr' \in {addr, [addr EXCEPT ![p] = NoIP]}
    BY <1>6 DEF KubeletDeletes
  <2>2. \A q \in Pods \ {p} : addr'[q] = addr[q]
    BY <1>1, <2>1 DEF TypeOK
  <2>3. PICK l \in {"gone", "deleting"} : life' = [life EXCEPT ![p] = l]
    BY <1>6 DEF KubeletDeletes, Becomes
  <2>4. l \notin Early \cup Late
    BY DEF Early, Late
  <2> QED BY <1>4, <2>1, <2>2, <2>3, <2>4
<1>7. ASSUME NEW p \in Pods, SetupBegins(p) PROVE FlowsInv'
  <2>1. life[p] = "adding" /\ UNCHANGED flows
    <3>1. Waits([cmd |-> "ADD", pod |-> p])
      BY <1>1, <1>7, Served DEF SetupBegins
    <3> QED BY <1>7, <3>1 DEF Waits, SetupBegins
  <2>2. PICK l \in Early : life' = [life EXCEPT ![p] = l]
    <3>1. life' = [life EXCEPT ![p] = "pending"] \/ life' = life
      BY <1>7 DEF SetupBegins, Becomes
    <3>2. life' = [life EXCEPT ![p] = "pending"] \/ life' = [life EXCEPT ![p] = "adding"]
      BY <1>1, <2>1, <3>1 DEF TypeOK
    <3> QED BY <3>2 DEF Early
  <2>3. \A q \in Pods \ {p} : addr'[q] = addr[q]
    BY <1>1, <1>7 DEF TypeOK, SetupBegins
  <2> QED BY <1>4, <2>1, <2>2, <2>3 DEF Early
<1>8. ASSUME NEW p \in Pods, SetupEnds(p) PROVE FlowsInv'
  <2> DEFINE new == FlowsFor(p, addr[p], work.vnid)
  <2>1. life[p] = "adding" /\ work.vnid \in NetIDs /\ work.pod = p
    BY <1>1, <1>8, WorkIs DEF SetupEnds, QueueInv
  <2>2. FlowsIn(flows, p) = {}
    BY <1>1, <2>1 DEF FlowsAs
  <2>3. AreOf(new, p, addr[p])
    BY FlowsForOf
  <2> HIDE DEF new
  <2>4. PICK done \in SUBSET new :
          /\ flows' = add_ovs_flows(flows, done)
          /\ \/ life' = [life EXCEPT ![p] = "added"] /\ UNCHANGED addr /\ done = new
             \/ life' = [life EXCEPT ![p] = "gone"] /\ addr' = [addr EXCEPT ![p] = NoIP]
    BY <1>8 DEF SetupEnds, Becomes, Gone, new
  <2>5. AreOf(done, p, addr[p])
    BY <2>3, <2>4 DEF AreOf
  <2>6. FlowsAs(p)'
    <3>1. FlowsIn(flows', p) = done
      BY <2>2, <2>4, <2>5, AddedFlows
    <3>2. \/ life'[p] = "added" /\ addr'[p] = addr[p] /\ done = FlowsFor(p, addr[p], work.vnid)
          \/ life'[p] = "gone"
      BY <1>1, <2>4 DEF TypeOK, new
    <3> QED BY <2>1, <3>1, <3>2 DEF FlowsAs, SetUp
  <2>7. ASSUME NEW q \in Pods, q # p PROVE FlowsAs(q)'
    <3>1. life'[q] = life[q] /\ addr'[q] = addr[q]
      BY <1>1, <2>4, <2>7 DEF TypeOK
    <3>2. CASE life[q] \in Early \cup Late
      <4>1. NoneAt(FlowsIn(flows, q), addr[p])
        BY <2>7, <3>2, FlowsElsewhere DEF Early, Late, SetUp
      <4>2. FlowsIn(flows', q) = FlowsIn(flows, q)
        BY <2>4, <2>5, <2>7, <4>1, AddedFlows
      <4> QED BY <1>1, <3>1, <4>2, FlowsAsKept
    <3>3. CASE life[q] \notin Early \cup Late
      BY <1>1, <3>1, <3>3, FlowsAsKept
    <3> QED BY <3>2, <3>3
  <2> QED BY <1>2, <2>6, <2>7
<1>9. ASSUME NEW p \in Pods, UpdateEnds(p) PROVE FlowsInv'
  <2> DEFINE new == FlowsFor(p, addr[p], work.vnid)
             left == del_ovs_flows(flows, addr[p])
  <2>1. /\ UNCHANGED <<life, addr>> /\ work.vnid \in NetIDs /\ work.pod = p
        /\ life[p] \in {"added", "running", "deleting"}
    BY <1>1, <1>9, WorkIs DEF UpdateEnds, QueueInv
  <2>2. CASE UNCHANGED flows
    BY <1>3, <2>1, <2>2
  <2>3. CASE flows' = add_ovs_flows(left, new)
    <3>1. AreOf(new, p, addr[p])
      BY FlowsForOf
    <3> HIDE DEF new
    <3>2. ASSUME p \in SetUp PROVE FlowsAs(p)'
      <4>1. AllAt(FlowsIn(flows, p), addr[p])
        BY <1>1, <3>2, FlowsForOf DEF FlowsAs
      <4>2. FlowsIn(left, p) = {}
        BY <4>1, DeletedFlows
      <4>3. FlowsIn(flows', p) = new
        BY <2>3, <3>1, <4>2, AddedFlows
      <4> QED BY <2>1, <3>2, <4>3 DEF FlowsAs, SetUp, new
    <3>3. ASSUME NEW q \in Pods, q # p PROVE FlowsAs(q)'
      <4>1. CASE life[q] \in Early \cup Late
        <5>1. NoneAt(FlowsIn(flows, q), addr[p])
          BY <3>3, <4>1, FlowsElsewhere DEF Early, Late, SetUp
        <5>2. FlowsIn(left, q) = FlowsIn(flows, q)
          BY <5>1, DeletedFlows DEF PartlyDeleted
        <5>3. FlowsIn(flows', q) = FlowsIn(flows, q)
          BY <2>3, <3>1, <3>3, <5>1, <5>2, AddedFlows
        <5> QED BY <1>1, <2>1, <5>3, FlowsAsKept
      <4>2. CASE life[q] \notin Early \cup Late
        BY <1>1, <2>1, <4>2, FlowsAsKept
      <4> QED BY <4>1, <4>2
    <3>4. ASSUME p \notin SetUp PROVE FlowsAs(p)'
      BY <2>1, <3>4 DEF FlowsAs, SetUp
    <3> QED BY <1>2, <3>2, <3>3, <3>4
  <2> QED BY <1>9, <2>2, <2>3 DEF UpdateEnds
<1>10. ASSUME NEW p \in Pods, Teardown(p) PROVE FlowsInv'
  <2>1. /\ life' = [life EXCEPT ![p] = "gone"] /\ addr' = [addr EXCEPT ![p] = NoIP]
        /\ flows' \in PartlyDeleted(flows, addr[p])
    BY <1>10 DEF Teardown, Becomes, Gone, PartlyDeleted
  <2>2. ASSUME NEW q \in Pods PROVE FlowsAs(q)'
    <3>1. CASE q = p \/ life[q] \notin Early \cup Late
      <4>1. life'[q] \notin Early \cup Late
        BY <1>1, <2>1, <3>1 DEF TypeOK, Early, Late
      <4> QED BY <1>1, <4>1, FlowsAsKept
    <3>2. CASE q # p /\ life[q] \in Early \cup Late
      <4>1. NoneAt(FlowsIn(flows, q), addr[p])
        BY <3>2, FlowsElsewhere DEF Early, Late, SetUp
      <4>2. FlowsIn(flows', q) = FlowsIn(flows, q)
        BY <2>1, <4>1, DeletedFlows
      <4>3. life'[q] = life[q] /\ addr'[q] = addr[q]
        BY <1>1, <2>1, <3>2 DEF TypeOK
      <4> QED BY <1>1, <4>2, <4>3, FlowsAsKept
    <3> QED BY <3>1, <3>2
  <2> QED BY <1>2, <2>2
<1> QED BY <1>3, <1>5, <1>6, <1>7, <1>8, <1>9, <1>10
  DEF Next, Worker, NetnsCall, vars, podVars, DeletePod, UpdateBegins,
      NetnsRemoved, NetnsAdded, ListPods, UpdatePod, DeleteOther, FinishNetns

(* Deleting flows brings no dispute.                                        *)
LEMMA DeletedKeep ==
    ASSUME NEW ip, OneForEach, NEW left \in PartlyDeleted(flows, ip), flows' = left
    PROVE  OneForEach' /\ flows' \subseteq flows
BY DEF OneForEach, PartlyDeleted, del_ovs_flows

(* Nor does adding flows of one pod: each takes the place of the one for the *)
(* same packets.                                                             *)
LEMMA AddedKeep ==
    ASSUME NEW left \in SUBSET flows, NEW new, NEW p, NEW ip, AreOf(new, p, ip), OneForEach,
           flows' = add_ovs_flows(left, new)
    PROVE  OneForEach' /\ \A g \in flows' : g \in flows \/ (g.pod = p /\ g.ip = ip)
BY DEF OneForEach, add_ovs_flows, Replaces, AreOf

(* When kubelet repeats no DEL, an address has the flows of its holder and   *)
(* of pods that are gone.                                                    *)
LEMMA DisputeNext ==
    ASSUME "again" \notin Faults, TypeInv, HasItsAddress, DisputeInv, [Next]_vars
    PROVE  DisputeInv'
<1>1. TypeOK /\ QueueInv /\ HeldFlows /\ OneForEach
  BY DEF TypeInv, DisputeInv
<1>2. \A g \in flows : g.pod \in Pods /\ g.ip \in IPs
  BY <1>1 DEF TypeOK, Flows, FlowsFor, From, To
<1>3. ASSUME NEW p \in Pods, NEW l, life[p] # "gone" \/ l = "gone",
             life' = [life EXCEPT ![p] = l], UNCHANGED <<ipam, flows>>
      PROVE  DisputeInv'
  BY <1>1, <1>2, <1>3 DEF DisputeInv, HeldFlows, OneForEach, TypeOK
<1>4. ASSUME UNCHANGED <<life, ipam, flows>> PROVE DisputeInv'
  BY <1>1, <1>4 DEF DisputeInv, HeldFlows, OneForEach
<1>5. ASSUME NEW p \in Pods, CreatePod(p) \/ ReportRunning(p) \/ KubeletAdds(p) \/ KubeletDeletes(p)
      PROVE  DisputeInv'
  <2>1. UNCHANGED <<ipam, flows>>
    BY <1>5 DEF CreatePod, ReportRunning, KubeletAdds, KubeletDeletes
  <2>2. life[p] # "gone" /\ \E l : life' = [life EXCEPT ![p] = l]
    BY <1>5 DEF CreatePod, ReportRunning, KubeletAdds, KubeletDeletes, AsksAgain, Becomes
  <2> QED BY <1>3, <2>1, <2>2
<1>6. ASSUME NEW p \in Pods, SetupBegins(p) PROVE DisputeInv'
  <2>1. life[p] = "adding" /\ UNCHANGED flows
    <3>1. Waits([cmd |-> "ADD", pod |-> p])
      BY <1>1, <1>6, Served DEF SetupBegins
    <3> QED BY <1>6, <3>1 DEF Waits, SetupBegins
  <2>2. CASE life' = [life EXCEPT ![p] = "pending"] /\ UNCHANGED ipam
    BY <1>3, <2>1, <2>2
  <2>3. CASE UNCHANGED life /\ \E ip \in FreeIPs : ipam' = [ipam EXCEPT ![ip] = p]
    <3>1. PICK ip \in IPs : ipam[ip] = NoPod /\ ipam' = [ipam EXCEPT ![ip] = p]
      BY <2>3 DEF FreeIPs
    <3>2. ASSUME NEW g \in flows PROVE life[g.pod] = "gone" \/ ipam'[g.ip] = g.pod
      <4>1. g.pod \in Pods /\ g.ip \in IPs /\ (life[g.pod] = "gone" \/ ipam[g.ip] = g.pod)
        BY <1>1, <1>2 DEF HeldFlows
      <4>2. ipam[g.ip] = g.pod => g.ip # ip
        BY <3>1, <4>1, PodManagerAssumption
      <4> QED BY <1>1, <3>1, <4>1, <4>2 DEF TypeOK
    <3> QED BY <1>1, <2>1, <2>3, <3>2 DEF DisputeInv, HeldFlows, OneForEach
  <2> QED BY <1>6, <2>2, <2>3 DEF SetupBegins, Becomes
<1>7. ASSUME NEW p \in Pods, SetupEnds(p) PROVE DisputeInv'
  <2> DEFINE new == FlowsFor(p, addr[p], work.vnid)
  <2>1. addr[p] \in IPs /\ ipam[addr[p]] = p /\ life[p] = "adding"
    BY <1>1, <1>7 DEF SetupEnds, QueueInv, HasItsAddress, TypeOK
  <2>2. AreOf(new, p, addr[p])
    BY FlowsForOf
  <2> HIDE DEF new
  <2>3. PICK done \in SUBSET new :
          /\ flows' = add_ovs_flows(flows, done)
          /\ \/ life' = [life EXCEPT ![p] = "added"] /\ UNCHANGED ipam
             \/ life' = [life EXCEPT ![p] = "gone"] /\ ipam' = [ipam EXCEPT ![addr[p]] = NoPod]
    BY <1>7 DEF SetupEnds, Becomes, new
  <2>4. AreOf(done, p, addr[p])
    BY <2>2, <2>3 DEF AreOf
  <2>5. OneForEach' /\ \A g \in flows' : g \in flows \/ (g.pod = p /\ g.ip = addr[p])
    BY <1>1, <2>3, <2>4, AddedKeep
  <2>6. ASSUME NEW g \in flows' PROVE life'[g.pod] = "gone" \/ ipam'[g.ip] = g.pod
    <3>1. g.pod \in Pods /\ g.ip \in IPs /\ (life[g.pod] = "gone" \/ ipam[g.ip] = g.pod)
      BY <1>1, <1>2, <2>1, <2>5 DEF HeldFlows
    <3>2. CASE g.pod = p
      <4>1. ipam[g.ip] = p
        BY <2>1, <3>1, <3>2
      <4> QED BY <1>1, <2>3, <3>1, <3>2, <4>1 DEF TypeOK
    <3>3. CASE g.pod # p
      <4>1. life'[g.pod] = life[g.pod]
        BY <1>1, <2>3, <3>1, <3>3 DEF TypeOK
      <4>2. ipam[g.ip] = g.pod => ipam'[g.ip] = g.pod
        BY <1>1, <2>1, <2>3, <3>1, <3>3 DEF TypeOK
      <4> QED BY <3>1, <4>1, <4>2
    <3> QED BY <3>2, <3>3
  <2> QED BY <2>5, <2>6 DEF DisputeInv, HeldFlows
<1>8. ASSUME NEW p \in Pods, UpdateEnds(p) PROVE DisputeInv'
  <2> DEFINE new  == FlowsFor(p, addr[p], work.vnid)
             left == del_ovs_flows(flows, addr[p])
  <2>1. UNCHANGED <<life, ipam>>
    BY <1>8 DEF UpdateEnds
  <2>2. CASE flows' \in PartlyDeleted(flows, addr[p])
    <3>1. OneForEach' /\ flows' \subseteq flows
      BY <1>1, <2>2, DeletedKeep
    <3> QED BY <1>1, <2>1, <3>1 DEF DisputeInv, HeldFlows
  <2>3. ASSUME addr[p] # NoIP, NEW done \in SUBSET new, flows' = add_ovs_flows(left, done)
        PROVE  DisputeInv'
    <3>1. AreOf(done, p, addr[p])
      BY FlowsForOf DEF AreOf
    <3>2. left \subseteq flows
      BY DEF del_ovs_flows
    <3>3. OneForEach' /\ \A g \in flows' : g \in flows \/ (g.pod = p /\ g.ip = addr[p])
      BY <1>1, <2>3, <3>1, <3>2, AddedKeep
    <3>4. ipam[addr[p]] = p
      BY <2>3 DEF HasItsAddress
    <3> QED BY <1>1, <2>1, <3>3, <3>4 DEF DisputeInv, HeldFlows
  <2>4. UNCHANGED flows => DisputeInv'
    BY <1>4, <2>1
  <2> QED BY <1>8, <2>2, <2>3, <2>4 DEF UpdateEnds
<1>9. ASSUME NEW p \in Pods, Teardown(p) PROVE DisputeInv'
  <2>1. /\ life' = [life EXCEPT ![p] = "gone"]
        /\ flows' \in PartlyDeleted(flows, addr[p])
        /\ ipam' \in {ipam, [ip \in IPs |-> IF ipam[ip] = p THEN NoPod ELSE ipam[ip]]}
    BY <1>9 DEF Teardown, Becomes, PartlyDeleted
  <2>2. OneForEach' /\ flows' \subseteq flows
    BY <1>1, <2>1, DeletedKeep
  <2>3. ASSUME NEW g \in flows PROVE life'[g.pod] = "gone" \/ ipam'[g.ip] = g.pod
    BY <1>1, <1>2, <2>1 DEF HeldFlows, TypeOK
  <2> QED BY <2>2, <2>3 DEF DisputeInv, HeldFlows
<1> QED BY <1>4, <1>5, <1>6, <1>7, <1>8, <1>9
  DEF Next, Worker, NetnsCall, vars, podVars, DeletePod, UpdateBegins,
      NetnsRemoved, NetnsAdded, ListPods, UpdatePod, DeleteOther, FinishNetns

(* Together: who has a flow for the packets of a pod that is set up does not *)
(* hold its address, so it is gone, and its flow is not for the same VNID.   *)
LEMMA FlowsTogether ==
    ASSUME TypeInv, HasItsAddress, FlowsInv, DisputeInv
    PROVE  FlowsOfOneVNID
<1> SUFFICES ASSUME NEW p \in SetUp, NEW g \in flows, g.pod # p,
                    NEW f \in FlowsOf(p), Overlap(f, g)
             PROVE  /\ life[g.pod] = "gone"
                    /\ g.vnid = Everyone \/ To(p, addr[p], Everyone) \in FlowsOf(p)
  BY DEF FlowsOfOneVNID, FlowsInv, OwnFlows, Disputes
<1>1. PICK id \in NetIDs : FlowsOf(p) = FlowsFor(p, addr[p], id)
  BY DEF FlowsInv, OwnFlows
<1>2. f.ip = addr[p] /\ f.pod = p /\ f \in flows
  BY <1>1, FlowsForOf DEF AreOf, FlowsOf
<1>3. life[g.pod] = "gone"
  <2>1. ipam[addr[p]] = p
    BY DEF SetUp, TypeInv, QueueInv, HasItsAddress
  <2> QED BY <1>2, <2>1 DEF Overlap, DisputeInv, HeldFlows
<1>4. f.vnid = Everyone \/ g.vnid = Everyone
  BY <1>2 DEF Overlap, DisputeInv, OneForEach
<1>5. f.vnid = Everyone => f = To(p, addr[p], Everyone)
  BY <1>1, PodManagerAssumption DEF Overlap, FlowsFor, From, To
<1> QED BY <1>3, <1>4, <1>5

(* A pod that is set up has the flows of one VNID and of its own address,   *)
(* all of them and no others, when kubelet repeats no DEL and no update     *)
(* fails: failed setups and teardowns and reused addresses change nothing.  *)
(* Who else has a flow for its packets is gone, and one of the two flows    *)
(* takes the packets of every VNID.                                         *)
THEOREM FlowsCorrect ==
    ASSUME {"update", "again"} \cap Faults = {}
    PROVE  Spec => []FlowsOfOneVNID
<1> DEFINE Inv == TypeInv /\ HasItsAddress /\ FlowsInv /\ DisputeInv
<1>1. Init => Inv
  BY TypeInit DEF Init, HasItsAddress, FlowsInv, OwnFlows, FlowsOf, SetUp,
                  DisputeInv, HeldFlows, OneForEach
<1>2. Inv /\ [Next]_vars => Inv'
  BY TypeNext, HasNext, FlowsNext, DisputeNext
<1>3. Inv => FlowsOfOneVNID
  BY FlowsTogether
<1> QED BY <1>1, <1>2, <1>3, PTL DEF Spec
=============================================================================
