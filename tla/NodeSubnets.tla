---------------------------- MODULE NodeSubnets ----------------------------
(***************************************************************************)
(* The tunnels of one node: what nodeHandleSubnetEvent (src/ksdn/          *)
(* subnets.go) makes of the subnet records that its watch hands over       *)
(* (EtcdWatch, whose variables these are).  For every other host, table 1  *)
(* lets packets from its address in and table 8 sends those for its subnet *)
(* to it.                                                                  *)
(*                                                                         *)
(* Nobody else writes these two tables, so a batch is one step.            *)
(***************************************************************************)
EXTENDS EtcdWatch

CONSTANTS IPs,          \* addresses of hosts: the HostIP of a record
          Subnets,
          LocalIP,      \* the address of this node
          DataOf,       \* what the records under each key may hold
          OvsFails,     \* whether a flow may fail to be written
          MaxRestarts,  \* how often the node may crash and start again
          NoSubnet,     \* a record whose Assign asks for a subnet
          NoIP

ASSUME NodeSubnetsAssumption ==
    /\ \A d \in Data : d.ip \in IPs /\ d.subnet \in Subnets \cup {NoSubnet}
    /\ DataOf \in [Keys -> SUBSET Data]
    /\ NoSubnet \notin Subnets /\ NoIP \notin IPs
    /\ OvsFails \in BOOLEAN /\ MaxRestarts \in Nat

VARIABLES ingress,  \* table 1: the hosts whose packets are let in
          tunnels,  \* table 8: the host the packets for each subnet are sent to
          restarts

nodeVars == <<vars, ingress, tunnels, restarts>>

RecordsOf(k) == {r \in Records : r.name \in NamesOf[k] /\ r.data \in DataOf[k]}

NodeInit == /\ Init
            /\ \A k \in Keys : store[k] \in RecordsOf(k) \cup {NoRecord}
            /\ ingress = {}
            /\ tunnels = [s \in Subnets |-> NoIP]
            /\ restarts = 0

-----------------------------------------------------------------------------
(* The handler, event by event: `added` are the hosts of this batch that    *)
(* have their rules (the local variable subnets of the code).               *)

Remote == IPs \ {LocalIP}
Flows  == [ingress : SUBSET Remote, tunnels : [Subnets -> Remote \cup {NoIP}], added : SUBSET Remote]

(* The flow of table 1 comes first: one of table 8 without a subnet is an error. *)
AddHostSubnetRules(f, d) ==
    LET in == [f EXCEPT !.ingress = @ \cup {d.ip}]
    IN IF d.subnet = NoSubnet THEN {in}
       ELSE {[in EXCEPT !.tunnels[d.subnet] = d.ip, !.added = @ \cup {d.ip}]}
            \cup IF OvsFails THEN {f, in} ELSE {}

(* A plausible slip: without a subnet, the flows of every subnet match. *)
DeleteHostSubnetRules_Any(f, d) ==
    {[f EXCEPT !.ingress = @ \ {d.ip},
               !.tunnels = [s \in Subnets |-> IF d.subnet \in {s, NoSubnet} THEN NoIP ELSE @[s]]]}

(* One that fails is logged, and the flows it did not come to stay. *)
DeleteHostSubnetRules(f, d) ==
    LET in == [f EXCEPT !.ingress = @ \ {d.ip}]
    IN {[in EXCEPT !.tunnels = IF d.subnet = NoSubnet THEN @ ELSE [@ EXCEPT ![d.subnet] = NoIP]]}
       \cup IF OvsFails THEN {f, in} ELSE {}

(* The event of a deletion holds no address, and no flow matches it. *)
HandleEvent(f, e) ==
    LET d == e.rec.data
    IN IF d = NoData THEN {f}
       ELSE IF d.ip = LocalIP THEN {f}
       ELSE IF e.type = "Added"
              THEN IF d.ip \in f.added THEN {f} ELSE AddHostSubnetRules(f, d)
              ELSE DeleteHostSubnetRules([f EXCEPT !.added = @ \ {d.ip}], d)

(* What the flows may be after each event of the batch. *)
Handled(f, events) ==
    LET h[n \in 0 .. Len(events)] ==
            IF n = 0 THEN {f} ELSE UNION {HandleEvent(g, events[n]) : g \in h[n - 1]}
    IN h

nodeHandleSubnetEvent ==
    LET before == [ingress |-> ingress, tunnels |-> tunnels, added |-> {}]
    IN \E f \in Handled(before, batch)[Len(batch)] : ingress' = f.ingress /\ tunnels' = f.tunnels

-----------------------------------------------------------------------------

Environment == /\ \/ \E k \in Keys : \E value \in RecordsOf(k) \cup {NoRecord} : Write(k, value)
                  \/ WriteElsewhere
               /\ UNCHANGED <<ingress, tunnels, restarts>>

NodeWatch == /\ WatchReset \/ WatchEvent
             /\ UNCHANGED <<ingress, tunnels, restarts>>

NodeReceive == Receive /\ nodeHandleSubnetEvent /\ UNCHANGED restarts

(* A crash and the next start: a new watch; the bridge is as it was, or new. *)
Restart == /\ restarts < MaxRestarts
           /\ restarts' = restarts + 1
           /\ StartWatch
           /\ \/ UNCHANGED <<ingress, tunnels>>
              \/ ingress' = {} /\ tunnels' = [s \in Subnets |-> NoIP]

NodeNext == Environment \/ NodeWatch \/ NodeReceive \/ Restart

(* Both goroutines keep running and etcd answers; the directory may change  *)
(* and the node may crash at will.                                          *)
NodeSpec == /\ NodeInit /\ [][NodeNext]_nodeVars
            /\ WF_nodeVars(NodeWatch) /\ WF_nodeVars(NodeReceive)

-----------------------------------------------------------------------------
(* Properties. *)

(* The variables of the watch and the two tables hold what the code puts there. *)
NodeTypeOK == /\ TypeOK
              /\ ingress \subseteq Remote
              /\ tunnels \in [Subnets -> Remote \cup {NoIP}]
              /\ restarts \in 0 .. MaxRestarts

(* The subnet of a record still belongs to another host in the watch's copy *)
(* or in events on their way: its removal is announced after the record.    *)
Reused(r) == \/ \E i \in DOMAIN cache : cache[i].name # r.name /\ cache[i].data.subnet = r.data.subnet
             \/ \E i \in DOMAIN batch : /\ batch[i].rec.name # r.name /\ batch[i].rec.data # NoData
                                        /\ batch[i].rec.data.subnet = r.data.subnet

(* A record that comes to stay, with what it held whenever it was there, has *)
(* its tunnel in the end: however the watch falls behind, the record goes    *)
(* and comes back, the node restarts and other records change.               *)
Tunnel(d) == d.ip \in ingress /\ tunnels[d.subnet] = d.ip
TunnelsArrive ==
    \A k \in Keys : \A r \in {x \in RecordsOf(k) : x.data.subnet # NoSubnet /\ x.data.ip # LocalIP} :
        ([](store[k] \in {r, NoRecord} /\ ~ Reused(r)) /\ <>[](store[k] = r)) => <>[]Tunnel(r.data)

(* The same, though the subnet was another host's a moment ago. *)
ReusedTunnelsArrive ==
    \A k \in Keys : \A r \in {x \in RecordsOf(k) : x.data.subnet # NoSubnet /\ x.data.ip # LocalIP} :
        ([](store[k] \in {r, NoRecord}) /\ <>[](store[k] = r /\ \A j \in Keys \ {k} : store[j] \in Records =>
                                                                    store[j].data.subnet # r.data.subnet))
          => <>[]Tunnel(r.data)
=============================================================================
