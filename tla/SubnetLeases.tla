----------------------------- MODULE SubnetLeases -----------------------------
(***************************************************************************)
(* What the master's half of the pod network promises, without the calls,  *)
(* the events and the goroutines it is made of: an address has one subnet  *)
(* at a time, a subnet one address; a subnet is set aside before it is     *)
(* given, stays set aside while it is held, and an address that has one    *)
(* gets another only after losing it.  MasterSubnets implements this.      *)
(***************************************************************************)
CONSTANTS Addresses, Subnets, NoSubnet

VARIABLES subnetOf,   \* the subnet each address has
          reserved    \* the subnets nobody is given but by who set them aside

vars == <<subnetOf, reserved>>

Held == {subnetOf[a] : a \in Addresses} \ {NoSubnet}

Init == /\ subnetOf = [a \in Addresses |-> NoSubnet]
        /\ reserved = {}

Reserve(s) == /\ s \notin reserved
              /\ reserved' = reserved \cup {s}
              /\ UNCHANGED subnetOf

Grant(a, s) == /\ s \in reserved \ Held
               /\ subnetOf[a] = NoSubnet
               /\ subnetOf' = [subnetOf EXCEPT ![a] = s]
               /\ UNCHANGED reserved

Withdraw(a) == /\ subnetOf' = [subnetOf EXCEPT ![a] = NoSubnet]
               /\ UNCHANGED reserved

Free(s) == /\ s \in reserved \ Held
           /\ reserved' = reserved \ {s}
           /\ UNCHANGED subnetOf

(* After a crash what is held is all that is set aside. *)
Recover == /\ reserved' = Held
           /\ UNCHANGED subnetOf

Next == \/ \E s \in Subnets : Reserve(s) \/ Free(s)
        \/ \E a \in Addresses : Withdraw(a) \/ \E s \in Subnets : Grant(a, s)
        \/ Recover

Spec == Init /\ [][Next]_vars

-----------------------------------------------------------------------------

(* What follows of it: no two addresses have one subnet, and those they have *)
(* are set aside.                                                            *)
Promise == /\ \A a, b \in Addresses : a # b /\ subnetOf[a] # NoSubnet => subnetOf[a] # subnetOf[b]
           /\ Held \subseteq reserved
=============================================================================
