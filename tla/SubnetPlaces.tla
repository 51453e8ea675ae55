---------------------------- MODULE SubnetPlaces ----------------------------
(***************************************************************************)
(* Where each subnet lies in the cluster network, and in which order the   *)
(* subnets are given out.  A subnet is named by its first address, counted *)
(* from the first address of the network.                                  *)
(*                                                                         *)
(* When the subnet number straddles an octet of the address its bits are   *)
(* rotated, so that the subnets with zeros in the shared octet come first. *)
(***************************************************************************)
EXTENDS SubnetAllocator, Integers

CONSTANT Networks   \* the networks looked at: [hostBits, subnetBits]

VARIABLES net,        \* the network, which no action changes
          allocator   \* the allocator of a master (MasterSubnets calls it sna)

placesVars == <<net, allocator>>

ASSUME SubnetPlacesAssumption ==
    /\ Networks \subseteq [hostBits : Nat \ {0}, subnetBits : Nat]
    /\ \A nw \in Networks : nw.hostBits + nw.subnetBits <= 32

Straddles(nw) == /\ nw.hostBits % 8 # 0
                 /\ (nw.hostBits - 1) \div 8 # (nw.hostBits + nw.subnetBits - 1) \div 8

leftShift(nw)  == IF Straddles(nw) THEN 8 - (nw.hostBits % 8) ELSE 0

(* A plausible slip: the bits moved to the left are forgotten. *)
rightShift_Whole(nw) == IF Straddles(nw) THEN nw.subnetBits ELSE 0

rightShift(nw) == IF Straddles(nw) THEN nw.subnetBits - leftShift(nw) ELSE 0

(* The bits of x from the i-th on, without the j-th: x & (2^j - 2^i). *)
Bits(x, i, j) == ((x \div 2^i) % 2^(j - i)) * 2^i

(* What is shifted to the left stays in the network; what left it there comes *)
(* in on the right, where the host part ends.  Without a rotation nothing     *)
(* leaves the network, and there is no right part.                            *)
LeftPart(nw, n)  == Bits(n * 2^nw.hostBits * 2^leftShift(nw), 0, nw.hostBits + nw.subnetBits)
RightPart(nw, n) == Bits((n * 2^nw.hostBits) \div 2^rightShift(nw),
                         nw.hostBits, nw.hostBits + leftShift(nw))

(* A plausible slip: the left part is not masked. *)
PlacesIn_NoMask(nw) ==
    [n \in 0 .. 2^nw.subnetBits - 1 |->
        n * 2^nw.hostBits * 2^leftShift(nw) + RightPart(nw, n)]

(* The two parts have no bit in common, so that | adds them. *)
PlacesIn(nw) == [n \in 0 .. 2^nw.subnetBits - 1 |-> LeftPart(nw, n) + RightPart(nw, n)]

-----------------------------------------------------------------------------

PlacesInit == /\ net \in Networks
              /\ allocator = NewSubnetAllocator({})

GetPlace == /\ allocator' = GetNetwork(allocator, PlacesIn(net))
            /\ UNCHANGED net

ReleasePlace(subnet) == /\ subnet \in allocator.allocated
                        /\ allocator' = ReleaseNetwork(allocator, subnet)
                        /\ UNCHANGED net

(* A master that starts again reads the subnets in use from etcd. *)
RestartAllocator == /\ allocator' = NewSubnetAllocator(allocator.allocated)
                    /\ UNCHANGED net

PlacesNext == GetPlace \/ RestartAllocator \/ \E subnet \in allocator.allocated : ReleasePlace(subnet)

PlacesSpec == PlacesInit /\ [][PlacesNext]_placesVars

-----------------------------------------------------------------------------
(* Properties.  The reference is the network cut into aligned blocks. *)

Blocks(nw) == {i * 2^nw.hostBits : i \in 0 .. 2^nw.subnetBits - 1}

(* No address is in two of the subnets GetNetwork gave out, and all of them *)
(* lie in the network.                                                      *)
SubnetsDisjoint ==
    \A s \in allocator.allocated :
        /\ s + 2^net.hostBits <= 2^(net.hostBits + net.subnetBits)
        /\ \A t \in allocator.allocated \ {s} : s + 2^net.hostBits <= t \/ t + 2^net.hostBits <= s

(* GetNetwork fails only when the whole network is given out: the rotation  *)
(* reaches every block.                                                     *)
WholeNetworkUsed == CanGet(allocator, PlacesIn(net)) <=> Blocks(net) \ allocator.allocated # {}
=============================================================================
