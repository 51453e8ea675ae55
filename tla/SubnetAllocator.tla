--------------------------- MODULE SubnetAllocator ---------------------------
(***************************************************************************)
(* The allocator of host subnets (src/pkg/snalloc) as a value and its      *)
(* operations.  The cluster network is cut into equal subnets, numbered    *)
(* from 0; place[n] is the subnet of number n.  GetNetwork and             *)
(* ReleaseNetwork hold sna.mutex throughout: each is part of one step of   *)
(* the machines that use this module.                                      *)
(***************************************************************************)
EXTENDS Naturals, FiniteSets

Allocators(place) == [next      : 0 .. Cardinality(DOMAIN place),
                      allocated : SUBSET {place[n] : n \in DOMAIN place}]  \* allocMap

(* A plausible slip: the subnets in use are not read. *)
NewSubnetAllocator_Empty(inUse) == [next |-> 0, allocated |-> {}]

NewSubnetAllocator(inUse) == [next |-> 0, allocated |-> inUse]

(* The loop of GetNetwork visits every number once, from next on. *)
Nearest(sna, place, free) ==
    LET total == Cardinality(DOMAIN place)
        Distance(n) == (n + total - (sna.next % total)) % total
    IN CHOOSE n \in free : \A m \in free : Distance(n) <= Distance(m)

FreeNumbers(sna, place) == {n \in DOMAIN place : place[n] \notin sna.allocated}
CanGet(sna, place)      == FreeNumbers(sna, place) # {}

(* What a successful GetNetwork returns. *)
NextSubnet(sna, place) == place[Nearest(sna, place, FreeNumbers(sna, place))]

(* A plausible slip: the subnet is not marked, only next moves on. *)
GetNetwork_NotMarked(sna, place) ==
    [sna EXCEPT !.next = IF CanGet(sna, place)
                           THEN Nearest(sna, place, FreeNumbers(sna, place)) + 1 ELSE 0]

(* What it leaves behind: next after the subnet, or 0 when there was none. *)
GetNetwork(sna, place) ==
    IF CanGet(sna, place)
      THEN [next |-> Nearest(sna, place, FreeNumbers(sna, place)) + 1,
            allocated |-> sna.allocated \cup {NextSubnet(sna, place)}]
      ELSE [sna EXCEPT !.next = 0]

ReleaseNetwork(sna, subnet) == [sna EXCEPT !.allocated = @ \ {subnet}]
=============================================================================
