------------------------- MODULE MasterSubnetsProofs -------------------------
(***************************************************************************)
(* Proofs about MasterSubnets, for all values of the constants: type       *)
(* correctness; that no two records hold one subnet nor does the allocator *)
(* give away one that is held; that it implements SubnetLeases.  And about *)
(* SubnetPlaces: that the rotated numbers of the allocator are the blocks  *)
(* of the network, so that no address is in two of the recorded subnets.    *)
(***************************************************************************)
EXTENDS MasterSubnets, SubnetPlaces, FiniteSetTheorems, SequenceTheorems, TLAPS

(* The lemmas about the watch, for the watch of this module: the last line *)
(* is the tables of a node, which no lemma cited here speaks of.           *)
P == INSTANCE EtcdWatchProofs WITH
        Keys <- IPs, Names <- Hosts, NamesOf <- [ip \in IPs |-> Hosts],
        KeyPath <- [ip \in IPs |-> ip],
        MayBeMalformed <- FALSE, Data <- SubnetData, told <- <<>>,
        LocalIP <- NoIP, DataOf <- [ip \in IPs |-> SubnetData], OvsFails <- FALSE,
        MaxRestarts <- 0, ingress <- {}, tunnels <- <<>>, restarts <- 0

-----------------------------------------------------------------------------
(* The watch of the records. *)

(* What EtcdWatch assumes of its constants holds of those it has here. *)
LEMMA WatchConstants ==
    /\ [ip \in IPs |-> Hosts] \in [IPs -> SUBSET Hosts]
    /\ \A k \in IPs : [ip \in IPs |-> ip][k] \notin Hosts
    /\ P!IsFiniteSet(IPs) /\ Elsewhere \notin IPs
    /\ NoData \notin SubnetData /\ NoRecord \notin [name : Hosts, data : SubnetData]
    /\ Window \in Nat \ {0}
    /\ FALSE \in BOOLEAN
    /\ \A d \in SubnetData : d.ip \in IPs /\ d.subnet \in Subnets \cup {NoSubnet}
    /\ [ip \in IPs |-> SubnetData] \in [IPs -> SUBSET SubnetData]
    /\ NoSubnet \notin Subnets /\ NoIP \notin IPs
    /\ 0 \in Nat
<1>1. P!IsFiniteSet(IPs)
  BY MasterSubnetsAssumption DEF P!IsFiniteSet, IsFiniteSet
<1>2. \A d \in SubnetData : d.ip \in IPs /\ d.subnet \in Subnets \cup {NoSubnet}
  BY DEF SubnetData
<1>3. NoSubnet \notin Subnets /\ NoIP \notin IPs
  BY MasterSubnetsAssumption DEF Subnets
<1>4. [ip \in IPs |-> SubnetData] \in [IPs -> SUBSET SubnetData]
  OBVIOUS
<1> QED BY <1>1, <1>2, <1>3, <1>4, MasterSubnetsAssumption, NullsAssumption

LEMMA WatchSets ==
    /\ W!Records = [name : Hosts, data : SubnetData] /\ P!Records = W!Records
    /\ W!Values = W!Records \cup {NoRecord} /\ P!Values = W!Values
    /\ W!Changes = [key : IPs, value : W!Values] \cup [key : {Elsewhere}, value : {NoRecord}]
    /\ P!Changes = W!Changes /\ P!Events = W!Events
    /\ W!Events = [type : {"Added", "Removed"},
                   rec : [name : Hosts \cup IPs, data : SubnetData \cup {NoData}]]
    /\ P!EventsOf(W!Records) = [type : {"Added", "Removed"}, rec : W!Records]
    /\ NoRecord \notin W!Records
<1>1. {[ip \in IPs |-> ip][k] : k \in IPs} = IPs
  OBVIOUS
<1> QED
  BY <1>1, NullsAssumption
     DEF W!Records, W!Values, W!Changes, W!Events, W!Labels,
         P!Records, P!Values, P!Changes, P!EventsOf, P!Events, P!Labels

LEMMA SameWatch ==
    /\ \A c, x : W!reset(c, x) = P!reset(c, x) /\ W!update(c, x) = P!update(c, x)
    /\ W!Snapshots = P!Snapshots
<1> USE DEF W!IndexOf, P!IndexOf, W!SelectInSeq, P!SelectInSeq, W!Min, P!Min,
            W!deleteAt, P!deleteAt, W!Last, P!Last,
            W!Added, P!Added, W!Removed, P!Removed
<1>1. ASSUME NEW c, NEW x PROVE W!reset(c, x) = P!reset(c, x)
  BY DEF W!reset, P!reset, W!Matches, P!Matches, W!Match, P!Match
<1>2. ASSUME NEW c, NEW x PROVE W!update(c, x) = P!update(c, x)
  BY DEF W!update, P!update, W!add, P!add, W!remove, P!remove, W!ReplaceAt, P!ReplaceAt
<1>3. W!Snapshots = P!Snapshots
  BY DEF W!Snapshots, P!Snapshots, W!Records, P!Records, W!SetToSeqs, P!SetToSeqs,
         W!Cardinality, P!Cardinality, W!IsFiniteSet, P!IsFiniteSet
<1> QED BY <1>1, <1>2, <1>3

LEMMA ResetYields ==
    ASSUME NEW c \in Seq(W!Records), NEW s \in Seq(W!Records)
    PROVE  /\ W!reset(c, s).cache = s
           /\ W!reset(c, s).batch \in Seq(P!EventsOf(W!Records))
           /\ P!Announces(W!reset(c, s).batch, c, s)
BY WatchConstants, SameWatch, P!ResetYields

LEMMA UpdateYields ==
    ASSUME NEW c \in Seq(W!Records), NEW change \in W!Changes, change.key \in IPs,
           change.value # Malformed
    PROVE  /\ W!update(c, change).cache \in Seq(W!Records)
           /\ W!update(c, change).batch \in Seq(W!Events)
           /\ P!Updates(W!update(c, change), c, change)
BY WatchConstants, SameWatch, WatchSets, P!UpdateYields, P!UpdateType

LEMMA SnapshotHolds ==
    ASSUME store \in [IPs -> W!Values], NEW snapshot \in W!Snapshots
    PROVE  \E s : P!Holds(snapshot, s)
BY WatchConstants, SameWatch, WatchSets, P!SnapshotHolds

(* What one more event in etcd's history leaves in the watch. *)
LEMMA HappensYields ==
    ASSUME unseen \in Seq(W!Changes), behind \in BOOLEAN, NEW key, NEW value,
           [key |-> key, value |-> value] \in W!Changes, W!Happens(key, value)
    PROVE  /\ unseen' \in Seq(W!Changes) /\ Len(unseen') <= Window /\ behind' \in BOOLEAN
           /\ behind' => unseen' = <<>>
           /\ \A i \in DOMAIN unseen' : \/ unseen'[i] = [key |-> key, value |-> value]
                                        \/ \E j \in DOMAIN unseen : unseen'[i] = unseen[j]
<1> DEFINE e == [key |-> key, value |-> value]
           history == Append(unseen, e)
<1>1. /\ history \in Seq(W!Changes) /\ Len(history) = Len(unseen) + 1 /\ Len(unseen) \in Nat
      /\ DOMAIN history = 1 .. Len(unseen) + 1 /\ DOMAIN unseen = 1 .. Len(unseen)
      /\ \A i \in DOMAIN unseen : history[i] = unseen[i]
      /\ history[Len(unseen) + 1] = e
  BY AppendProperties
<1>2. IF behind \/ Len(history) > Window
        THEN behind' = TRUE /\ unseen' = <<>>
        ELSE unseen' = history /\ UNCHANGED behind
  BY DEF W!Happens
<1>3. Window \in Nat
  BY MasterSubnetsAssumption
<1> HIDE DEF history
<1>4. CASE behind \/ Len(history) > Window
  <2>1. behind' = TRUE /\ unseen' = <<>>
    BY <1>2, <1>4
  <2> QED BY <1>3, <2>1
<1>5. CASE ~ (behind \/ Len(history) > Window)
  <2>1. unseen' = history /\ behind' = behind /\ ~ behind /\ Len(history) <= Window
    BY <1>1, <1>2, <1>3, <1>5
  <2> QED BY <1>1, <2>1
<1> QED BY <1>4, <1>5

-----------------------------------------------------------------------------
(* The allocator. *)

LEMMA SubnetsCounted ==
    /\ IsFiniteSet(Subnets) /\ Cardinality(Subnets) = NumSubnets /\ Subnets # {}
    /\ Allocators(Place) = [next : 0 .. NumSubnets, allocated : SUBSET Subnets]
<1>1. IsFiniteSet(Subnets) /\ Cardinality(Subnets) = NumSubnets /\ Subnets # {}
  <2>1. 0 \in Int /\ NumSubnets - 1 \in Int /\ NumSubnets \in Nat /\ 0 <= NumSubnets - 1
    BY MasterSubnetsAssumption
  <2>2. /\ IsFiniteSet(0 .. NumSubnets - 1)
        /\ Cardinality(0 .. NumSubnets - 1) = IF 0 > NumSubnets - 1 THEN 0 ELSE NumSubnets - 1 - 0 + 1
    BY <2>1, FS_Interval
  <2>3. ~ (0 > NumSubnets - 1) /\ NumSubnets - 1 - 0 + 1 = NumSubnets /\ 0 \in 0 .. NumSubnets - 1
    BY <2>1
  <2> QED BY <2>2, <2>3 DEF Subnets
<1>2. DOMAIN Place = Subnets /\ {Place[n] : n \in DOMAIN Place} = Subnets
  BY DEF Place
<1> QED BY <1>1, <1>2 DEF Allocators

(* The loop finds a free subnet if there is one, wherever the subnets lie. *)
LEMMA NearestIsFree ==
    ASSUME NEW total \in Nat \ {0}, NEW place, DOMAIN place = 0 .. total - 1,
           NEW a, a.next \in Nat, CanGet(a, place)
    PROVE  Nearest(a, place, FreeNumbers(a, place)) \in FreeNumbers(a, place)
<1> DEFINE free == FreeNumbers(a, place)
           D(n) == (n + total - (a.next % total)) % total
           Ds == {D(n) : n \in free}
<1>1. free \subseteq 0 .. total - 1 /\ free # {}
  BY DEF FreeNumbers, CanGet
<1>2. a.next % total \in 0 .. total - 1
  OBVIOUS
<1>3. \A n \in free : D(n) \in Nat
  <2>1. ASSUME NEW n \in free PROVE n + total - (a.next % total) \in Int
    <3> DEFINE r == a.next % total
    <3>1. n \in Int /\ r \in Int
      BY <1>1, <1>2
    <3> HIDE DEF r, free
    <3>2. n + total - r \in Int
      BY <3>1
    <3> QED BY <3>2 DEF r
  <2>2. \A x \in Int : x % total \in Nat
    OBVIOUS
  <2> QED BY <2>1, <2>2
<1>4. \E n \in free : \A m \in free : D(n) <= D(m)
  <2> HIDE DEF free, D
  <2>1. Ds \subseteq Nat /\ Ds # {}
    BY <1>1, <1>3
  <2>2. \E x \in Ds : \A y \in Ds : x <= y
    <3> HIDE DEF Ds
    <3> QED BY <2>1, WatchConstants, P!SmallestNumber
  <2> QED BY <2>2
<1>5. Cardinality(DOMAIN place) = total
  <2>1. 0 \in Int /\ total - 1 \in Int /\ total - 1 - 0 + 1 = total /\ ~ (0 > total - 1)
    OBVIOUS
  <2> QED BY <2>1, FS_Interval
<1>6. Nearest(a, place, free) = CHOOSE n \in free : \A m \in free : D(n) <= D(m)
  BY <1>5 DEF Nearest
<1> HIDE DEF free, D
<1> QED BY <1>4, <1>6 DEF free

LEMMA NextIsFree ==
    ASSUME NEW a \in Allocators(Place), CanGet(a, Place)
    PROVE  /\ NextSubnet(a, Place) \in Subnets \ a.allocated
           /\ Nearest(a, Place, FreeNumbers(a, Place)) = NextSubnet(a, Place)
<1> DEFINE n == Nearest(a, Place, FreeNumbers(a, Place))
<1>1. NumSubnets \in Nat \ {0} /\ DOMAIN Place = 0 .. NumSubnets - 1 /\ a.next \in Nat
  <2>1. a \in [next : 0 .. NumSubnets, allocated : SUBSET Subnets] /\ NumSubnets \in Nat \ {0}
    BY MasterSubnetsAssumption, SubnetsCounted
  <2> QED BY <2>1 DEF Place, Subnets
<1>2. n \in FreeNumbers(a, Place)
  BY <1>1, NearestIsFree
<1>3. n \in Subnets /\ Place[n] = n /\ n \notin a.allocated
  BY <1>2 DEF FreeNumbers, Place
<1> QED BY <1>3 DEF NextSubnet

(* GetNetwork marks that subnet, ReleaseNetwork unmarks the one it is given. *)
LEMMA GetYields ==
    ASSUME NEW a \in Allocators(Place)
    PROVE  /\ GetNetwork(a, Place) \in Allocators(Place)
           /\ GetNetwork(a, Place).allocated =
                a.allocated \cup IF CanGet(a, Place) THEN {NextSubnet(a, Place)} ELSE {}
<1>1. a \in [next : 0 .. NumSubnets, allocated : SUBSET Subnets] /\ NumSubnets \in Nat \ {0}
  BY MasterSubnetsAssumption, SubnetsCounted
<1>2. CASE CanGet(a, Place)
  <2>1. GetNetwork(a, Place) = [next |-> NextSubnet(a, Place) + 1,
                                allocated |-> a.allocated \cup {NextSubnet(a, Place)}]
    BY <1>2, NextIsFree DEF GetNetwork
  <2>2. NextSubnet(a, Place) \in Subnets
    BY <1>2, NextIsFree
  <2> QED BY <1>1, <1>2, <2>1, <2>2, SubnetsCounted DEF Subnets
<1>3. CASE ~ CanGet(a, Place)
  <2>1. GetNetwork(a, Place) = [a EXCEPT !.next = 0]
    BY <1>3 DEF GetNetwork
  <2> QED BY <1>1, <1>3, <2>1, SubnetsCounted
<1> QED BY <1>2, <1>3

LEMMA ReleaseYields ==
    ASSUME NEW a \in Allocators(Place), NEW s
    PROVE  /\ ReleaseNetwork(a, s) \in Allocators(Place)
           /\ ReleaseNetwork(a, s).allocated = a.allocated \ {s}
BY SubnetsCounted DEF ReleaseNetwork

LEMMA NewYields ==
    ASSUME NEW inUse \in SUBSET Subnets
    PROVE  /\ NewSubnetAllocator(inUse) \in Allocators(Place)
           /\ NewSubnetAllocator(inUse).allocated = inUse
BY MasterSubnetsAssumption, SubnetsCounted DEF NewSubnetAllocator

-----------------------------------------------------------------------------
(* Where the subnets lie. *)

(* The numbers after a, n of them. *)
After(a, n) == a + 1 .. a + n

(* 2^n counts the subsets of a set of n elements. *)
LEMMA PowerCounts ==
    ASSUME NEW a \in Int, NEW n \in Nat
    PROVE  /\ IsFiniteSet(SUBSET After(a, n)) /\ Cardinality(SUBSET After(a, n)) = 2^n
           /\ 2^n \in Nat \ {0}
<1>1. IsFiniteSet(After(a, n)) /\ Cardinality(After(a, n)) = n
  BY FS_Interval DEF After
<1>2. IsFiniteSet(SUBSET After(a, n)) /\ Cardinality(SUBSET After(a, n)) = 2^n
  BY <1>1, FS_SUBSET
<1>3. {} \in SUBSET After(a, n)
  OBVIOUS
<1>4. Cardinality(SUBSET After(a, n)) \in Nat /\ Cardinality(SUBSET After(a, n)) # 0
  BY <1>2, <1>3, FS_CardinalityType, FS_EmptySet
<1> QED BY <1>2, <1>4

LEMMA PowerAdds ==
    ASSUME NEW m \in Nat, NEW n \in Nat
    PROVE  2^(m + n) = 2^m * 2^n
<1> DEFINE A == After(0, m)
           B == After(m, n)
           C == After(0, m + n)
           f == [X \in SUBSET C |-> <<X \cap A, X \cap B>>]
<1>1. A \cup B = C /\ A \cap B = {}
  BY DEF After
<1>2. f \in Bijection(SUBSET C, (SUBSET A) \X (SUBSET B))
  <2> HIDE DEF A, B, C
  <2>1. f \in [SUBSET C -> (SUBSET A) \X (SUBSET B)]
    OBVIOUS
  <2>2. ASSUME NEW X \in SUBSET C, NEW Y \in SUBSET C, f[X] = f[Y] PROVE X = Y
    <3>1. X \cap A = Y \cap A /\ X \cap B = Y \cap B
      BY <2>2
    <3> QED BY <1>1, <3>1
  <2>3. ASSUME NEW Z \in (SUBSET A) \X (SUBSET B) PROVE \E X \in SUBSET C : f[X] = Z
    <3>1. Z[1] \cup Z[2] \in SUBSET C
      BY <1>1
    <3>2. (Z[1] \cup Z[2]) \cap A = Z[1] /\ (Z[1] \cup Z[2]) \cap B = Z[2]
      BY <1>1
    <3>3. f[Z[1] \cup Z[2]] = Z
      BY <3>1, <3>2
    <3> QED BY <3>1, <3>3
  <2> HIDE DEF f
  <2>4. f \in Injection(SUBSET C, (SUBSET A) \X (SUBSET B))
    BY <2>1, <2>2 DEF Injection, IsInjective
  <2>5. f \in Surjection(SUBSET C, (SUBSET A) \X (SUBSET B))
    BY <2>1, <2>3 DEF Surjection
  <2> QED BY <2>4, <2>5 DEF Bijection
<1>3. Cardinality(SUBSET C) = 2^(m + n) /\ IsFiniteSet(SUBSET C)
  BY PowerCounts, m + n \in Nat
<1>4. Cardinality(SUBSET A) = 2^m /\ IsFiniteSet(SUBSET A)
  BY PowerCounts
<1>5. Cardinality(SUBSET B) = 2^n /\ IsFiniteSet(SUBSET B)
  BY PowerCounts
<1>6. Cardinality((SUBSET A) \X (SUBSET B)) = 2^m * 2^n
  <2> HIDE DEF A, B, C
  <2> QED BY <1>4, <1>5, FS_Product
<1>7. Cardinality((SUBSET A) \X (SUBSET B)) = Cardinality(SUBSET C)
  <2> HIDE DEF A, B, C, f
  <2> QED BY <1>2, <1>3, FS_Bijection DEF ExistsBijection
<1> QED BY <1>3, <1>6, <1>7

(* Division has one answer. *)
LEMMA Divides ==
    ASSUME NEW q \in Nat, NEW d \in Nat \ {0}, NEW r \in 0 .. d - 1
    PROVE  (q * d + r) \div d = q /\ (q * d + r) % d = r
<1>1. d \in Nat /\ d > 0 /\ r \in Nat /\ r < d
  OBVIOUS
<1> QED BY <1>1, SMTT(30)

LEMMA Divided ==
    ASSUME NEW a \in Nat, NEW d \in Nat \ {0}
    PROVE  /\ a \div d \in Nat /\ a % d \in 0 .. d - 1
           /\ a = ((a \div d) * d) + (a % d)
<1>1. d \in Nat /\ d > 0
  OBVIOUS
<1> QED BY <1>1, SMTT(30)

LEMMA ProductIsNat == ASSUME NEW a \in Nat, NEW b \in Nat PROVE a * b \in Nat
  BY SMT


(* A number below d * e has a remainder by the one, and a quotient below the other. *)
LEMMA Quotient ==
    ASSUME NEW d \in Nat \ {0}, NEW e \in Nat \ {0}, NEW a \in 0 .. d * e - 1
    PROVE  a \div d \in 0 .. e - 1
<1>1. a \in Nat /\ a < d * e
  <2>1. d * e \in Nat
    BY ProductIsNat
  <2> QED BY <2>1
<1>2. a \div d \in Nat /\ a % d \in Nat /\ a = ((a \div d) * d) + (a % d)
  BY <1>1, Divided
<1> DEFINE q == a \div d
           r == a % d
<1> HIDE DEF q, r
<1>3. q \in Nat /\ r \in Nat /\ a = q * d + r
  BY <1>2 DEF q, r
<1>4. ASSUME q >= e PROVE FALSE
  <2>1. q * d >= e * d
    BY <1>3, <1>4, SMT
  <2>2. e * d = d * e /\ q * d \in Nat /\ d * e \in Nat
    BY <1>3, SMT
  <2> QED BY <1>1, <1>3, <2>1, <2>2
<1>5. q \in 0 .. e - 1
  BY <1>3, <1>4
<1> QED BY <1>5 DEF q

IsNetwork(nw) == nw \in [hostBits : Nat \ {0}, subnetBits : Nat]

(* The bits that are moved are a part of the subnet number. *)
LEMMA Shifts ==
    ASSUME NEW nw, IsNetwork(nw)
    PROVE  /\ leftShift(nw) \in Nat /\ rightShift(nw) \in Nat
           /\ Straddles(nw) => leftShift(nw) + rightShift(nw) = nw.subnetBits
           /\ ~ Straddles(nw) => leftShift(nw) = 0 /\ rightShift(nw) = 0
<1>1. nw.hostBits \in Nat \ {0} /\ nw.subnetBits \in Nat
  BY DEF IsNetwork
<1>2. \A h \in Nat \ {0} : \A b \in Nat :
         h % 8 # 0 /\ (h - 1) \div 8 # (h + b - 1) \div 8
            => 8 - (h % 8) \in Nat /\ b - (8 - (h % 8)) \in Nat
  BY SMTT(30)
<1>3. Straddles(nw) => 8 - (nw.hostBits % 8) \in Nat /\ nw.subnetBits - (8 - (nw.hostBits % 8)) \in Nat
  BY <1>1, <1>2 DEF Straddles
<1>4. CASE Straddles(nw)
  <2>1. /\ leftShift(nw) = 8 - (nw.hostBits % 8)
        /\ rightShift(nw) = nw.subnetBits - leftShift(nw)
    BY <1>4 DEF leftShift, rightShift
  <2> QED BY <1>1, <1>3, <1>4, <2>1
<1>5. CASE ~ Straddles(nw)
  BY <1>5 DEF leftShift, rightShift
<1> QED BY <1>4, <1>5

(* The powers of two the places are made of: the addresses of a subnet, the *)
(* subnets, and those that differ in the bits moved left and right only.    *)
HostAddresses(nw) == 2^nw.hostBits
Count(nw)         == 2^nw.subnetBits
Left(nw)          == 2^leftShift(nw)
Right(nw)         == 2^rightShift(nw)

LEMMA Powers ==
    ASSUME NEW nw, IsNetwork(nw)
    PROVE  /\ HostAddresses(nw) \in Nat \ {0} /\ Count(nw) \in Nat \ {0}
           /\ Left(nw) \in Nat \ {0} /\ Right(nw) \in Nat \ {0}
           /\ 2^(nw.hostBits + nw.subnetBits) = HostAddresses(nw) * Count(nw)
           /\ Straddles(nw) => Left(nw) * Right(nw) = Count(nw)
           /\ ~ Straddles(nw) => Left(nw) = 1 /\ Right(nw) = 1
<1>1. nw.hostBits \in Nat \ {0} /\ nw.subnetBits \in Nat
  BY DEF IsNetwork
<1>2. 2^(nw.hostBits + nw.subnetBits) = HostAddresses(nw) * Count(nw)
  BY <1>1, PowerAdds DEF HostAddresses, Count
<1>3. \A n \in Nat : 2^n \in Nat \ {0}
  <2>1. 0 \in Int
    OBVIOUS
  <2> QED BY <2>1, PowerCounts
<1>4. Straddles(nw) => Left(nw) * Right(nw) = Count(nw)
  BY Shifts, PowerAdds DEF Left, Right, Count
<1>5. ~ Straddles(nw) => Left(nw) = 1 /\ Right(nw) = 1
  <2>1. 2^0 = 1
    OBVIOUS
  <2> QED BY <2>1, Shifts DEF Left, Right
<1> QED BY <1>1, <1>2, <1>3, <1>4, <1>5, Shifts DEF HostAddresses, Count, Left, Right

(* The block of the network that the subnet of number n is. *)
BlockOf(nw, n) == IF Straddles(nw) THEN Left(nw) * (n % Right(nw)) + (n \div Right(nw)) ELSE n

(* Place in arithmetic: the masks cut what the shifts move. *)
LEMMA PlaceIsBlock ==
    ASSUME NEW nw, IsNetwork(nw), NEW n \in 0 .. Count(nw) - 1
    PROVE  PlacesIn(nw)[n] = BlockOf(nw, n) * HostAddresses(nw)
<1> DEFINE h == nw.hostBits
           b == nw.subnetBits
           l == leftShift(nw)
           r == rightShift(nw)
           H == HostAddresses(nw)
           N == Count(nw)
           L == Left(nw)
           R == Right(nw)
           q == n \div R
           m == n % R
<1>1. /\ h \in Nat \ {0} /\ b \in Nat /\ l \in Nat /\ r \in Nat
      /\ n \in Nat /\ n < N
      /\ H \in Nat \ {0} /\ N \in Nat \ {0} /\ L \in Nat \ {0} /\ R \in Nat \ {0}
  BY Shifts, Powers DEF IsNetwork
<1>2. PlacesIn(nw)[n] = Bits((n * 2^h) * 2^l, 0, h + b) + Bits((n * 2^h) \div 2^r, h, h + l)
  BY DEF PlacesIn, LeftPart, RightPart, Count
<1>3. Bits((n * 2^h) * 2^l, 0, h + b) = ((n * H) * L) % (H * N)
  <2>1. 2^0 = 1 /\ (n * H) * L \in Nat /\ H * N \in Nat \ {0} /\ h + b - 0 = h + b
    BY <1>1, SMT
  <2>2. 2^(h + b) = H * N
    BY Powers
  <2>3. Bits((n * 2^h) * 2^l, 0, h + b) = ((((n * H) * L) \div 1) % (H * N)) * 1
    <3> DEFINE x == (n * H) * L
    <3>1. x = (n * 2^h) * 2^l
      BY DEF HostAddresses, Left
    <3> HIDE DEF x, H, L, N, h, b
    <3>2. Bits(x, 0, h + b) = ((x \div 1) % (H * N)) * 1
      <4>1. 2^0 = 1 /\ 2^(h + b) = H * N /\ x \in Nat /\ H * N \in Nat /\ h + b \in Nat /\ h + b = 0 + (h + b)
        BY <1>1, <2>1, <2>2 DEF x
      <4>2. h + b - 0 = h + b
        BY <1>1
      <4> QED BY <4>1, <4>2 DEF Bits
    <3> QED BY <3>1, <3>2 DEF x
  <2> HIDE DEF H, L, N
  <2>4. ((n * H) * L) \div 1 = (n * H) * L
    BY <2>1
  <2>5. ((n * H) * L) % (H * N) \in Nat
    BY <2>1, Divided
  <2> QED BY <2>3, <2>4, <2>5
<1>4. Bits((n * 2^h) \div 2^r, h, h + l) = ((((n * H) \div R) \div H) % L) * H
  <2>1. h + l - h = l
    BY <1>1
  <2> DEFINE x == (n * H) \div R
  <2>2. H = 2^h /\ L = 2^l /\ x = (n * 2^h) \div 2^r
    BY DEF HostAddresses, Left, Right
  <2> HIDE DEF x, H, L, h, l
  <2>3. Bits(x, h, h + l) = ((x \div H) % L) * H
    <3> DEFINE j == h + l
    <3>1. j - h = l
      BY <1>1
    <3> HIDE DEF j
    <3>2. Bits(x, h, j) = ((x \div H) % L) * H
      BY <2>2, <3>1 DEF Bits
    <3> QED BY <3>2 DEF j
  <2> QED BY <2>2, <2>3 DEF x
<1>5. q \in Nat /\ m \in 0 .. R - 1 /\ n = q * R + m
  BY <1>1, Divided
<1>6. CASE Straddles(nw)
  <2>1. L * R = N
    BY <1>6, Powers
  <2>2. BlockOf(nw, n) = L * m + q
    BY <1>6 DEF BlockOf
  <2> HIDE DEF h, b, l, r, H, N, L, R, q, m
  <2>3. ((n * H) * L) % (H * N) = (m * H) * L
    <3>1. (n * H) * L = q * (H * N) + (m * H) * L
      <4>1. ((q * R + m) * H) * L = q * (H * (L * R)) + (m * H) * L
        BY <1>1, <1>5, SMT
      <4> QED BY <1>5, <2>1, <4>1
    <3>2. (m * H) * L \in 0 .. H * N - 1
      <4>1. (m * H) * L \in Nat /\ H * N \in Nat
        BY <1>1, <1>5, SMT
      <4>2. H * N - (m * H) * L = (H * L) * (R - m)
        <5>1. H * (L * R) - (m * H) * L = (H * L) * (R - m)
          BY <1>1, <1>5, SMT
        <5> QED BY <2>1, <5>1
      <4>3. H * L > 0 /\ R - m > 0
        BY <1>1, <1>5, SMT
      <4>4. (H * L) * (R - m) > 0
        <5>1. \A x, y \in Int : x > 0 /\ y > 0 => x * y > 0
          BY SMT
        <5> QED BY <1>1, <1>5, <4>3, <5>1, SMT
      <4> QED BY <4>1, <4>2, <4>4
    <3>3. H * N \in Nat \ {0}
      BY <1>1, SMT
    <3> QED BY <1>5, <3>1, <3>2, <3>3, Divides
  <2>4. (n * H) \div R = q * H + ((m * H) \div R) /\ (m * H) \div R \in 0 .. H - 1
    <3> DEFINE c == (m * H) \div R
               d == (m * H) % R
    <3>1. m * H \in 0 .. R * H - 1
      <4>1. m * H \in Nat /\ R * H \in Nat
        BY <1>1, <1>5, SMT
      <4>2. R * H - m * H = (R - m) * H /\ (R - m) * H > 0
        BY <1>1, <1>5, SMT
      <4> QED BY <4>1, <4>2
    <3>2. c \in 0 .. H - 1
      BY <1>1, <3>1, Quotient
    <3>3. m * H \in Nat
      BY <3>1
    <3>4. d \in 0 .. R - 1 /\ m * H = c * R + d
      BY <1>1, <3>3, Divided
    <3> HIDE DEF c, d
    <3>5. n * H = (q * H + c) * R + d
      <4>1. (q * R + m) * H = (q * H) * R + m * H
        BY <1>1, <1>5, SMT
      <4>2. (q * H) * R + (c * R + d) = (q * H + c) * R + d
        BY <1>1, <1>5, <3>2, <3>4, SMT
      <4> QED BY <1>5, <3>4, <4>1, <4>2
    <3>6. q * H + c \in Nat
      BY <1>1, <1>5, <3>2, SMT
    <3> QED BY <1>1, <3>2, <3>4, <3>5, <3>6, Divides DEF c
  <2>5. (((n * H) \div R) \div H) % L = q
    <3>1. ((n * H) \div R) \div H = q
      <4> DEFINE c == (m * H) \div R
      <4>1. c \in 0 .. H - 1 /\ (n * H) \div R = q * H + c
        BY <2>4
      <4> HIDE DEF c
      <4> QED BY <1>1, <1>5, <4>1, Divides
    <3>2. q \in 0 .. L - 1
      <4>1. n \in 0 .. R * L - 1
        <5>1. R * L = L * R
          BY <1>1, SMT
        <5> QED BY <1>1, <2>1, <5>1
      <4> QED BY <1>1, <4>1, Quotient DEF q
    <3>3. q = 0 * L + q
      BY <1>1, <3>2
    <3> QED BY <1>1, <3>1, <3>2, <3>3, Divides
  <2>6. (m * H) * L + q * H = (L * m + q) * H
    BY <1>1, <1>5, SMT
  <2> QED BY <1>2, <1>3, <1>4, <2>2, <2>3, <2>5, <2>6 DEF H
<1>7. CASE ~ Straddles(nw)
  <2>1. L = 1 /\ R = 1 /\ BlockOf(nw, n) = n
    BY <1>7, Powers DEF BlockOf
  <2> HIDE DEF h, b, l, r, H, N, L, R, q, m
  <2>2. ((n * H) * L) % (H * N) = n * H
    <3>1. (n * H) * L = n * H /\ n * H \in Nat /\ H * N \in Nat \ {0}
      BY <1>1, <2>1, SMT
    <3>2. H * N - n * H = (N - n) * H /\ (N - n) * H > 0
      BY <1>1, SMT
    <3>3. n * H \in 0 .. H * N - 1 /\ n * H = 0 * (H * N) + n * H
      BY <3>1, <3>2
    <3> QED BY <3>1, <3>3, Divides
  <2>3. ((((n * H) \div R) \div H) % L) * H = 0
    <3>1. n * H \in Nat
      BY <1>1, SMT
    <3>2. (n * H) \div R \in Nat
      BY <1>1, <3>1, Divided
    <3>3. ((n * H) \div R) \div H \in Nat
      BY <1>1, <3>2, Divided
    <3>4. \A x \in Nat : x % 1 = 0
      BY SMT
    <3>5. (((n * H) \div R) \div H) % L = 0
      BY <2>1, <3>3, <3>4
    <3> QED BY <1>1, <3>5
  <2>4. n * H + 0 = n * H
    BY <1>1, SMT
  <2> QED BY <1>2, <1>3, <1>4, <2>1, <2>2, <2>3, <2>4 DEF H
<1> QED BY <1>6, <1>7

(* The number whose block is i. *)
NumberOf(nw, i) == IF Straddles(nw) THEN (i % Left(nw)) * Right(nw) + (i \div Left(nw)) ELSE i

LEMMA BlocksNumbered ==
    ASSUME NEW nw, IsNetwork(nw), NEW n \in 0 .. Count(nw) - 1
    PROVE  /\ BlockOf(nw, n) \in 0 .. Count(nw) - 1 /\ NumberOf(nw, BlockOf(nw, n)) = n
           /\ NumberOf(nw, n) \in 0 .. Count(nw) - 1 /\ BlockOf(nw, NumberOf(nw, n)) = n
<1> DEFINE N == Count(nw)
           L == Left(nw)
           R == Right(nw)
<1>1. CASE Straddles(nw)
  <2>1. /\ N \in Nat \ {0} /\ L \in Nat \ {0} /\ R \in Nat \ {0} /\ N = L * R /\ N = R * L
        /\ n \in 0 .. N - 1
    <3>1. N \in Nat \ {0} /\ L \in Nat \ {0} /\ R \in Nat \ {0} /\ N = L * R
      BY <1>1, Powers
    <3>2. L * R = R * L
      BY <3>1, SMT
    <3> QED BY <3>1, <3>2
  <2>2. /\ \A i : BlockOf(nw, i) = L * (i % R) + (i \div R)
        /\ \A i : NumberOf(nw, i) = (i % L) * R + (i \div L)
    BY <1>1 DEF BlockOf, NumberOf
  <2> HIDE DEF N, L, R
  <2>3. ASSUME NEW c \in Nat \ {0}, NEW d \in Nat \ {0}, N = c * d, NEW q \in 0 .. c - 1, NEW r \in 0 .. d - 1
        PROVE  /\ q * d + r \in 0 .. N - 1
               /\ (q * d + r) \div d = q /\ (q * d + r) % d = r
    <3>1. q * d + r \in Nat /\ c * d - (q * d + r) > 0 /\ c * d \in Nat
      <4>1. q * d + d <= c * d
        <5>1. (c - q - 1) * d >= 0
          BY SMT
        <5>2. c * d = (c - q - 1) * d + (q * d + d)
          BY SMT
        <5>3. q * d \in Nat /\ c * d \in Nat /\ (c - q - 1) * d \in Int
          BY SMT
        <5> QED BY <5>1, <5>2, <5>3
      <4>2. q * d \in Nat /\ c * d \in Nat
        BY ProductIsNat
      <4> QED BY <4>1, <4>2
    <3>2. q * d + r \in 0 .. N - 1
      BY <2>3, <3>1
    <3>3. q \in Nat
      OBVIOUS
    <3> QED BY <3>2, <3>3, Divides
  <2>4. ASSUME NEW c \in Nat \ {0}, NEW d \in Nat \ {0}, N = c * d
        PROVE  n \div c \in 0 .. d - 1 /\ n % c \in 0 .. c - 1 /\ n = ((n \div c) * c) + (n % c)
    <3>1. n \in Nat /\ n \in 0 .. c * d - 1
      BY <2>1, <2>4
    <3>2. n \div c \in 0 .. d - 1
      BY <3>1, Quotient
    <3>3. n % c \in 0 .. c - 1 /\ n = ((n \div c) * c) + (n % c)
      BY <3>1, Divided
    <3> QED BY <3>2, <3>3
  <2> DEFINE q == n \div R
             r == n % R
             u == n \div L
             v == n % L
  <2>5. BlockOf(nw, n) = L * r + q /\ NumberOf(nw, n) = v * R + u
    BY <2>2
  <2>6. /\ q \in 0 .. L - 1 /\ r \in 0 .. R - 1 /\ n = q * R + r
        /\ u \in 0 .. R - 1 /\ v \in 0 .. L - 1 /\ n = u * L + v
    BY <2>1, <2>4
  <2> HIDE DEF q, r, u, v
  <2>7. L * r = r * L /\ L * u = u * L
    BY <2>1, <2>6, SMT
  <2>8. BlockOf(nw, n) \in 0 .. N - 1 /\ NumberOf(nw, BlockOf(nw, n)) = n
    <3>1. r * L + q \in 0 .. N - 1 /\ (r * L + q) \div L = r /\ (r * L + q) % L = q
      BY <2>1, <2>3, <2>6
    <3>2. NumberOf(nw, r * L + q) = q * R + r
      BY <2>2, <3>1
    <3> QED BY <2>5, <2>6, <2>7, <3>1, <3>2
  <2>9. NumberOf(nw, n) \in 0 .. N - 1 /\ BlockOf(nw, NumberOf(nw, n)) = n
    <3>1. v * R + u \in 0 .. N - 1 /\ (v * R + u) \div R = v /\ (v * R + u) % R = u
      BY <2>1, <2>3, <2>6
    <3>2. BlockOf(nw, v * R + u) = L * u + v
      BY <2>2, <3>1
    <3> QED BY <2>5, <2>6, <2>7, <3>1, <3>2
  <2> QED BY <2>8, <2>9 DEF N
<1>2. CASE ~ Straddles(nw)
  BY <1>2 DEF BlockOf, NumberOf
<1> QED BY <1>1, <1>2

(* Two blocks of the network share no address. *)
LEMMA BlocksDisjoint ==
    ASSUME NEW nw, IsNetwork(nw), NEW s \in Blocks(nw), NEW t \in Blocks(nw), s # t
    PROVE  \/ s + 2^nw.hostBits <= t
           \/ t + 2^nw.hostBits <= s
<1> DEFINE H == HostAddresses(nw)
<1>1. PICK i \in Nat, j \in Nat : s = i * H /\ t = j * H
  BY Powers DEF Blocks, HostAddresses
<1>2. H \in Nat \ {0} /\ 2^nw.hostBits = H
  BY Powers DEF HostAddresses
<1> HIDE DEF H
<1>3. i # j
  BY <1>1
<1>4. \A x, y \in Nat : x < y => x * H + H <= y * H
  <2> SUFFICES ASSUME NEW x \in Nat, NEW y \in Nat, x < y PROVE x * H + H <= y * H
    OBVIOUS
  <2>1. y * H = (x * H + H) + (y - x - 1) * H /\ (y - x - 1) * H >= 0
    BY <1>2, SMT
  <2>2. x * H \in Nat /\ y * H \in Nat /\ (y - x - 1) * H \in Int
    BY <1>2, SMT
  <2> QED BY <1>2, <2>1, <2>2
<1>5. i < j \/ j < i
  BY <1>3
<1> QED BY <1>1, <1>2, <1>4, <1>5

LEMMA BlocksInside ==
    ASSUME NEW nw, IsNetwork(nw), NEW s \in Blocks(nw)
    PROVE  s \in Nat /\ s + 2^nw.hostBits <= 2^(nw.hostBits + nw.subnetBits)
<1> DEFINE H == HostAddresses(nw)
           N == Count(nw)
<1>1. PICK i \in 0 .. N - 1 : s = i * H
  BY DEF Blocks, HostAddresses, Count
<1>2. /\ H \in Nat \ {0} /\ 2^nw.hostBits = H /\ N \in Nat \ {0}
      /\ 2^(nw.hostBits + nw.subnetBits) = H * N
  BY Powers DEF HostAddresses
<1> HIDE DEF H, N
<1>3. H * N = (i * H + H) + (N - i - 1) * H /\ (N - i - 1) * H >= 0
  BY <1>2, SMT
<1>4. i * H \in Nat /\ (N - i - 1) * H \in Int /\ H * N \in Nat
  BY <1>2, SMT
<1> QED BY <1>1, <1>2, <1>3, <1>4

(* Whatever the size of the network and of its subnets, the rotation of the *)
(* subnet number gives every block of the network to one number: no two     *)
(* subnets GetNetwork hands out overlap, and none is out of its reach.      *)
THEOREM PlacesAreBlocks ==
    ASSUME NEW nw, IsNetwork(nw)
    PROVE  PlacesIn(nw) \in Bijection(0 .. 2^nw.subnetBits - 1, Blocks(nw))
<1> DEFINE N == Count(nw)
           H == HostAddresses(nw)
           place == PlacesIn(nw)
<1>1. /\ place = [n \in 0 .. N - 1 |-> BlockOf(nw, n) * H]
      /\ Blocks(nw) = {i * H : i \in 0 .. N - 1}
  <2>1. DOMAIN place = 0 .. N - 1 /\ place = [n \in DOMAIN place |-> place[n]]
    BY DEF PlacesIn, Count
  <2>2. \A n \in 0 .. N - 1 : place[n] = BlockOf(nw, n) * H
    BY PlaceIsBlock
  <2> HIDE DEF place
  <2> QED BY <2>1, <2>2 DEF Blocks, Count, HostAddresses
<1>2. \A n \in 0 .. N - 1 :
         /\ BlockOf(nw, n) \in 0 .. N - 1 /\ NumberOf(nw, BlockOf(nw, n)) = n
         /\ NumberOf(nw, n) \in 0 .. N - 1 /\ BlockOf(nw, NumberOf(nw, n)) = n
  BY BlocksNumbered
<1>3. H \in Nat \ {0} /\ 2^nw.subnetBits = N
  BY Powers DEF Count
<1> HIDE DEF N, H, place
<1>4. place \in [0 .. N - 1 -> Blocks(nw)]
  BY <1>1, <1>2
<1>5. ASSUME NEW m \in 0 .. N - 1, NEW n \in 0 .. N - 1, place[m] = place[n] PROVE m = n
  <2> DEFINE x == BlockOf(nw, m)
             y == BlockOf(nw, n)
  <2>1. x \in Int /\ y \in Int /\ x * H = y * H
    BY <1>1, <1>2, <1>5
  <2> HIDE DEF x, y
  <2>2. x = y
    BY <1>3, <2>1, SMT
  <2> QED BY <1>2, <2>2 DEF x, y
<1>6. ASSUME NEW t \in Blocks(nw) PROVE \E n \in 0 .. N - 1 : place[n] = t
  <2>1. PICK i \in 0 .. N - 1 : t = i * H
    BY <1>1
  <2>2. NumberOf(nw, i) \in 0 .. N - 1 /\ place[NumberOf(nw, i)] = t
    BY <1>1, <1>2, <2>1
  <2> QED BY <2>2
<1>7. place \in Bijection(0 .. N - 1, Blocks(nw))
  BY <1>4, <1>5, <1>6 DEF Bijection, Injection, IsInjective, Surjection
<1> QED BY <1>3, <1>7 DEF place

(* GetNetwork hands out blocks of the network. *)
LEMMA GetPlaceYields ==
    ASSUME NEW nw, IsNetwork(nw), NEW a \in [next : Nat, allocated : SUBSET Blocks(nw)]
    PROVE  GetNetwork(a, PlacesIn(nw)) \in [next : Nat, allocated : SUBSET Blocks(nw)]
<1> DEFINE place == PlacesIn(nw)
           n == Nearest(a, place, FreeNumbers(a, place))
<1>1. /\ DOMAIN place = 0 .. Count(nw) - 1 /\ Count(nw) \in Nat \ {0}
      /\ \A i \in DOMAIN place : place[i] \in Blocks(nw)
  BY Powers, PlacesAreBlocks DEF Count, Bijection, Injection
<1> HIDE DEF place
<1>2. CASE CanGet(a, place)
  <2>1. n \in FreeNumbers(a, place)
    BY <1>1, <1>2, NearestIsFree
  <2>2. n \in DOMAIN place /\ NextSubnet(a, place) = place[n]
    BY <2>1 DEF FreeNumbers, NextSubnet
  <2>3. GetNetwork(a, place) = [next |-> n + 1, allocated |-> a.allocated \cup {place[n]}]
    BY <1>2, <2>2 DEF GetNetwork
  <2> HIDE DEF n
  <2>4. n + 1 \in Nat /\ place[n] \in Blocks(nw)
    BY <1>1, <2>2
  <2> QED BY <2>3, <2>4 DEF place
<1>3. CASE ~ CanGet(a, place)
  BY <1>3 DEF GetNetwork, place
<1> QED BY <1>2, <1>3

AllocatorInv == /\ net \in Networks
                /\ allocator \in [next : Nat, allocated : SUBSET Blocks(net)]

LEMMA NetworksOfAllocator == \A nw \in Networks : IsNetwork(nw)
  BY SubnetPlacesAssumption DEF IsNetwork

LEMMA AllocatorInvImplies == AllocatorInv => SubnetsDisjoint /\ WholeNetworkUsed
<1> SUFFICES ASSUME AllocatorInv PROVE SubnetsDisjoint /\ WholeNetworkUsed
  OBVIOUS
<1>1. IsNetwork(net) /\ allocator.allocated \subseteq Blocks(net)
  BY NetworksOfAllocator DEF AllocatorInv
<1>2. SubnetsDisjoint
  <2>1. ASSUME NEW s \in allocator.allocated, NEW t \in allocator.allocated \ {s}
        PROVE  s + 2^net.hostBits <= t \/ t + 2^net.hostBits <= s
    BY <1>1, BlocksDisjoint
  <2>2. \A s \in allocator.allocated : s + 2^net.hostBits <= 2^(net.hostBits + net.subnetBits)
    BY <1>1, BlocksInside
  <2> QED BY <2>1, <2>2 DEF SubnetsDisjoint
<1>3. {PlacesIn(net)[n] : n \in DOMAIN PlacesIn(net)} = Blocks(net)
  <2>1. PlacesIn(net) \in Bijection(0 .. 2^net.subnetBits - 1, Blocks(net))
    BY <1>1, PlacesAreBlocks
  <2> QED BY <2>1 DEF Bijection, Injection, Surjection
<1>4. WholeNetworkUsed
  BY <1>3 DEF WholeNetworkUsed, CanGet, FreeNumbers
<1> QED BY <1>2, <1>4

(* Both, of any sequence of the allocator's operations and restarts. *)
LEMMA PlacesUsed == PlacesSpec => [](SubnetsDisjoint /\ WholeNetworkUsed)
<1>1. PlacesInit => AllocatorInv
  BY DEF PlacesInit, AllocatorInv, NewSubnetAllocator
<1>2. AllocatorInv /\ [PlacesNext]_(placesVars) => AllocatorInv'
  <2> SUFFICES ASSUME AllocatorInv, [PlacesNext]_(placesVars) PROVE AllocatorInv'
    OBVIOUS
  <2>1. CASE GetPlace
    BY <2>1, NetworksOfAllocator, GetPlaceYields DEF GetPlace, AllocatorInv
  <2>2. ASSUME NEW subnet \in allocator.allocated, ReleasePlace(subnet) PROVE AllocatorInv'
    BY <2>2 DEF ReleasePlace, AllocatorInv, ReleaseNetwork
  <2>3. CASE RestartAllocator
    BY <2>3 DEF RestartAllocator, AllocatorInv, NewSubnetAllocator
  <2>4. CASE UNCHANGED placesVars
    BY <2>4 DEF placesVars, AllocatorInv
  <2> QED BY <2>1, <2>2, <2>3, <2>4 DEF PlacesNext
<1>3. AllocatorInv => SubnetsDisjoint /\ WholeNetworkUsed
  BY AllocatorInvImplies
<1> QED BY <1>1, <1>2, <1>3, PTL DEF PlacesSpec

(* In a cluster network of any size, however subnets are taken and returned, *)
(* no address is in two of the subnets given out, and all lie in the network. *)
THEOREM DisjointCorrect == PlacesSpec => []SubnetsDisjoint
BY PlacesUsed, PTL

(* GetNetwork fails only when every block of the network is given out: the   *)
(* rotated numbers and the search that wraps around pass none over.          *)
THEOREM WholeNetworkCorrect == PlacesSpec => []WholeNetworkUsed
BY PlacesUsed, PTL

(* The allocator with each number of a subnet replaced by its place. *)
Places(numbers, place) == {place[n] : n \in numbers}
Placed(a, place)       == [next |-> a.next, allocated |-> Places(a.allocated, place)]

(* The master's half of the pod network names the subnets by their numbers:  *)
(* each operation of the allocator does to the numbers what it does to the   *)
(* places, which is all it knows.                                            *)
THEOREM NumbersStandForPlaces ==
    ASSUME NEW nw, IsNetwork(nw), NumSubnets = 2^nw.subnetBits, NEW a \in Allocators(Place)
    PROVE  /\ GetNetwork(Placed(a, PlacesIn(nw)), PlacesIn(nw)) = Placed(GetNetwork(a, Place), PlacesIn(nw))
           /\ CanGet(Placed(a, PlacesIn(nw)), PlacesIn(nw)) <=> CanGet(a, Place)
           /\ CanGet(a, Place) =>
                NextSubnet(Placed(a, PlacesIn(nw)), PlacesIn(nw)) = PlacesIn(nw)[NextSubnet(a, Place)]
           /\ \A n \in Subnets : ReleaseNetwork(Placed(a, PlacesIn(nw)), PlacesIn(nw)[n])
                                   = Placed(ReleaseNetwork(a, n), PlacesIn(nw))
<1> DEFINE place == PlacesIn(nw)
           b == Placed(a, place)
<1>1. /\ DOMAIN place = Subnets /\ DOMAIN Place = Subnets
      /\ \A m, n \in Subnets : place[m] = place[n] => m = n
  BY PlacesAreBlocks DEF Bijection, Injection, IsInjective, Subnets, Place
<1>2. a \in [next : 0 .. NumSubnets, allocated : SUBSET Subnets] /\ NumSubnets \in Nat \ {0}
  BY MasterSubnetsAssumption, SubnetsCounted
<1> HIDE DEF place
<1>3. FreeNumbers(b, place) = FreeNumbers(a, Place)
  BY <1>1, <1>2 DEF FreeNumbers, Placed, Places, Place
<1>4. CanGet(b, place) <=> CanGet(a, Place)
  BY <1>3 DEF CanGet
<1>5. Nearest(b, place, FreeNumbers(b, place)) = Nearest(a, Place, FreeNumbers(a, Place))
  BY <1>1, <1>3 DEF Nearest, Placed
<1>6. CanGet(a, Place) => NextSubnet(b, place) = place[NextSubnet(a, Place)]
  BY <1>5, NextIsFree DEF NextSubnet
<1>7. GetNetwork(b, place) = Placed(GetNetwork(a, Place), place)
  <2>1. CASE CanGet(a, Place)
    <3> DEFINE n == NextSubnet(a, Place)
    <3>1. GetNetwork(a, Place) = [next |-> n + 1, allocated |-> a.allocated \cup {n}]
      BY <2>1, NextIsFree DEF GetNetwork
    <3>2. GetNetwork(b, place) = [next |-> n + 1, allocated |-> b.allocated \cup {place[n]}]
      BY <1>4, <1>5, <1>6, <2>1, NextIsFree DEF GetNetwork
    <3> HIDE DEF n
    <3>3. Places(a.allocated \cup {n}, place) = Places(a.allocated, place) \cup {place[n]}
      BY DEF Places
    <3> QED BY <3>1, <3>2, <3>3 DEF Placed
  <2>2. CASE ~ CanGet(a, Place)
    BY <1>2, <1>4, <2>2 DEF GetNetwork, Placed
  <2> QED BY <2>1, <2>2
<1>8. ASSUME NEW n \in Subnets PROVE ReleaseNetwork(b, place[n]) = Placed(ReleaseNetwork(a, n), place)
  <2>1. Places(a.allocated \ {n}, place) = Places(a.allocated, place) \ {place[n]}
    BY <1>1, <1>2 DEF Places
  <2>2. ReleaseNetwork(a, n) = [next |-> a.next, allocated |-> a.allocated \ {n}]
    BY <1>2 DEF ReleaseNetwork
  <2>3. ReleaseNetwork(b, place[n]) = [next |-> a.next, allocated |-> Places(a.allocated, place) \ {place[n]}]
    BY DEF ReleaseNetwork, Placed
  <2> QED BY <2>1, <2>2, <2>3 DEF Placed
<1> QED BY <1>4, <1>6, <1>7, <1>8 DEF place

-----------------------------------------------------------------------------
(* Types. *)

(* What waits for a node tells whether Kubernetes still has it. *)
DeltaFits ==
    \A h \in Hosts :
        /\ kubeNodes[h] # NoNode => nodeDelta[h].type # "Deleted"
        /\ kubeNodes[h] = NoNode => nodeDelta[h].type \in {"None", "Deleted"}

NodeDeltas == {NoDelta} \cup [type : DeltaTypes, node : NodeObjects]

(* Only the event of a deletion has no record. *)
Batches == {b \in Seq(W!Events) : \A i \in DOMAIN b : b[i].type = "Added" => b[i].rec \in W!Records}

(* What a step may find, and must leave, of the records and their watch ... *)
WatchType == /\ store \in [IPs -> W!Values]
             /\ unseen \in Seq(W!Changes) /\ Len(unseen) <= Window /\ behind \in BOOLEAN
             /\ behind => unseen = <<>>
             /\ cache \in Seq(W!Records) /\ batch \in Batches

(* ... of Kubernetes and its queue ... *)
KubeType == /\ kubeNodes \in [Hosts -> NodeObjects \cup {NoNode}]
            /\ nodeDelta \in [Hosts -> NodeDeltas]
            /\ DeltaFits

(* ... and of the master. *)
MasterType == /\ handling \in Batches
              /\ sna \in Allocators(Place)
              /\ nodeAddressMap \in [UIDs -> IPs \cup {NoIP}]
              /\ asked \subseteq Requests
              /\ job \in [Goroutines -> Jobs]

TypeInv == WatchType /\ KubeType /\ MasterType

LEMMA TypeInvImplies == TypeInv => TypeOK
  BY DEF TypeInv, WatchType, KubeType, MasterType, TypeOK, NodeDeltas, Batches

(* A write leaves the watch well typed, and adds nothing but itself. *)
LEMMA WriteYields ==
    ASSUME WatchType, NEW key \in IPs, NEW value \in W!Values, Write(key, value)
    PROVE  /\ WatchType' /\ UNCHANGED <<cache, batch>>
           /\ store' = [store EXCEPT ![key] = value]
           /\ \A i \in DOMAIN unseen' : \/ unseen'[i] = [key |-> key, value |-> value]
                                        \/ \E j \in DOMAIN unseen : unseen'[i] = unseen[j]
<1>1. [key |-> key, value |-> value] \in W!Changes
  BY WatchSets
<1>2. /\ store' = [store EXCEPT ![key] = value] /\ W!Happens(key, value)
      /\ UNCHANGED <<cache, batch>>
  BY DEF Write
<1>3. /\ unseen' \in Seq(W!Changes) /\ Len(unseen') <= Window /\ behind' \in BOOLEAN
      /\ behind' => unseen' = <<>>
      /\ \A i \in DOMAIN unseen' : \/ unseen'[i] = [key |-> key, value |-> value]
                                   \/ \E j \in DOMAIN unseen : unseen'[i] = unseen[j]
  BY <1>1, <1>2, HappensYields DEF WatchType
<1>4. store' \in [IPs -> W!Values]
  BY <1>2 DEF WatchType
<1> QED BY <1>2, <1>3, <1>4 DEF WatchType

(* A master that writes nothing leaves the watch as it is. *)
LEMMA NoWriteKeeps == ASSUME WatchType, NoWrite PROVE WatchType'
  BY DEF NoWrite, watchVars, WatchType

(* What the records of the requests and of the master are. *)
LEMMA HostSubnetType ==
    ASSUME NEW h \in Hosts, NEW ip \in IPs, NEW s \in Subnets \cup {NoSubnet}, NEW b \in BOOLEAN
    PROVE  HostSubnet(h, ip, s, b) \in W!Records
BY WatchSets DEF HostSubnet, SubnetData

LEMMA RecordShape ==
    ASSUME NEW r \in W!Records
    PROVE  /\ r.name \in Hosts /\ r.data \in SubnetData /\ r.data # NoData
           /\ r.data.ip \in IPs /\ r.data.subnet \in Subnets \cup {NoSubnet} /\ r.data.assign \in BOOLEAN
BY WatchSets, NullsAssumption DEF SubnetData

(* What a job of each kind holds. *)
LEMMA JobShape ==
    ASSUME NEW j \in Jobs
    PROVE  /\ j.at \in {"revoke", "get", "renew", "acquire"} => j.for \in Target /\ j # Idle
           /\ j.at = "renew" => j.record \in W!Records
           /\ j.at = "acquire" => j.subnet \in Subnets
           /\ j.at \notin {"revoke", "get", "renew", "acquire"} => j = Idle
BY DEF Jobs, Idle

LEMMA QueueActionType ==
    ASSUME NEW old \in PendingTypes
    PROVE  /\ old \in {"None", "Deleted"} =>
                queueActionLocked(old, "Added") \in {"Added", "Updated"}
           /\ old # "Deleted" =>
                queueActionLocked(old, "Updated") \in {"Added", "Sync", "Updated"}
           /\ queueActionLocked(old, "Deleted") \in {"None", "Deleted"}
           /\ queueActionLocked("None", "Sync") = "Sync"
  BY DEF queueActionLocked, deltaCompressor, deltaActionMatrix, PendingTypes, DeltaTypes

LEMMA DeltaShape ==
    ASSUME NEW d \in NodeDeltas
    PROVE  /\ d.type \in PendingTypes
           /\ d.type # "None" => d.type \in DeltaTypes /\ d.node \in NodeObjects
  BY DEF NodeDeltas, NoDelta, PendingTypes

(* Queueing a node keeps the queue well typed. *)
LEMMA QueueType ==
    ASSUME KubeType, NEW h \in Hosts, NEW type, NEW node \in NodeObjects,
           queueActionLocked(nodeDelta[h].type, type) \in PendingTypes, Queue(h, type, node)
    PROVE  /\ nodeDelta' \in [Hosts -> NodeDeltas]
           /\ nodeDelta'[h].type = queueActionLocked(nodeDelta[h].type, type)
           /\ nodeDelta'[h].type # "None" => nodeDelta'[h].node = node
           /\ \A g \in Hosts : g # h => nodeDelta'[g] = nodeDelta[g]
<1> DEFINE t == queueActionLocked(nodeDelta[h].type, type)
           d == IF t = "None" THEN NoDelta ELSE [type |-> t, node |-> node]
<1>1. d \in NodeDeltas /\ d.type = t /\ (t # "None" => d.node = node)
  BY DEF NodeDeltas, NoDelta, PendingTypes
<1>2. nodeDelta' = [nodeDelta EXCEPT ![h] = d]
  BY DEF Queue
<1> HIDE DEF d, t
<1> QED BY <1>1, <1>2 DEF KubeType, t

LEMMA NodeShape ==
    ASSUME NEW n \in NodeObjects
    PROVE  /\ n # NoNode /\ n.uid \in UIDs /\ n.uid # NoNode
           /\ n.addrs \in Seq(IPs) \ {<<>>} /\ n.addrs[1] \in IPs
<1>1. PICK h \in Hosts : n.uid \in UIDs /\ n.addrs \in AddressesOf[h] /\ n = [uid |-> n.uid, addrs |-> n.addrs]
  BY DEF NodeObjects
<1>2. n.addrs \in Seq(IPs) \ {<<>>}
  BY <1>1, MasterSubnetsAssumption
<1>3. n.addrs[1] \in IPs
  BY <1>2
<1> QED BY <1>1, <1>2, <1>3, NullsAssumption

(* Kubernetes and its reflector change the nodes and their queue only. *)
LEMMA KubeStepType ==
    ASSUME TypeInv, KubeStep
    PROVE  TypeInv'
<1>1. ASSUME NEW h \in Hosts, NEW addrs \in AddressesOf[h], CreateNode(h, addrs) PROVE TypeInv'
  <2> DEFINE uid  == CHOOSE u \in UIDs : u \notin UIDsInUse
             node == [uid |-> uid, addrs |-> addrs]
  <2>1. uid \in UIDs
    BY <1>1 DEF CreateNode
  <2>2. kubeNodes[h] = NoNode /\ kubeNodes' = [kubeNodes EXCEPT ![h] = node] /\ Queue(h, "Added", node)
    BY <1>1 DEF CreateNode
  <2>3. nodeAddressMap' = [nodeAddressMap EXCEPT ![uid] = NoIP]
    BY <1>1 DEF CreateNode
  <2> HIDE DEF uid
  <2>4. node \in NodeObjects /\ node # NoNode
    BY <2>1, NodeShape DEF NodeObjects
  <2> HIDE DEF node
  <2>5. nodeDelta[h].type \in {"None", "Deleted"}
    BY <2>2 DEF TypeInv, KubeType, DeltaFits
  <2>6. queueActionLocked(nodeDelta[h].type, "Added") \in {"Added", "Updated"}
    BY <2>5, QueueActionType DEF PendingTypes, DeltaTypes
  <2>7. /\ nodeDelta' \in [Hosts -> NodeDeltas] /\ nodeDelta'[h].type \in {"Added", "Updated"}
        /\ \A g \in Hosts : g # h => nodeDelta'[g] = nodeDelta[g]
    BY <2>2, <2>4, <2>6, QueueType DEF TypeInv, PendingTypes, DeltaTypes
  <2>8. KubeType'
    <3>1. kubeNodes' \in [Hosts -> NodeObjects \cup {NoNode}]
      BY <2>2, <2>4 DEF TypeInv, KubeType
    <3>2. DeltaFits'
      BY <2>2, <2>4, <2>7 DEF TypeInv, KubeType, DeltaFits
    <3> QED BY <2>7, <3>1, <3>2 DEF KubeType
  <2>9. MasterType'
    BY <1>1, <2>1, <2>3 DEF CreateNode, TypeInv, MasterType
  <2> QED BY <1>1, <2>8, <2>9, NoWriteKeeps DEF CreateNode, TypeInv
<1>2. ASSUME NEW h \in Hosts, NEW addrs \in AddressesOf[h], UpdateNode(h, addrs) PROVE TypeInv'
  <2> DEFINE node == [uid |-> kubeNodes[h].uid, addrs |-> addrs]
  <2>1. kubeNodes[h] # NoNode /\ kubeNodes[h] \in NodeObjects
    BY <1>2 DEF UpdateNode, TypeInv, KubeType
  <2>2. kubeNodes' = [kubeNodes EXCEPT ![h] = node] /\ Queue(h, "Updated", node)
    <3>1. kubeNodes' = [kubeNodes EXCEPT ![h].addrs = addrs] /\ Queue(h, "Updated", kubeNodes'[h])
      BY <1>2 DEF UpdateNode
    <3>2. [kubeNodes[h] EXCEPT !.addrs = addrs] = node
      BY <2>1 DEF NodeObjects
    <3> QED BY <3>1, <3>2 DEF TypeInv, KubeType
  <2>3. node \in NodeObjects /\ node # NoNode
    BY <2>1, NodeShape DEF NodeObjects
  <2> HIDE DEF node
  <2>4. nodeDelta[h].type \in PendingTypes /\ nodeDelta[h].type # "Deleted"
    BY <2>1, DeltaShape DEF TypeInv, KubeType, DeltaFits
  <2>5. queueActionLocked(nodeDelta[h].type, "Updated") \in {"Added", "Sync", "Updated"}
    BY <2>4, QueueActionType
  <2>6. /\ nodeDelta' \in [Hosts -> NodeDeltas] /\ nodeDelta'[h].type \in {"Added", "Sync", "Updated"}
        /\ \A g \in Hosts : g # h => nodeDelta'[g] = nodeDelta[g]
    BY <2>2, <2>3, <2>5, QueueType DEF TypeInv, PendingTypes, DeltaTypes
  <2>7. KubeType'
    <3>1. kubeNodes' \in [Hosts -> NodeObjects \cup {NoNode}]
      BY <2>2, <2>3 DEF TypeInv, KubeType
    <3>2. DeltaFits'
      BY <2>2, <2>3, <2>6 DEF TypeInv, KubeType, DeltaFits
    <3> QED BY <2>6, <3>1, <3>2 DEF KubeType
  <2>8. MasterType'
    BY <1>2 DEF UpdateNode, TypeInv, MasterType
  <2> QED BY <1>2, <2>7, <2>8, NoWriteKeeps DEF UpdateNode, TypeInv
<1>3. ASSUME NEW h \in Hosts, DeleteNode(h) PROVE TypeInv'
  <2>1. /\ kubeNodes[h] \in NodeObjects /\ kubeNodes' = [kubeNodes EXCEPT ![h] = NoNode]
        /\ Queue(h, "Deleted", kubeNodes[h])
    BY <1>3 DEF DeleteNode, TypeInv, KubeType
  <2>2. queueActionLocked(nodeDelta[h].type, "Deleted") \in {"None", "Deleted"}
    BY DeltaShape, QueueActionType DEF TypeInv, KubeType
  <2>3. /\ nodeDelta' \in [Hosts -> NodeDeltas] /\ nodeDelta'[h].type \in {"None", "Deleted"}
        /\ \A g \in Hosts : g # h => nodeDelta'[g] = nodeDelta[g]
    BY <2>1, <2>2, QueueType DEF TypeInv, PendingTypes, DeltaTypes
  <2>4. KubeType'
    BY <2>1, <2>3 DEF TypeInv, KubeType, DeltaFits
  <2>5. MasterType'
    BY <1>3 DEF DeleteNode, TypeInv, MasterType
  <2> QED BY <1>3, <2>4, <2>5, NoWriteKeeps DEF DeleteNode, TypeInv
<1>4. ASSUME NEW h \in Hosts, Resync(h) PROVE TypeInv'
  <2>1. /\ kubeNodes[h] # NoNode /\ kubeNodes[h] \in NodeObjects /\ kubeNodes' = kubeNodes
        /\ Queue(h, "Sync", kubeNodes[h]) /\ nodeDelta[h].type = "None"
    BY <1>4 DEF Resync, TypeInv, KubeType, NoDelta
  <2>2. queueActionLocked(nodeDelta[h].type, "Sync") = "Sync"
    BY <2>1, QueueActionType DEF PendingTypes
  <2>3. /\ nodeDelta' \in [Hosts -> NodeDeltas] /\ nodeDelta'[h].type = "Sync"
        /\ \A g \in Hosts : g # h => nodeDelta'[g] = nodeDelta[g]
    BY <2>1, <2>2, QueueType DEF TypeInv, PendingTypes, DeltaTypes
  <2>4. KubeType'
    BY <2>1, <2>3 DEF TypeInv, KubeType, DeltaFits
  <2>5. MasterType'
    BY <1>4 DEF Resync, TypeInv, MasterType
  <2> QED BY <1>4, <2>4, <2>5, NoWriteKeeps DEF Resync, TypeInv
<1> QED BY <1>1, <1>2, <1>3, <1>4 DEF KubeStep

LEMMA RequestType ==
    ASSUME TypeInv, NEW r \in Requests, Request(r)
    PROVE  TypeInv'
<1>1. /\ r.key \in IPs /\ HostSubnet(r.host, r.ip, NoSubnet, TRUE) \in W!Values
  BY MasterSubnetsAssumption, HostSubnetType, WatchSets
<1>2. WatchType'
  BY <1>1, WriteYields DEF Request, TypeInv
<1>3. KubeType'
  BY DEF Request, kubeVars, TypeInv, KubeType, DeltaFits
<1>4. MasterType'
  BY DEF Request, TypeInv, MasterType
<1> QED BY <1>2, <1>3, <1>4 DEF TypeInv

LEMMA OtherWritesType ==
    ASSUME TypeInv, OtherWrites
    PROVE  TypeInv'
<1>1. [key |-> Elsewhere, value |-> NoRecord] \in W!Changes
  BY WatchSets
<1>2. WatchType'
  BY <1>1, HappensYields DEF OtherWrites, W!WriteElsewhere, TypeInv, WatchType
<1>3. KubeType'
  BY DEF OtherWrites, kubeVars, TypeInv, KubeType, DeltaFits
<1>4. MasterType'
  BY DEF OtherWrites, TypeInv, MasterType
<1> QED BY <1>2, <1>3, <1>4 DEF TypeInv

LEMMA PopNodeType ==
    ASSUME TypeInv, NEW h \in Hosts, PopNode(h)
    PROVE  TypeInv'
<1> DEFINE node == nodeDelta[h].node
           for == [host |-> h, ip |-> node.addrs[1], uid |-> node.uid]
<1>1. node \in NodeObjects
  BY DeltaShape DEF PopNode, TypeInv, KubeType
<1>2. for \in Target /\ node.uid \in UIDs
  BY <1>1, NodeShape DEF Target
<1>3. /\ nodeDelta' = [nodeDelta EXCEPT ![h] = NoDelta] /\ kubeNodes' = kubeNodes
      /\ handling' = handling /\ sna' = sna /\ asked' = asked /\ NoWrite
      /\ \/ nodeAddressMap' = nodeAddressMap
         \/ nodeAddressMap' = [nodeAddressMap EXCEPT ![node.uid] = NoIP]
      /\ \/ job' = job
         \/ job' = [job EXCEPT !["nodes"] = [at |-> "get", for |-> for]]
         \/ job' = [job EXCEPT !["nodes"] = [at |-> "revoke", for |-> for]]
  BY DEF PopNode, Begin
<1> HIDE DEF for, node
<1>4. job' \in [Goroutines -> Jobs]
  BY <1>2, <1>3 DEF TypeInv, MasterType, Jobs
<1>5. nodeAddressMap' \in [UIDs -> IPs \cup {NoIP}]
  BY <1>3 DEF TypeInv, MasterType
<1>6. KubeType'
  BY <1>3 DEF TypeInv, KubeType, DeltaFits, NodeDeltas, NoDelta
<1>7. MasterType'
  BY <1>3, <1>4, <1>5 DEF TypeInv, MasterType
<1> QED BY <1>3, <1>6, <1>7, NoWriteKeeps DEF TypeInv

(* What the end of a call leaves. *)
LEMMA DoneType ==
    ASSUME MasterType, NEW g \in Goroutines, job[g].for \in Target, Succeed(g) \/ Fail(g)
    PROVE  /\ job' = [job EXCEPT ![g] = Idle] /\ job' \in [Goroutines -> Jobs]
           /\ nodeAddressMap' \in [UIDs -> IPs \cup {NoIP}]
<1>1. job' = [job EXCEPT ![g] = Idle]
  BY DEF Succeed, Fail, Begin
<1>2. job' \in [Goroutines -> Jobs]
  BY <1>1 DEF MasterType, Jobs
<1>3. nodeAddressMap' \in [UIDs -> IPs \cup {NoIP}]
  BY DEF Succeed, Fail, MasterType, Target
<1> QED BY <1>1, <1>2, <1>3

LEMMA RevokeType ==
    ASSUME TypeInv, NEW g \in Goroutines, Revoke(g)
    PROVE  TypeInv'
<1> DEFINE for == job[g].for
<1>1. for \in Target /\ for.ip \in IPs /\ NoRecord \in W!Values
  BY JobShape, WatchSets DEF Revoke, TypeInv, MasterType, Target
<1>2. /\ Write(for.ip, NoRecord) \/ NoWrite
      /\ \/ job' = [job EXCEPT ![g] = Idle]
         \/ job' = [job EXCEPT ![g] = [at |-> "get", for |-> for]]
  BY DEF Revoke, Begin
<1>3. WatchType'
  BY <1>1, <1>2, WriteYields, NoWriteKeeps DEF TypeInv
<1>4. job' \in [Goroutines -> Jobs]
  BY <1>1, <1>2 DEF TypeInv, MasterType, Jobs
<1>5. MasterType'
  BY <1>4 DEF Revoke, TypeInv, MasterType
<1>6. KubeType'
  BY DEF Revoke, kubeVars, TypeInv, KubeType, DeltaFits
<1> QED BY <1>3, <1>5, <1>6 DEF TypeInv

LEMMA GetType ==
    ASSUME TypeInv, NEW g \in Goroutines, Get(g)
    PROVE  TypeInv'
<1> DEFINE for == job[g].for
           rec == store[for.ip]
           renewal == HostSubnet(for.host, rec.data.ip, rec.data.subnet, FALSE)
           subnet == NextSubnet(sna, Place)
<1>1. for \in Target /\ for.ip \in IPs /\ for.host \in Hosts
  BY JobShape DEF Get, TypeInv, MasterType, Target
<1>2. rec # NoRecord => rec \in W!Records /\ renewal \in W!Records
  <2>1. rec # NoRecord => rec \in W!Records
    BY <1>1, WatchSets DEF TypeInv, WatchType
  <2> QED BY <1>1, <2>1, RecordShape, HostSubnetType
<1>3. CanGet(sna, Place) => subnet \in Subnets
  BY NextIsFree DEF TypeInv, MasterType
<1>4. GetNetwork(sna, Place) \in Allocators(Place)
  BY GetYields DEF TypeInv, MasterType
<1>5. /\ sna' \in {sna, GetNetwork(sna, Place)} /\ handling' = handling /\ asked' = asked
      /\ NoWrite /\ UNCHANGED kubeVars
      /\ \/ Succeed(g) \/ Fail(g)
         \/ /\ rec # NoRecord /\ UNCHANGED nodeAddressMap
            /\ Begin(g, [at |-> "renew", for |-> for, record |-> renewal])
         \/ /\ CanGet(sna, Place) /\ UNCHANGED nodeAddressMap
            /\ Begin(g, [at |-> "acquire", for |-> for, subnet |-> subnet])
  BY DEF Get
<1> HIDE DEF renewal, rec, subnet
<1>6. job' \in [Goroutines -> Jobs] /\ nodeAddressMap' \in [UIDs -> IPs \cup {NoIP}]
  <2>1. CASE Succeed(g) \/ Fail(g)
    BY <1>1, <2>1, DoneType DEF TypeInv
  <2>2. CASE /\ rec # NoRecord /\ UNCHANGED nodeAddressMap
             /\ Begin(g, [at |-> "renew", for |-> for, record |-> renewal])
    BY <1>1, <1>2, <2>2 DEF Begin, Jobs, TypeInv, MasterType
  <2>3. CASE /\ CanGet(sna, Place) /\ UNCHANGED nodeAddressMap
             /\ Begin(g, [at |-> "acquire", for |-> for, subnet |-> subnet])
    BY <1>1, <1>3, <2>3 DEF Begin, Jobs, TypeInv, MasterType
  <2> QED BY <1>5, <2>1, <2>2, <2>3
<1>7. MasterType'
  BY <1>4, <1>5, <1>6 DEF TypeInv, MasterType
<1>8. KubeType'
  BY <1>5 DEF kubeVars, TypeInv, KubeType, DeltaFits
<1> QED BY <1>5, <1>7, <1>8, NoWriteKeeps DEF TypeInv

LEMMA RenewType ==
    ASSUME TypeInv, NEW g \in Goroutines, Renew(g)
    PROVE  TypeInv'
<1> DEFINE rec == job[g].record
<1>1. job[g].for \in Target /\ rec \in W!Records /\ rec.data.ip \in IPs /\ rec \in W!Values
  BY JobShape, RecordShape, WatchSets DEF Renew, TypeInv, MasterType
<1>2. (Write(rec.data.ip, rec) \/ NoWrite) /\ (Succeed(g) \/ Fail(g))
  BY DEF Renew
<1>3. WatchType'
  BY <1>1, <1>2, WriteYields, NoWriteKeeps DEF TypeInv
<1>4. MasterType'
  BY <1>1, <1>2, DoneType DEF Renew, TypeInv, MasterType
<1>5. KubeType'
  BY DEF Renew, kubeVars, TypeInv, KubeType, DeltaFits
<1> QED BY <1>3, <1>4, <1>5 DEF TypeInv

LEMMA AcquireType ==
    ASSUME TypeInv, NEW g \in Goroutines, Acquire(g)
    PROVE  TypeInv'
<1> DEFINE for == job[g].for
           rec == HostSubnet(for.host, for.ip, job[g].subnet, FALSE)
<1>1. for \in Target /\ for.ip \in IPs /\ for.host \in Hosts /\ job[g].subnet \in Subnets
  BY JobShape DEF Acquire, TypeInv, MasterType, Target
<1>2. rec \in W!Values
  BY <1>1, HostSubnetType, WatchSets
<1>3. /\ Write(for.ip, rec) \/ NoWrite
      /\ Succeed(g) \/ Fail(g)
      /\ sna' \in {sna, ReleaseNetwork(sna, job[g].subnet)}
  BY DEF Acquire
<1> HIDE DEF rec
<1>4. WatchType'
  BY <1>1, <1>2, <1>3, WriteYields, NoWriteKeeps DEF TypeInv
<1>5. sna' \in Allocators(Place)
  BY <1>3, ReleaseYields DEF TypeInv, MasterType
<1>6. MasterType'
  BY <1>1, <1>3, <1>5, DoneType DEF Acquire, TypeInv, MasterType
<1>7. KubeType'
  BY DEF Acquire, kubeVars, TypeInv, KubeType, DeltaFits
<1> QED BY <1>4, <1>6, <1>7 DEF TypeInv

(* A snapshot takes the place of the copy, and what was in the copy only is *)
(* announced as removed.                                                    *)
LEMMA WatchResetYields ==
    ASSUME WatchType, W!WatchReset
    PROVE  /\ WatchType' /\ unseen' = <<>> /\ UNCHANGED store
           /\ \E s : P!Holds(cache', s)
           /\ batch = <<>> /\ P!Announces(batch', cache, cache')
<1>1. PICK snapshot \in W!Snapshots : /\ cache' = W!reset(cache, snapshot).cache
                                      /\ batch' = W!reset(cache, snapshot).batch
  BY DEF W!WatchReset
<1>2. behind /\ behind' = FALSE /\ batch = <<>> /\ UNCHANGED <<store, unseen>>
  BY DEF W!WatchReset
<1>3. PICK s : P!Holds(snapshot, s)
  BY SnapshotHolds DEF WatchType
<1>4. snapshot \in Seq(W!Records)
  BY <1>3, WatchSets DEF P!Holds
<1>5. /\ cache' = snapshot /\ batch' \in Seq(P!EventsOf(W!Records))
      /\ P!Announces(batch', cache, snapshot)
  BY <1>1, <1>4, ResetYields DEF WatchType
<1>6. batch' \in Batches
  <2>1. P!EventsOf(W!Records) \subseteq W!Events
    BY DEF P!EventsOf, W!Records, W!Events, W!Labels
  <2>2. batch' \in Seq(W!Events)
    BY <1>5, <2>1, SeqMonotonic
  <2>3. \A i \in DOMAIN batch' : batch'[i].rec \in W!Records
    <3>1. \A i \in DOMAIN batch' : batch'[i] \in P!EventsOf(W!Records)
      BY <1>5
    <3> QED BY <3>1 DEF P!EventsOf
  <2> QED BY <2>2, <2>3 DEF Batches
<1>7. WatchType' /\ unseen' = <<>>
  BY <1>2, <1>4, <1>5, <1>6 DEF WatchType
<1> QED BY <1>2, <1>3, <1>5, <1>7

(* One event goes into the copy. *)
LEMMA WatchEventYields ==
    ASSUME WatchType, W!WatchEvent
    PROVE  /\ WatchType' /\ UNCHANGED store /\ batch = <<>>
           /\ \A i \in DOMAIN unseen' : \E j \in DOMAIN unseen : unseen'[i] = unseen[j]
           /\ \E i \in DOMAIN unseen :
                 P!Updates([cache |-> cache', batch |-> batch'], cache, unseen[i])
<1>1. PICK n \in DOMAIN unseen :
         /\ unseen[n].key \in IPs /\ unseen[n].value # Malformed
         /\ unseen' = SubSeq(unseen, n + 1, Len(unseen))
         /\ cache' = W!update(cache, unseen[n]).cache /\ batch' = W!update(cache, unseen[n]).batch
  BY DEF W!WatchEvent
<1>2. ~ behind /\ behind' = FALSE /\ batch = <<>> /\ UNCHANGED store
  BY DEF W!WatchEvent, WatchType
<1>3. unseen[n] \in W!Changes /\ n \in 1 .. Len(unseen) /\ Len(unseen) \in Nat
  BY DEF WatchType
<1>4. /\ cache' \in Seq(W!Records) /\ batch' \in Seq(W!Events)
      /\ P!Updates(W!update(cache, unseen[n]), cache, unseen[n])
  BY <1>1, <1>3, UpdateYields DEF WatchType
<1>5. P!Updates([cache |-> cache', batch |-> batch'], cache, unseen[n])
  BY <1>1, <1>4 DEF P!Updates
<1>6. batch' \in Batches
  <2>1. CASE unseen[n].value = NoRecord
    <3>1. \E r : batch' = <<P!Removed(r)>>
      BY <1>5, <2>1 DEF P!Updates
    <3> QED BY <1>4, <3>1 DEF Batches, P!Removed
  <2>2. CASE unseen[n].value # NoRecord
    <3>1. batch' = <<P!Added(unseen[n].value)>> /\ unseen[n].value \in W!Records
      BY <1>5, <2>2, WatchSets DEF P!Updates
    <3> QED BY <1>4, <3>1 DEF Batches, P!Added
  <2> QED BY <2>1, <2>2
<1>7. /\ unseen' \in Seq(W!Changes) /\ Len(unseen') <= Window
      /\ \A i \in DOMAIN unseen' : \E j \in DOMAIN unseen : unseen'[i] = unseen[j]
  <2>1. /\ unseen' \in Seq(W!Changes) /\ Len(unseen') = Len(unseen) - n
        /\ \A i \in 1 .. Len(unseen) - n : unseen'[i] = unseen[n + i]
    BY <1>1, <1>3, SubSeqProperties DEF WatchType
  <2>2. Len(unseen') <= Window
    BY <1>3, <2>1, MasterSubnetsAssumption DEF WatchType
  <2>3. ASSUME NEW i \in DOMAIN unseen' PROVE \E j \in DOMAIN unseen : unseen'[i] = unseen[j]
    <3>1. i \in 1 .. Len(unseen) - n /\ n + i \in DOMAIN unseen
      BY <1>3, <2>1 DEF WatchType
    <3> QED BY <2>1, <3>1
  <2> QED BY <2>1, <2>2, <2>3
<1>8. WatchType'
  BY <1>2, <1>4, <1>6, <1>7 DEF WatchType
<1> QED BY <1>2, <1>5, <1>7, <1>8

LEMMA WatchStepType ==
    ASSUME TypeInv, Watch
    PROVE  TypeInv'
<1>1. WatchType'
  BY WatchResetYields, WatchEventYields DEF Watch, TypeInv
<1>2. KubeType' /\ MasterType'
  BY DEF Watch, kubeVars, TypeInv, KubeType, MasterType, DeltaFits
<1> QED BY <1>1, <1>2 DEF TypeInv

LEMMA HandlerType ==
    ASSUME TypeInv, TakeBatch \/ HandleEvent
    PROVE  TypeInv'
<1>1. CASE TakeBatch
  <2>1. <<>> \in Batches
    BY DEF Batches
  <2> QED BY <1>1, <2>1 DEF TakeBatch, kubeVars, TypeInv, WatchType, KubeType, MasterType, DeltaFits
<1>2. CASE HandleEvent
  <2> DEFINE e == Head(handling)
             for == [host |-> e.rec.name, ip |-> e.rec.data.ip, uid |-> NoNode]
  <2>1. handling \in Seq(W!Events) /\ Len(handling) \in Nat \ {0} /\ e = handling[1] /\ 1 \in DOMAIN handling
    BY <1>2 DEF HandleEvent, TypeInv, MasterType, Batches
  <2>2. Tail(handling) \in Batches
    <3>1. /\ Tail(handling) \in Seq(W!Events)
          /\ \A i \in DOMAIN Tail(handling) : i + 1 \in DOMAIN handling /\ Tail(handling)[i] = handling[i + 1]
      BY <2>1, HeadTailProperties
    <3> QED BY <3>1 DEF TypeInv, MasterType, Batches
  <2>3. e.type = "Added" => for \in Target
    <3>1. e.type = "Added" => e.rec \in W!Records
      BY <2>1 DEF TypeInv, MasterType, Batches
    <3> QED BY <3>1, RecordShape DEF Target
  <2>4. /\ handling' = Tail(handling) /\ NoWrite /\ UNCHANGED <<kubeVars, nodeAddressMap, asked>>
        /\ \/ e.type = "Added" /\ job' = [job EXCEPT !["subnets"] = [at |-> "revoke", for |-> for]]
           \/ job' = job
        /\ sna' \in {sna, ReleaseNetwork(sna, e.rec.data.subnet)}
    BY <1>2 DEF HandleEvent, Begin
  <2> HIDE DEF e, for
  <2>5. job' \in [Goroutines -> Jobs]
    BY <2>3, <2>4 DEF TypeInv, MasterType, Jobs
  <2>6. sna' \in Allocators(Place)
    BY <2>4, ReleaseYields DEF TypeInv, MasterType
  <2>7. MasterType'
    BY <2>2, <2>4, <2>5, <2>6 DEF TypeInv, MasterType
  <2>8. KubeType'
    BY <2>4 DEF kubeVars, TypeInv, KubeType, DeltaFits
  <2> QED BY <2>4, <2>7, <2>8, NoWriteKeeps DEF TypeInv
<1> QED BY <1>1, <1>2

(* What is recorded are subnets. *)
LEMMA RecordedSubnets == WatchType => Recorded \subseteq Subnets
<1> SUFFICES ASSUME WatchType, NEW ip \in IPs, store[ip] # NoRecord,
                    store[ip].data.subnet # NoSubnet
             PROVE  store[ip].data.subnet \in Subnets
  BY DEF Recorded
<1>1. store[ip] \in W!Records
  BY WatchSets DEF WatchType
<1> QED BY <1>1, RecordShape

LEMMA RestartType ==
    ASSUME TypeInv, Restart
    PROVE  TypeInv'
<1>1. WatchType'
  BY MasterSubnetsAssumption DEF Restart, TypeInv, WatchType, Batches
<1>2. KubeType'
  BY DEF Restart, TypeInv, KubeType, DeltaFits, NodeDeltas, NoDelta, DeltaTypes
<1>3. MasterType'
  BY RecordedSubnets, NewYields DEF Restart, TypeInv, MasterType, Batches, Jobs
<1> QED BY <1>1, <1>2, <1>3 DEF TypeInv

LEMMA TypeStep ==
    ASSUME TypeInv, [Next]_vars
    PROVE  TypeInv'
<1>1. ASSUME NEW g \in Goroutines, Call(g) PROVE TypeInv'
  BY <1>1, RevokeType, GetType, RenewType, AcquireType DEF Call
<1>2. ASSUME UNCHANGED vars PROVE TypeInv'
  BY <1>2 DEF vars, watchVars, kubeVars, TypeInv, WatchType, KubeType, MasterType, DeltaFits
<1> QED
  BY <1>1, <1>2, KubeStepType, RequestType, OtherWritesType, PopNodeType, WatchStepType,
     HandlerType, RestartType DEF Next

LEMMA TypeInit == Init => TypeInv
<1> SUFFICES ASSUME Init PROVE TypeInv
  OBVIOUS
<1>1. WatchType
  BY WatchSets, MasterSubnetsAssumption DEF Init, WatchType, Batches
<1>2. KubeType
  BY DEF Init, KubeType, NodeDeltas, NoDelta, DeltaFits
<1>3. MasterType
  BY NewYields DEF Init, MasterType, Batches, Jobs
<1> QED BY <1>1, <1>2, <1>3 DEF TypeInv

(* Every variable of the master's half of the pod network holds what the    *)
(* code can put there, whatever fails and however often it restarts; no     *)
(* combination of node deltas panics.                                       *)
THEOREM TypeCorrect == Spec => []TypeOK
<1>1. TypeInv /\ [Next]_vars => TypeInv'
  BY TypeStep
<1> QED BY <1>1, TypeInit, TypeInvImplies, PTL DEF Spec

-----------------------------------------------------------------------------
(* Hosts and addresses. *)

(* The addresses under which nodes and servers get a record. *)
Pairs == {p \in [host : Hosts, ip : IPs] :
            \/ \E addrs \in AddressesOf[p.host] : addrs[1] = p.ip
            \/ \E r \in Requests : r.host = p.host /\ r.ip = p.ip}

(* Every one of them keeps its address, no two share one, and administrators *)
(* set their requests under the address they ask for.                        *)
Orderly == /\ \A p, q \in Pairs : p.host = q.host <=> p.ip = q.ip
           /\ \A r \in Requests : r.key = r.ip

(* A record is that of one of them, and one that asks has no subnet yet. *)
Paired(r) == /\ [host |-> r.name, ip |-> r.data.ip] \in Pairs
             /\ r.data.assign => r.data.subnet = NoSubnet

EventsPaired(b) == \A i \in DOMAIN b : b[i].rec.data # NoData => Paired(b[i].rec)

WatchPaired ==
    /\ \A ip \in IPs : store[ip] # NoRecord => store[ip].data.ip = ip /\ Paired(store[ip])
    /\ \A i \in DOMAIN unseen : unseen[i].value # NoRecord =>
                                   unseen[i].value.data.ip = unseen[i].key /\ Paired(unseen[i].value)
    /\ \A i \in DOMAIN cache : Paired(cache[i])
    /\ P!NamesDiffer(cache)
    /\ EventsPaired(batch)

KubePaired ==
    \A h \in Hosts :
        /\ kubeNodes[h] # NoNode => kubeNodes[h].addrs \in AddressesOf[h]
        /\ nodeDelta[h].type # "None" => nodeDelta[h].node.addrs \in AddressesOf[h]

JobPaired(j) == /\ j # Idle => [host |-> j.for.host, ip |-> j.for.ip] \in Pairs
                /\ j.at = "renew" => Paired(j.record) /\ j.record.data.subnet = NoSubnet

MasterPaired == EventsPaired(handling) /\ \A g \in Goroutines : JobPaired(job[g])

PairInv == WatchPaired /\ KubePaired /\ MasterPaired

LEMMA WritePairs ==
    ASSUME WatchType, WatchPaired, NEW key \in IPs, NEW value \in W!Values, Write(key, value),
           value # NoRecord => value.data.ip = key /\ Paired(value)
    PROVE  WatchPaired'
<1>1. /\ UNCHANGED <<cache, batch>> /\ store' = [store EXCEPT ![key] = value]
      /\ \A i \in DOMAIN unseen' : \/ unseen'[i] = [key |-> key, value |-> value]
                                   \/ \E j \in DOMAIN unseen : unseen'[i] = unseen[j]
  BY WriteYields
<1>2. \A ip \in IPs : store'[ip] # NoRecord => store'[ip].data.ip = ip /\ Paired(store'[ip])
  BY <1>1 DEF WatchType, WatchPaired
<1>3. \A i \in DOMAIN unseen' : unseen'[i].value # NoRecord =>
                                  unseen'[i].value.data.ip = unseen'[i].key /\ Paired(unseen'[i].value)
  BY <1>1 DEF WatchPaired
<1> QED BY <1>1, <1>2, <1>3 DEF WatchPaired

LEMMA NoWritePairs == ASSUME WatchPaired, NoWrite PROVE WatchPaired'
  BY DEF NoWrite, watchVars, WatchPaired

LEMMA KubeStepPairs ==
    ASSUME TypeInv, PairInv, KubeStep
    PROVE  PairInv'
<1>1. ASSUME NEW h \in Hosts, NEW type, NEW node, node.addrs \in AddressesOf[h], Queue(h, type, node),
             \/ kubeNodes' = [kubeNodes EXCEPT ![h] = node]
             \/ kubeNodes' = [kubeNodes EXCEPT ![h] = NoNode]
             \/ kubeNodes' = kubeNodes
      PROVE  KubePaired'
  <2>1. \A g \in Hosts : nodeDelta'[g].type # "None" => nodeDelta'[g].node.addrs \in AddressesOf[g]
    BY <1>1 DEF Queue, NoDelta, PairInv, KubePaired, TypeInv, KubeType
  <2>2. \A g \in Hosts : kubeNodes'[g] # NoNode => kubeNodes'[g].addrs \in AddressesOf[g]
    BY <1>1 DEF PairInv, KubePaired, TypeInv, KubeType
  <2> QED BY <2>1, <2>2 DEF KubePaired
<1>2. ASSUME NEW h \in Hosts, NEW addrs \in AddressesOf[h], CreateNode(h, addrs) PROVE KubePaired'
  <2> DEFINE node == [uid |-> CHOOSE u \in UIDs : u \notin UIDsInUse, addrs |-> addrs]
  <2>1. kubeNodes' = [kubeNodes EXCEPT ![h] = node] /\ Queue(h, "Added", node) /\ node.addrs \in AddressesOf[h]
    BY <1>2 DEF CreateNode
  <2> HIDE DEF node
  <2> QED BY <1>1, <2>1
<1>3. ASSUME NEW h \in Hosts, NEW addrs \in AddressesOf[h], UpdateNode(h, addrs) PROVE KubePaired'
  <2> DEFINE node == [kubeNodes[h] EXCEPT !.addrs = addrs]
  <2>1. kubeNodes' = [kubeNodes EXCEPT ![h] = node] /\ Queue(h, "Updated", node)
    BY <1>3 DEF UpdateNode, TypeInv, KubeType
  <2>2. node.addrs \in AddressesOf[h]
    BY <1>3 DEF UpdateNode, TypeInv, KubeType, NodeObjects
  <2> HIDE DEF node
  <2> QED BY <1>1, <2>1, <2>2
<1>4. ASSUME NEW h \in Hosts, DeleteNode(h) \/ Resync(h) PROVE KubePaired'
  <2>1. kubeNodes[h].addrs \in AddressesOf[h]
    BY <1>4 DEF DeleteNode, Resync, PairInv, KubePaired
  <2> QED BY <1>1, <1>4, <2>1 DEF DeleteNode, Resync
<1>5. KubePaired' /\ NoWrite /\ UNCHANGED <<handling, job>>
  BY <1>2, <1>3, <1>4 DEF KubeStep, CreateNode, UpdateNode, DeleteNode, Resync
<1> QED BY <1>5, NoWritePairs DEF PairInv, MasterPaired

LEMMA RequestPairs ==
    ASSUME Orderly, TypeInv, PairInv, NEW r \in Requests, Request(r)
    PROVE  PairInv'
<1> DEFINE rec == HostSubnet(r.host, r.ip, NoSubnet, TRUE)
<1>1. r.key \in IPs /\ r.key = r.ip /\ r.host \in Hosts /\ rec \in W!Values
  BY MasterSubnetsAssumption, HostSubnetType, WatchSets DEF Orderly
<1>2. rec.data.ip = r.key /\ Paired(rec)
  <2>1. [host |-> r.host, ip |-> r.ip] \in Pairs
    BY <1>1 DEF Pairs
  <2> QED BY <1>1, <2>1 DEF Paired, HostSubnet
<1>3. Write(r.key, rec)
  BY DEF Request
<1> HIDE DEF rec
<1>4. WatchPaired'
  BY <1>1, <1>2, <1>3, WritePairs DEF TypeInv, PairInv
<1> QED BY <1>4 DEF Request, kubeVars, PairInv, KubePaired, MasterPaired

LEMMA OtherWritesPairs ==
    ASSUME TypeInv, PairInv, OtherWrites
    PROVE  PairInv'
<1>1. /\ UNCHANGED <<store, cache, batch, handling, kubeVars, job>>
      /\ \A i \in DOMAIN unseen' : \/ unseen'[i] = [key |-> Elsewhere, value |-> NoRecord]
                                   \/ \E j \in DOMAIN unseen : unseen'[i] = unseen[j]
  BY WatchSets, HappensYields DEF OtherWrites, W!WriteElsewhere, TypeInv, WatchType
<1>2. \A i \in DOMAIN unseen' : unseen'[i].value # NoRecord =>
                                  unseen'[i].value.data.ip = unseen'[i].key /\ Paired(unseen'[i].value)
  BY <1>1 DEF PairInv, WatchPaired
<1> QED BY <1>1, <1>2 DEF kubeVars, PairInv, WatchPaired, KubePaired, MasterPaired

(* A job for a pair. *)
LEMMA BeginPairs ==
    ASSUME TypeInv, PairInv, NEW g \in Goroutines, NEW j \in Jobs, JobPaired(j),
           job' = [job EXCEPT ![g] = j]
    PROVE  \A x \in Goroutines : JobPaired(job'[x])
BY DEF PairInv, MasterPaired, TypeInv, MasterType

LEMMA IdlePaired == Idle \in Jobs /\ JobPaired(Idle)
  BY DEF Idle, Jobs, JobPaired

LEMMA PopNodePairs ==
    ASSUME TypeInv, PairInv, NEW h \in Hosts, PopNode(h)
    PROVE  PairInv'
<1> DEFINE node == nodeDelta[h].node
           for == [host |-> h, ip |-> node.addrs[1], uid |-> node.uid]
<1>1. node \in NodeObjects /\ node.addrs \in AddressesOf[h]
  BY DeltaShape DEF PopNode, TypeInv, KubeType, PairInv, KubePaired
<1>2. for \in Target /\ [host |-> for.host, ip |-> for.ip] \in Pairs
  BY <1>1, NodeShape DEF Target, Pairs
<1>3. /\ nodeDelta' = [nodeDelta EXCEPT ![h] = NoDelta] /\ kubeNodes' = kubeNodes
      /\ handling' = handling /\ NoWrite
      /\ \/ job' = job
         \/ job' = [job EXCEPT !["nodes"] = [at |-> "get", for |-> for]]
         \/ job' = [job EXCEPT !["nodes"] = [at |-> "revoke", for |-> for]]
  BY DEF PopNode, Begin
<1> HIDE DEF for, node
<1>4. ASSUME NEW at \in {"get", "revoke"}
      PROVE  [at |-> at, for |-> for] \in Jobs /\ JobPaired([at |-> at, for |-> for])
  BY <1>2 DEF Jobs, JobPaired
<1>5. \A x \in Goroutines : JobPaired(job'[x])
  BY <1>3, <1>4, BeginPairs DEF Goroutines, PairInv, MasterPaired
<1>6. KubePaired'
  BY <1>3 DEF PairInv, KubePaired, TypeInv, KubeType, NoDelta
<1> QED BY <1>3, <1>5, <1>6, NoWritePairs DEF PairInv, MasterPaired

LEMMA DonePairs ==
    ASSUME TypeInv, PairInv, NEW g \in Goroutines, Succeed(g) \/ Fail(g)
    PROVE  \A x \in Goroutines : JobPaired(job'[x])
BY IdlePaired, BeginPairs DEF Succeed, Fail, Begin

LEMMA RevokePairs ==
    ASSUME TypeInv, PairInv, NEW g \in Goroutines, Revoke(g)
    PROVE  PairInv'
<1> DEFINE for == job[g].for
           next == [at |-> "get", for |-> for]
<1>1. for \in Target /\ for.ip \in IPs /\ NoRecord \in W!Values /\ job[g] # Idle
  BY JobShape, WatchSets DEF Revoke, TypeInv, MasterType, Target
<1>2. /\ Write(for.ip, NoRecord) \/ NoWrite
      /\ job' = [job EXCEPT ![g] = Idle] \/ job' = [job EXCEPT ![g] = next]
  BY DEF Revoke, Begin
<1>3. WatchPaired'
  BY <1>1, <1>2, WritePairs, NoWritePairs DEF TypeInv, PairInv
<1>4. next \in Jobs /\ JobPaired(next)
  BY <1>1 DEF PairInv, MasterPaired, JobPaired, Jobs
<1>5. \A x \in Goroutines : JobPaired(job'[x])
  <2> HIDE DEF next
  <2> QED BY <1>2, <1>4, IdlePaired, BeginPairs
<1> QED BY <1>3, <1>5 DEF Revoke, kubeVars, PairInv, KubePaired, MasterPaired

(* A record that addNode renews was asked for: it has no subnet. *)
LEMMA GetPairs ==
    ASSUME Orderly, TypeInv, PairInv, NEW g \in Goroutines, Get(g)
    PROVE  PairInv'
<1> DEFINE for == job[g].for
           rec == store[for.ip]
           renewal == HostSubnet(for.host, rec.data.ip, rec.data.subnet, FALSE)
           renewing == [at |-> "renew", for |-> for, record |-> renewal]
           acquiring == [at |-> "acquire", for |-> for, subnet |-> NextSubnet(sna, Place)]
<1>1. /\ for \in Target /\ for.ip \in IPs /\ for.host \in Hosts /\ job[g] # Idle
      /\ [host |-> for.host, ip |-> for.ip] \in Pairs
  BY JobShape DEF Get, TypeInv, MasterType, Target, PairInv, MasterPaired, JobPaired
<1>2. \/ Succeed(g) \/ Fail(g)
      \/ /\ rec # NoRecord /\ (rec.name # for.host \/ rec.data.assign)
         /\ job' = [job EXCEPT ![g] = renewing]
      \/ CanGet(sna, Place) /\ job' = [job EXCEPT ![g] = acquiring]
  BY DEF Get, Begin
<1>3. ASSUME rec # NoRecord, rec.name # for.host \/ rec.data.assign
      PROVE  renewing \in Jobs /\ JobPaired(renewing)
  <2>1. rec \in W!Records /\ rec.data.ip = for.ip /\ Paired(rec)
    BY <1>1, <1>3, WatchSets DEF TypeInv, WatchType, PairInv, WatchPaired
  <2>2. rec.name = for.host
    BY <1>1, <2>1 DEF Paired, Orderly
  <2>3. rec.data.subnet = NoSubnet
    BY <1>3, <2>1, <2>2 DEF Paired
  <2>4. renewal \in W!Records
    BY <1>1, <2>1, RecordShape, HostSubnetType
  <2>5. Paired(renewal) /\ renewal.data.subnet = NoSubnet
    BY <1>1, <2>1, <2>3 DEF HostSubnet, Paired
  <2> HIDE DEF renewal
  <2> QED BY <1>1, <2>4, <2>5 DEF Jobs, JobPaired
<1>4. CanGet(sna, Place) => acquiring \in Jobs /\ JobPaired(acquiring)
  BY <1>1, NextIsFree DEF Jobs, JobPaired, TypeInv, MasterType
<1>5. \A x \in Goroutines : JobPaired(job'[x])
  <2> HIDE DEF renewing, acquiring, rec
  <2> QED BY <1>2, <1>3, <1>4, DonePairs, BeginPairs
<1> QED BY <1>5, NoWritePairs DEF Get, kubeVars, PairInv, KubePaired, MasterPaired

LEMMA RenewPairs ==
    ASSUME TypeInv, PairInv, NEW g \in Goroutines, Renew(g)
    PROVE  PairInv'
<1> DEFINE rec == job[g].record
<1>1. rec \in W!Records /\ rec.data.ip \in IPs /\ rec \in W!Values /\ Paired(rec)
  BY JobShape, RecordShape, WatchSets DEF Renew, TypeInv, MasterType, PairInv, MasterPaired, JobPaired
<1>2. (Write(rec.data.ip, rec) \/ NoWrite) /\ (Succeed(g) \/ Fail(g))
  BY DEF Renew
<1>3. WatchPaired'
  BY <1>1, <1>2, WritePairs, NoWritePairs DEF TypeInv, PairInv
<1>4. \A x \in Goroutines : JobPaired(job'[x])
  BY <1>2, DonePairs
<1> QED BY <1>3, <1>4 DEF Renew, kubeVars, PairInv, KubePaired, MasterPaired

LEMMA AcquirePairs ==
    ASSUME TypeInv, PairInv, NEW g \in Goroutines, Acquire(g)
    PROVE  PairInv'
<1> DEFINE for == job[g].for
           rec == HostSubnet(for.host, for.ip, job[g].subnet, FALSE)
<1>1. /\ for.ip \in IPs /\ for.host \in Hosts /\ job[g].subnet \in Subnets /\ job[g] # Idle
      /\ [host |-> for.host, ip |-> for.ip] \in Pairs
  BY JobShape DEF Acquire, TypeInv, MasterType, Target, PairInv, MasterPaired, JobPaired
<1>2. rec \in W!Values /\ rec.data.ip = for.ip /\ Paired(rec)
  <2>1. rec \in W!Values
    BY <1>1, HostSubnetType, WatchSets
  <2> QED BY <1>1, <2>1 DEF HostSubnet, Paired
<1>3. (Write(for.ip, rec) \/ NoWrite) /\ (Succeed(g) \/ Fail(g))
  BY DEF Acquire
<1> HIDE DEF rec
<1>4. WatchPaired'
  BY <1>1, <1>2, <1>3, WritePairs, NoWritePairs DEF TypeInv, PairInv
<1>5. \A x \in Goroutines : JobPaired(job'[x])
  BY <1>3, DonePairs
<1> QED BY <1>4, <1>5 DEF Acquire, kubeVars, PairInv, KubePaired, MasterPaired

(* Two records of the store are not of the same host: the copy taken from it *)
(* has no name twice.                                                        *)
LEMMA WatchPairs ==
    ASSUME Orderly, TypeInv, PairInv, Watch
    PROVE  PairInv'
<1>1. CASE W!WatchReset
  <2>1. /\ unseen' = <<>> /\ UNCHANGED store
        /\ P!Announces(batch', cache, cache')
    BY <1>1, WatchResetYields DEF TypeInv
  <2>2. PICK s : P!Holds(cache', s)
    BY <1>1, WatchResetYields DEF TypeInv
  <2>3. \A i \in DOMAIN cache' : /\ i \in DOMAIN s /\ s[i] \in IPs /\ cache'[i] = store[s[i]]
                                 /\ cache'[i].data.ip = s[i] /\ Paired(cache'[i])
    <3>1. ASSUME NEW i \in DOMAIN cache'
          PROVE  i \in DOMAIN s /\ s[i] \in IPs /\ cache'[i] = store[s[i]] /\ store[s[i]] \in W!Records
      BY <2>2, WatchSets DEF P!Holds
    <3> QED BY <3>1, WatchSets DEF PairInv, WatchPaired
  <2>4. P!NamesDiffer(cache')
    <3> SUFFICES ASSUME NEW i \in DOMAIN cache', NEW j \in DOMAIN cache', cache'[i].name = cache'[j].name
                 PROVE  i = j
      BY DEF P!NamesDiffer
    <3> DEFINE p == [host |-> cache'[i].name, ip |-> s[i]]
               q == [host |-> cache'[j].name, ip |-> s[j]]
    <3>1. p \in Pairs /\ q \in Pairs /\ p.host = q.host
      BY <2>3 DEF Paired
    <3>2. s[i] = s[j]
      BY <3>1 DEF Orderly
    <3> QED BY <2>2, <2>3, <3>2 DEF P!Holds
  <2>5. EventsPaired(batch')
    <3> SUFFICES ASSUME NEW k \in DOMAIN batch' PROVE Paired(batch'[k].rec)
      BY DEF EventsPaired
    <3>1. CASE \E i \in DOMAIN cache' : batch'[k] = P!Added(cache'[i])
      BY <2>3, <3>1 DEF P!Added
    <3>2. CASE \E j \in DOMAIN cache : batch'[k] = P!Removed(cache[j])
      BY <3>2 DEF P!Removed, PairInv, WatchPaired
    <3> QED BY <2>1, <3>1, <3>2 DEF P!Announces
  <2>6. WatchPaired'
    <3>1. DOMAIN unseen' = {}
      BY <2>1
    <3> QED BY <2>1, <2>3, <2>4, <2>5, <3>1 DEF PairInv, WatchPaired
  <2> QED BY <2>6 DEF Watch, kubeVars, PairInv, KubePaired, MasterPaired
<1>2. CASE W!WatchEvent
  <2>1. /\ UNCHANGED store
        /\ \A i \in DOMAIN unseen' : \E j \in DOMAIN unseen : unseen'[i] = unseen[j]
    BY <1>2, WatchEventYields DEF TypeInv
  <2>2. PICK n \in DOMAIN unseen : P!Updates([cache |-> cache', batch |-> batch'], cache, unseen[n])
    BY <1>2, WatchEventYields DEF TypeInv
  <2>3. /\ \A k \in DOMAIN cache' : Paired(cache'[k])
        /\ P!NamesDiffer(cache') /\ EventsPaired(batch')
    <3> DEFINE r == unseen[n].value
    <3>1. CASE r = NoRecord
      <4>1. cache' = cache /\ \E x : batch' = <<P!Removed([name |-> x, data |-> NoData])>>
        BY <2>2, <3>1 DEF P!Updates
      <4> QED BY <4>1 DEF P!Removed, EventsPaired, PairInv, WatchPaired
    <3>2. CASE r # NoRecord
      <4>1. Paired(r)
        BY <3>2 DEF PairInv, WatchPaired
      <4>2. /\ batch' = <<P!Added(r)>>
            /\ \A k \in DOMAIN cache' : cache'[k] = r \/ \E j \in DOMAIN cache : cache'[k] = cache[j]
            /\ P!NamesDiffer(cache) => P!NamesDiffer(cache')
        BY <2>2, <3>2 DEF P!Updates
      <4> QED BY <4>1, <4>2 DEF P!Added, EventsPaired, PairInv, WatchPaired
    <3> QED BY <3>1, <3>2
  <2>4. WatchPaired'
    BY <2>1, <2>3 DEF PairInv, WatchPaired
  <2> QED BY <2>4 DEF Watch, kubeVars, PairInv, KubePaired, MasterPaired
<1> QED BY <1>1, <1>2 DEF Watch

LEMMA HandlerPairs ==
    ASSUME TypeInv, PairInv, TakeBatch \/ HandleEvent
    PROVE  PairInv'
<1>1. CASE TakeBatch
  BY <1>1 DEF TakeBatch, kubeVars, PairInv, WatchPaired, KubePaired, MasterPaired, EventsPaired
<1>2. CASE HandleEvent
  <2> DEFINE e == Head(handling)
             for == [host |-> e.rec.name, ip |-> e.rec.data.ip, uid |-> NoNode]
             j == [at |-> "revoke", for |-> for]
  <2>1. /\ handling \in Seq(W!Events) /\ e = handling[1] /\ 1 \in DOMAIN handling
        /\ \A i \in DOMAIN Tail(handling) : i + 1 \in DOMAIN handling /\ Tail(handling)[i] = handling[i + 1]
    BY <1>2, HeadTailProperties DEF HandleEvent, TypeInv, MasterType, Batches
  <2>2. EventsPaired(handling')
    BY <1>2, <2>1 DEF HandleEvent, EventsPaired, PairInv, MasterPaired
  <2>3. e.type = "Added" => j \in Jobs /\ JobPaired(j)
    <3>1. e.type = "Added" => e.rec \in W!Records
      BY <2>1 DEF TypeInv, MasterType, Batches
    <3>2. e.type = "Added" => Paired(e.rec)
      BY <2>1, <3>1, RecordShape DEF PairInv, MasterPaired, EventsPaired
    <3> QED BY <3>1, <3>2, RecordShape DEF Target, Jobs, JobPaired, Paired
  <2>4. \/ job' = job
        \/ e.type = "Added" /\ job' = [job EXCEPT !["subnets"] = j]
    BY <1>2 DEF HandleEvent, Begin
  <2> HIDE DEF e, j
  <2>5. \A x \in Goroutines : JobPaired(job'[x])
    BY <2>3, <2>4, BeginPairs DEF Goroutines, PairInv, MasterPaired
  <2> QED BY <1>2, <2>2, <2>5, NoWritePairs DEF HandleEvent, kubeVars, PairInv, KubePaired, MasterPaired
<1> QED BY <1>1, <1>2

LEMMA RestartPairs ==
    ASSUME TypeInv, PairInv, Restart
    PROVE  PairInv'
<1>1. WatchPaired'
  BY DEF Restart, PairInv, WatchPaired, EventsPaired, P!NamesDiffer
<1>2. KubePaired'
  BY DEF Restart, PairInv, KubePaired, NoDelta
<1>3. MasterPaired'
  BY IdlePaired DEF Restart, MasterPaired, EventsPaired
<1> QED BY <1>1, <1>2, <1>3 DEF PairInv

LEMMA PairInit == Init => PairInv
<1> SUFFICES ASSUME Init PROVE PairInv
  OBVIOUS
<1>1. WatchPaired
  BY DEF Init, WatchPaired, EventsPaired, P!NamesDiffer
<1>2. KubePaired /\ MasterPaired
  BY IdlePaired DEF Init, KubePaired, NoDelta, MasterPaired, EventsPaired
<1> QED BY <1>1, <1>2 DEF PairInv

LEMMA PairStep ==
    ASSUME Orderly, TypeInv, PairInv, [Next]_vars
    PROVE  PairInv'
<1>1. ASSUME NEW g \in Goroutines, Call(g) PROVE PairInv'
  BY <1>1, RevokePairs, GetPairs, RenewPairs, AcquirePairs DEF Call
<1>2. ASSUME UNCHANGED vars PROVE PairInv'
  BY <1>2 DEF vars, watchVars, kubeVars, PairInv, WatchPaired, KubePaired, MasterPaired
<1> QED
  BY <1>1, <1>2, KubeStepPairs, RequestPairs, OtherWritesPairs, PopNodePairs, WatchPairs,
     HandlerPairs, RestartPairs DEF Next

-----------------------------------------------------------------------------
(* Who has a subnet. *)

(* The record of an address holds the subnet: in etcd, in an event that the *)
(* watch has not seen yet, or in its copy.  The copy may be out of date, but *)
(* it is what tells a removed record's subnet.                               *)
Holding(r, ip, s) == r.data.ip = ip /\ r.data.subnet = s
Claim(ip, s) ==
    \/ store[ip] # NoRecord /\ store[ip].data.subnet = s
    \/ \E i \in DOMAIN unseen : unseen[i].value # NoRecord /\ Holding(unseen[i].value, ip, s)
    \/ \E i \in DOMAIN cache : Holding(cache[i], ip, s)

(* A goroutine was given it and has yet to create the record. *)
Getting(g, s) == job[g].at = "acquire" /\ job[g].subnet = s

(* An event will give it back to the allocator. *)
Returns(e, s) == e.type = "Removed" /\ e.rec.data # NoData /\ e.rec.data.subnet = s
Waits(b, s)   == \E i \in DOMAIN b : Returns(b[i], s)
Pending(s)    == Waits(handling, s) \/ Waits(batch, s)

OneWaits(b, s) == \A i, j \in DOMAIN b : Returns(b[i], s) /\ Returns(b[j], s) => i = j
OnePending(s)  == /\ OneWaits(handling, s) /\ OneWaits(batch, s)
                  /\ ~ (Waits(handling, s) /\ Waits(batch, s))

(* An allocated subnet has one owner at most: the record of one address, a    *)
(* goroutine about to create one, or one event about to return it.  A subnet  *)
(* that has an owner is allocated.                                            *)
OneOwner(s) ==
    /\ \A a, b \in IPs : Claim(a, s) /\ Claim(b, s) => a = b
    /\ (\E a \in IPs : Claim(a, s)) =>
         s \in sna.allocated /\ ~ Pending(s) /\ \A g \in Goroutines : ~ Getting(g, s)
    /\ \A g \in Goroutines : Getting(g, s) =>
         s \in sna.allocated /\ ~ Pending(s) /\ \A x \in Goroutines : Getting(x, s) => x = g
    /\ Pending(s) => s \in sna.allocated /\ OnePending(s)

SubnetInv == \A s \in Subnets : OneOwner(s)

(* Nothing takes the subnet, nothing frees it. *)
LEMMA NothingTakes ==
    ASSUME NEW s \in Subnets, OneOwner(s),
           \A a \in IPs : Claim(a, s)' => Claim(a, s),
           \A g \in Goroutines : Getting(g, s)' => Getting(g, s),
           Pending(s)' => Pending(s) /\ (OnePending(s) => OnePending(s)'),
           s \in sna.allocated => s \in sna'.allocated
    PROVE  OneOwner(s)'
BY DEF OneOwner

LEMMA SameEvents ==
    ASSUME NEW s, UNCHANGED <<handling, batch>>
    PROVE  Pending(s)' = Pending(s) /\ OnePending(s)' = OnePending(s)
BY DEF Pending, OnePending, Waits, OneWaits

(* A write claims what it writes. *)
LEMMA WriteClaims ==
    ASSUME WatchType, NEW key \in IPs, NEW value \in W!Values, Write(key, value),
           value # NoRecord => value.data.ip = key
    PROVE  /\ \A a \in IPs : \A s \in Subnets :
                 Claim(a, s)' => \/ Claim(a, s)
                                 \/ value # NoRecord /\ value.data.subnet = s /\ a = key
           /\ UNCHANGED batch
<1>1. /\ UNCHANGED <<cache, batch>> /\ store' = [store EXCEPT ![key] = value]
      /\ \A i \in DOMAIN unseen' : \/ unseen'[i] = [key |-> key, value |-> value]
                                   \/ \E j \in DOMAIN unseen : unseen'[i] = unseen[j]
  BY WriteYields
<1> SUFFICES ASSUME NEW a \in IPs, NEW s \in Subnets, Claim(a, s)'
             PROVE  \/ Claim(a, s)
                    \/ value # NoRecord /\ value.data.subnet = s /\ a = key
  BY <1>1
<1>2. CASE store'[a] # NoRecord /\ store'[a].data.subnet = s
  BY <1>1, <1>2 DEF Claim, WatchType
<1>3. CASE \E i \in DOMAIN unseen' : unseen'[i].value # NoRecord /\ Holding(unseen'[i].value, a, s)
  BY <1>1, <1>3 DEF Claim, Holding
<1>4. CASE \E i \in DOMAIN cache' : Holding(cache'[i], a, s)
  BY <1>1, <1>4 DEF Claim
<1> QED BY <1>2, <1>3, <1>4 DEF Claim

LEMMA NoWriteClaims ==
    ASSUME NoWrite
    PROVE  UNCHANGED batch /\ \A a, s : Claim(a, s)' = Claim(a, s)
BY DEF NoWrite, watchVars, Claim

(* A goroutine that goes on to anything but the creation of a record, gets *)
(* no subnet.                                                              *)
LEMMA JobGets ==
    ASSUME TypeInv, NEW g \in Goroutines, NEW j, j.at # "acquire", job' = [job EXCEPT ![g] = j]
    PROVE  \A x \in Goroutines : \A s : Getting(x, s)' => x # g /\ Getting(x, s)
BY DEF Getting, TypeInv, MasterType

LEMMA DoneGets ==
    ASSUME TypeInv, NEW g \in Goroutines, Succeed(g) \/ Fail(g)
    PROVE  \A x \in Goroutines : \A s : Getting(x, s)' => x # g /\ Getting(x, s)
<1>1. Idle.at # "acquire" /\ job' = [job EXCEPT ![g] = Idle]
  BY DEF Succeed, Fail, Begin, Idle
<1> QED BY <1>1, JobGets

-----------------------------------------------------------------------------
(* Every subnet has one owner at most. *)

LEMMA KubeStepOwners ==
    ASSUME TypeInv, SubnetInv, KubeStep
    PROVE  SubnetInv'
<1>1. NoWrite /\ UNCHANGED <<handling, sna, job>>
  BY DEF KubeStep, CreateNode, UpdateNode, DeleteNode, Resync
<1>2. ASSUME NEW s \in Subnets PROVE OneOwner(s)'
  <2>1. \A g \in Goroutines : Getting(g, s)' => Getting(g, s)
    BY <1>1 DEF Getting
  <2> QED BY <1>1, <2>1, NoWriteClaims, SameEvents, NothingTakes DEF SubnetInv
<1> QED BY <1>2 DEF SubnetInv

(* A request claims no subnet. *)
LEMMA RequestOwners ==
    ASSUME Orderly, TypeInv, SubnetInv, NEW r \in Requests, Request(r)
    PROVE  SubnetInv'
<1> DEFINE rec == HostSubnet(r.host, r.ip, NoSubnet, TRUE)
<1>1. r.key \in IPs /\ rec \in W!Values /\ rec.data.ip = r.key /\ rec.data.subnet = NoSubnet
  BY MasterSubnetsAssumption, HostSubnetType, WatchSets DEF HostSubnet, Orderly
<1>2. Write(r.key, rec) /\ UNCHANGED <<handling, sna, job>>
  BY DEF Request
<1> HIDE DEF rec
<1>3. ASSUME NEW s \in Subnets PROVE OneOwner(s)'
  <2>1. s # NoSubnet
    BY MasterSubnetsAssumption DEF Subnets
  <2>2. UNCHANGED batch /\ \A a \in IPs : Claim(a, s)' => Claim(a, s)
    BY <1>1, <1>2, <2>1, WriteClaims DEF TypeInv
  <2>3. \A g \in Goroutines : Getting(g, s)' => Getting(g, s)
    BY <1>2 DEF Getting
  <2> QED BY <1>2, <2>2, <2>3, SameEvents, NothingTakes DEF SubnetInv
<1> QED BY <1>3 DEF SubnetInv

LEMMA OtherWritesOwners ==
    ASSUME TypeInv, SubnetInv, OtherWrites
    PROVE  SubnetInv'
<1>1. /\ UNCHANGED <<store, cache, batch, handling, sna, job>>
      /\ \A i \in DOMAIN unseen' : \/ unseen'[i] = [key |-> Elsewhere, value |-> NoRecord]
                                   \/ \E j \in DOMAIN unseen : unseen'[i] = unseen[j]
  BY WatchSets, HappensYields DEF OtherWrites, W!WriteElsewhere, TypeInv, WatchType
<1>2. ASSUME NEW s \in Subnets PROVE OneOwner(s)'
  <2>1. \A a \in IPs : Claim(a, s)' => Claim(a, s)
    BY <1>1 DEF Claim
  <2>2. \A g \in Goroutines : Getting(g, s)' => Getting(g, s)
    BY <1>1 DEF Getting
  <2> QED BY <1>1, <2>1, <2>2, SameEvents, NothingTakes DEF SubnetInv
<1> QED BY <1>2 DEF SubnetInv

LEMMA PopNodeOwners ==
    ASSUME TypeInv, SubnetInv, NEW h \in Hosts, PopNode(h)
    PROVE  SubnetInv'
<1>1. /\ NoWrite /\ UNCHANGED <<handling, sna>>
      /\ job' = job \/ \E j : j.at # "acquire" /\ job' = [job EXCEPT !["nodes"] = j]
  BY DEF PopNode, Begin
<1>2. ASSUME NEW s \in Subnets PROVE OneOwner(s)'
  <2>1. \A g \in Goroutines : Getting(g, s)' => Getting(g, s)
    BY <1>1, JobGets DEF Getting, Goroutines
  <2> QED BY <1>1, <2>1, NoWriteClaims, SameEvents, NothingTakes DEF SubnetInv
<1> QED BY <1>2 DEF SubnetInv

LEMMA RevokeOwners ==
    ASSUME TypeInv, SubnetInv, NEW g \in Goroutines, Revoke(g)
    PROVE  SubnetInv'
<1> DEFINE ip == job[g].for.ip
<1>1. ip \in IPs /\ NoRecord \in W!Values
  BY JobShape, WatchSets DEF Revoke, TypeInv, MasterType, Target
<1>2. /\ Write(ip, NoRecord) \/ NoWrite
      /\ UNCHANGED <<handling, sna>>
      /\ \E j : j.at # "acquire" /\ job' = [job EXCEPT ![g] = j]
  BY DEF Revoke, Begin, Idle
<1>3. ASSUME NEW s \in Subnets PROVE OneOwner(s)'
  <2>1. UNCHANGED batch /\ \A a \in IPs : Claim(a, s)' => Claim(a, s)
    BY <1>1, <1>2, WriteClaims, NoWriteClaims DEF TypeInv
  <2>2. \A x \in Goroutines : Getting(x, s)' => Getting(x, s)
    BY <1>2, JobGets
  <2> QED BY <1>2, <2>1, <2>2, SameEvents, NothingTakes DEF SubnetInv
<1> QED BY <1>3 DEF SubnetInv

(* A renewed record has no subnet. *)
LEMMA RenewOwners ==
    ASSUME TypeInv, PairInv, SubnetInv, NEW g \in Goroutines, Renew(g)
    PROVE  SubnetInv'
<1> DEFINE rec == job[g].record
<1>1. rec \in W!Records /\ rec.data.ip \in IPs /\ rec \in W!Values /\ rec.data.subnet = NoSubnet
  BY JobShape, RecordShape, WatchSets DEF Renew, TypeInv, MasterType, PairInv, MasterPaired, JobPaired
<1>2. /\ Write(rec.data.ip, rec) \/ NoWrite
      /\ Succeed(g) \/ Fail(g)
      /\ UNCHANGED <<handling, sna>>
  BY DEF Renew
<1>3. ASSUME NEW s \in Subnets PROVE OneOwner(s)'
  <2>1. s # NoSubnet
    BY MasterSubnetsAssumption DEF Subnets
  <2>2. UNCHANGED batch /\ \A a \in IPs : Claim(a, s)' => Claim(a, s)
    BY <1>1, <1>2, <2>1, WriteClaims, NoWriteClaims DEF TypeInv
  <2>3. \A x \in Goroutines : Getting(x, s)' => Getting(x, s)
    BY <1>2, DoneGets
  <2> QED BY <1>2, <2>2, <2>3, SameEvents, NothingTakes DEF SubnetInv
<1> QED BY <1>3 DEF SubnetInv

(* GetNetwork finds a subnet that nobody has. *)
LEMMA GetOwners ==
    ASSUME TypeInv, SubnetInv, NEW g \in Goroutines, Get(g)
    PROVE  SubnetInv'
<1> DEFINE n == NextSubnet(sna, Place)
           j == [at |-> "acquire", for |-> job[g].for, subnet |-> n]
<1>1. /\ NoWrite /\ UNCHANGED handling
      /\ \/ /\ sna' = sna \/ (sna' = GetNetwork(sna, Place) /\ ~ CanGet(sna, Place))
            /\ \/ Succeed(g) \/ Fail(g)
               \/ \E x : x.at # "acquire" /\ job' = [job EXCEPT ![g] = x]
         \/ /\ sna' = GetNetwork(sna, Place) /\ CanGet(sna, Place)
            /\ job' = [job EXCEPT ![g] = j]
  BY DEF Get, Begin
<1> HIDE DEF j, n
<1>2. ASSUME NEW s \in Subnets PROVE OneOwner(s)'
  <2>1. /\ UNCHANGED batch /\ \A a \in IPs : Claim(a, s)' = Claim(a, s)
        /\ Pending(s)' = Pending(s) /\ OnePending(s)' = OnePending(s)
    BY <1>1, NoWriteClaims, SameEvents
  <2>2. CASE /\ sna' = sna \/ (sna' = GetNetwork(sna, Place) /\ ~ CanGet(sna, Place))
             /\ \/ Succeed(g) \/ Fail(g)
                \/ \E x : x.at # "acquire" /\ job' = [job EXCEPT ![g] = x]
    <3>1. \A x \in Goroutines : Getting(x, s)' => Getting(x, s)
      BY <2>2, DoneGets, JobGets
    <3>2. s \in sna.allocated => s \in sna'.allocated
      BY <2>2, GetYields DEF TypeInv, MasterType
    <3> QED BY <2>1, <3>1, <3>2, NothingTakes DEF SubnetInv
  <2>3. CASE /\ sna' = GetNetwork(sna, Place) /\ CanGet(sna, Place)
             /\ job' = [job EXCEPT ![g] = j]
    <3>1. sna'.allocated = sna.allocated \cup {n} /\ n \in Subnets \ sna.allocated
      BY <2>3, GetYields, NextIsFree DEF TypeInv, MasterType, n
    <3>2. \A x \in Goroutines : Getting(x, s)' => Getting(x, s) \/ (x = g /\ s = n)
      BY <2>3 DEF Getting, TypeInv, MasterType, j
    <3>3. CASE s = n
      <4>1. ~ Pending(s) /\ (\A a \in IPs : ~ Claim(a, s)) /\ \A x \in Goroutines : ~ Getting(x, s)
        BY <3>1, <3>3 DEF SubnetInv, OneOwner
      <4>2. s \in sna'.allocated
        BY <3>1, <3>3
      <4> QED BY <2>1, <3>2, <4>1, <4>2 DEF OneOwner
    <3>4. CASE s # n
      BY <2>1, <3>1, <3>2, <3>4, NothingTakes DEF SubnetInv
    <3> QED BY <3>3, <3>4
  <2> QED BY <1>1, <2>2, <2>3
<1> QED BY <1>2 DEF SubnetInv

(* A created record takes the subnet over from the goroutine; one that is *)
(* not created leaves it without an owner.                                *)
LEMMA AcquireOwners ==
    ASSUME "lost" \notin EtcdFaults, TypeInv, SubnetInv, NEW g \in Goroutines, Acquire(g)
    PROVE  SubnetInv'
<1> DEFINE for == job[g].for
           n == job[g].subnet
           rec == HostSubnet(for.host, for.ip, n, FALSE)
<1>1. for.ip \in IPs /\ for.host \in Hosts /\ n \in Subnets
  BY JobShape DEF Acquire, TypeInv, MasterType, Target
<1>2. rec \in W!Values /\ rec.data.ip = for.ip /\ rec.data.subnet = n
  <2>1. rec \in W!Values
    BY <1>1, HostSubnetType, WatchSets
  <2> QED BY <2>1 DEF HostSubnet
<1>3. /\ UNCHANGED handling /\ Getting(g, n) /\ (Succeed(g) \/ Fail(g))
      /\ \/ Write(for.ip, rec) /\ UNCHANGED sna
         \/ NoWrite /\ sna' = ReleaseNetwork(sna, n)
  BY DEF Acquire, Getting
<1> HIDE DEF rec
<1>4. ASSUME NEW s \in Subnets PROVE OneOwner(s)'
  <2>1. \A x \in Goroutines : Getting(x, s)' => x # g /\ Getting(x, s)
    BY <1>3, DoneGets
  <2>2. s = n => /\ s \in sna.allocated /\ ~ Pending(s) /\ \A a \in IPs : ~ Claim(a, s)
                 /\ \A x \in Goroutines : ~ Getting(x, s)'
    BY <1>3, <2>1 DEF SubnetInv, OneOwner
  <2>3. CASE Write(for.ip, rec) /\ UNCHANGED sna
    <3>1. UNCHANGED batch /\ \A a \in IPs : Claim(a, s)' => Claim(a, s) \/ (s = n /\ a = for.ip)
      BY <1>1, <1>2, <2>3, WriteClaims DEF TypeInv
    <3>2. CASE s = n
      <4>1. ~ Pending(s)'
        BY <1>3, <2>2, <3>1, <3>2, SameEvents
      <4>2. \A a \in IPs : Claim(a, s)' => a = for.ip
        BY <2>2, <3>1, <3>2
      <4> QED BY <2>2, <2>3, <3>2, <4>1, <4>2 DEF OneOwner
    <3>3. CASE s # n
      BY <1>3, <2>1, <2>3, <3>1, <3>3, SameEvents, NothingTakes DEF SubnetInv
    <3> QED BY <3>2, <3>3
  <2>4. CASE NoWrite /\ sna' = ReleaseNetwork(sna, n)
    <3>1. /\ UNCHANGED batch /\ \A a \in IPs : Claim(a, s)' = Claim(a, s)
          /\ sna'.allocated = sna.allocated \ {n}
      BY <2>4, NoWriteClaims, ReleaseYields DEF TypeInv, MasterType
    <3>2. CASE s = n
      <4>1. ~ Pending(s)'
        BY <1>3, <2>2, <3>1, <3>2, SameEvents
      <4> QED BY <2>2, <3>1, <3>2, <4>1 DEF OneOwner
    <3>3. CASE s # n
      BY <1>3, <2>1, <3>1, <3>3, SameEvents, NothingTakes DEF SubnetInv
    <3> QED BY <3>2, <3>3
  <2> QED BY <1>3, <2>3, <2>4
<1> QED BY <1>4 DEF SubnetInv

(* A snapshot turns the copy's claim on a subnet into the event that returns *)
(* it, once, if the record is gone; what it puts into the copy is in etcd.   *)
LEMMA WatchResetOwners ==
    ASSUME Orderly, TypeInv, PairInv, SubnetInv, W!WatchReset, UNCHANGED <<handling, sna, job>>
    PROVE  SubnetInv'
<1>1. /\ unseen' = <<>> /\ UNCHANGED store /\ batch = <<>>
      /\ P!Announces(batch', cache, cache')
  BY WatchResetYields DEF TypeInv
<1>2. PICK keys : P!Holds(cache', keys)
  BY WatchResetYields DEF TypeInv
<1>3. \A i \in DOMAIN cache' : /\ i \in DOMAIN keys /\ keys[i] \in IPs /\ cache'[i] = store[keys[i]]
                               /\ store[keys[i]] # NoRecord /\ cache'[i].data.ip = keys[i]
  <2>1. ASSUME NEW i \in DOMAIN cache'
        PROVE  /\ i \in DOMAIN keys /\ keys[i] \in IPs /\ cache'[i] = store[keys[i]]
               /\ store[keys[i]] \in W!Records
    BY <1>2, WatchSets DEF P!Holds
  <2> QED BY <2>1, WatchSets DEF PairInv, WatchPaired
<1>4. ASSUME NEW s \in Subnets PROVE OneOwner(s)'
  <2>1. \A g \in Goroutines : Getting(g, s)' = Getting(g, s)
    BY DEF Getting
  <2>2. \A a \in IPs : Claim(a, s)' => store[a] # NoRecord /\ store[a].data.subnet = s
    <3>1. DOMAIN unseen' = {}
      BY <1>1
    <3> QED BY <1>1, <1>3, <3>1 DEF Claim, Holding
  <2>3. \A a \in IPs : Claim(a, s)' => Claim(a, s)
    BY <2>2 DEF Claim
  <2>4. CASE ~ Waits(batch', s)
    <3>1. Pending(s)' => Pending(s)
      BY <2>4 DEF Pending, Waits
    <3>2. OnePending(s) => OnePending(s)'
      BY <2>4 DEF OnePending, Waits, OneWaits
    <3> QED BY <2>1, <2>3, <3>1, <3>2, NothingTakes DEF SubnetInv
  <2>5. CASE Waits(batch', s)
    <3>1. \A k \in DOMAIN batch' : Returns(batch'[k], s) =>
             \E j \in DOMAIN cache : /\ batch'[k].rec = cache[j] /\ Paired(cache[j])
                                     /\ cache[j].data.ip \in IPs /\ Claim(cache[j].data.ip, s)
      <4> SUFFICES ASSUME NEW k \in DOMAIN batch', Returns(batch'[k], s)
                   PROVE  \E j \in DOMAIN cache : /\ batch'[k].rec = cache[j] /\ Paired(cache[j])
                                                  /\ cache[j].data.ip \in IPs /\ Claim(cache[j].data.ip, s)
        OBVIOUS
      <4>1. PICK j \in DOMAIN cache : batch'[k] = P!Removed(cache[j])
        BY <1>1 DEF P!Announces, P!Added, Returns
      <4>2. batch'[k].rec = cache[j] /\ Paired(cache[j]) /\ cache[j] \in W!Records
        BY <4>1 DEF P!Removed, PairInv, WatchPaired, TypeInv, WatchType
      <4>3. Claim(cache[j].data.ip, s)
        BY <4>2 DEF Returns, Claim, Holding
      <4> QED BY <4>2, <4>3, RecordShape
    <3>2. PICK k \in DOMAIN batch' : Returns(batch'[k], s)
      BY <2>5 DEF Waits
    <3>3. PICK j \in DOMAIN cache : /\ batch'[k].rec = cache[j] /\ Paired(cache[j])
                                    /\ cache[j].data.ip \in IPs /\ Claim(cache[j].data.ip, s)
      BY <3>1, <3>2
    <3>4. /\ s \in sna.allocated /\ ~ Pending(s) /\ \A g \in Goroutines : ~ Getting(g, s)
          /\ \A a, b \in IPs : Claim(a, s) /\ Claim(b, s) => a = b
      BY <3>3 DEF SubnetInv, OneOwner
    <3>5. \A a \in IPs : ~ Claim(a, s)'
      <4> SUFFICES ASSUME NEW a \in IPs, Claim(a, s)' PROVE FALSE
        OBVIOUS
      <4>1. a = cache[j].data.ip /\ store[a] # NoRecord
        BY <2>2, <2>3, <3>3, <3>4
      <4>2. store[a].data.ip = a /\ Paired(store[a]) /\ store[a] \in W!Records
        BY <4>1, WatchSets DEF PairInv, WatchPaired, TypeInv, WatchType
      <4>3. store[a].name = cache[j].name
        <5> DEFINE p == [host |-> store[a].name, ip |-> a]
                   q == [host |-> cache[j].name, ip |-> a]
        <5>1. p \in Pairs /\ q \in Pairs /\ p.ip = q.ip
          BY <3>3, <4>1, <4>2 DEF Paired
        <5> QED BY <5>1 DEF Orderly
      <4>4. PICK i \in DOMAIN keys : keys[i] = a
        BY <1>2, <4>2, WatchSets DEF P!Holds
      <4>5. i \in DOMAIN cache' /\ cache'[i] = store[a]
        BY <1>2, <4>4 DEF P!Holds
      <4>6. batch'[k].type = "Removed" /\ P!NamesDiffer(cache)
        BY <3>2 DEF Returns, PairInv, WatchPaired
      <4>7. \A l \in DOMAIN cache' : cache'[l].name # batch'[k].rec.name
        BY <1>1, <4>6 DEF P!Announces
      <4> QED BY <3>3, <4>3, <4>5, <4>7
    <3>6. OneWaits(batch', s)
      <4> SUFFICES ASSUME NEW l \in DOMAIN batch', Returns(batch'[l], s),
                          NEW m \in DOMAIN batch', Returns(batch'[m], s)
                   PROVE  l = m
        BY DEF OneWaits
      <4>1. PICK x \in DOMAIN cache : /\ batch'[l].rec = cache[x] /\ Paired(cache[x])
                                      /\ cache[x].data.ip \in IPs /\ Claim(cache[x].data.ip, s)
        BY <3>1
      <4>2. PICK y \in DOMAIN cache : /\ batch'[m].rec = cache[y] /\ Paired(cache[y])
                                      /\ cache[y].data.ip \in IPs /\ Claim(cache[y].data.ip, s)
        BY <3>1
      <4>3. cache[x].name = cache[y].name
        <5> DEFINE p == [host |-> cache[x].name, ip |-> cache[x].data.ip]
                   q == [host |-> cache[y].name, ip |-> cache[y].data.ip]
        <5>1. p \in Pairs /\ q \in Pairs /\ p.ip = q.ip
          BY <3>4, <4>1, <4>2 DEF Paired
        <5> QED BY <5>1 DEF Orderly
      <4>4. P!NamesDiffer(cache) /\ batch'[l].type = "Removed" /\ batch'[m].type = "Removed"
        BY DEF Returns, PairInv, WatchPaired
      <4> QED BY <1>1, <4>1, <4>2, <4>3, <4>4 DEF P!Announces
    <3>7. OnePending(s)'
      <4>1. ~ Waits(handling, s)
        BY <3>4 DEF Pending
      <4> QED BY <3>6, <4>1 DEF OnePending, Waits, OneWaits
    <3> QED BY <2>1, <3>4, <3>5, <3>7 DEF OneOwner
  <2> QED BY <2>4, <2>5
<1> QED BY <1>4 DEF SubnetInv

(* One event keeps every claim it moves into the copy. *)
LEMMA WatchEventOwners ==
    ASSUME TypeInv, SubnetInv, W!WatchEvent, UNCHANGED <<handling, sna, job>>
    PROVE  SubnetInv'
<1>1. /\ UNCHANGED store /\ batch = <<>>
      /\ \A i \in DOMAIN unseen' : \E j \in DOMAIN unseen : unseen'[i] = unseen[j]
  BY WatchEventYields DEF TypeInv
<1>2. PICK n \in DOMAIN unseen : P!Updates([cache |-> cache', batch |-> batch'], cache, unseen[n])
  BY WatchEventYields DEF TypeInv
<1> DEFINE r == unseen[n].value
<1>3. /\ \A k \in DOMAIN cache' : \/ r # NoRecord /\ cache'[k] = r
                                  \/ \E j \in DOMAIN cache : cache'[k] = cache[j]
      /\ \A s : ~ Waits(batch', s)
  <2>1. CASE r = NoRecord
    <3>1. cache' = cache /\ \E x : batch' = <<P!Removed([name |-> x, data |-> NoData])>>
      BY <1>2, <2>1 DEF P!Updates
    <3> QED BY <3>1 DEF P!Removed, Waits, Returns
  <2>2. CASE r # NoRecord
    <3>1. /\ batch' = <<P!Added(r)>>
          /\ \A k \in DOMAIN cache' : cache'[k] = r \/ \E j \in DOMAIN cache : cache'[k] = cache[j]
      BY <1>2, <2>2 DEF P!Updates
    <3> QED BY <2>2, <3>1 DEF P!Added, Waits, Returns
  <2> QED BY <2>1, <2>2
<1> HIDE DEF r
<1>4. ASSUME NEW s \in Subnets PROVE OneOwner(s)'
  <2>1. \A a \in IPs : Claim(a, s)' => Claim(a, s)
    BY <1>1, <1>3 DEF Claim, r
  <2>2. Pending(s)' => Pending(s)
    BY <1>3 DEF Pending, Waits
  <2>3. OnePending(s) => OnePending(s)'
    BY <1>3 DEF OnePending, Waits, OneWaits
  <2>4. \A g \in Goroutines : Getting(g, s)' => Getting(g, s)
    BY DEF Getting
  <2> QED BY <2>1, <2>2, <2>3, <2>4, NothingTakes DEF SubnetInv
<1> QED BY <1>4 DEF SubnetInv

(* The handler takes the batch over, and gives back the subnet of an event *)
(* that nobody else has.                                                   *)
LEMMA HandlerOwners ==
    ASSUME TypeInv, PairInv, SubnetInv, TakeBatch \/ HandleEvent
    PROVE  SubnetInv'
<1>1. CASE TakeBatch
  <2>1. /\ handling = <<>> /\ handling' = batch /\ batch' = <<>>
        /\ UNCHANGED <<store, unseen, cache, sna, job>>
    BY <1>1 DEF TakeBatch
  <2>2. ASSUME NEW s \in Subnets PROVE OneOwner(s)'
    <3>1. Pending(s)' => Pending(s)
      BY <2>1 DEF Pending, Waits
    <3>2. OnePending(s) => OnePending(s)'
      BY <2>1 DEF OnePending, Waits, OneWaits
    <3>3. (\A a \in IPs : Claim(a, s)' => Claim(a, s)) /\ \A g \in Goroutines : Getting(g, s)' => Getting(g, s)
      BY <2>1 DEF Claim, Getting
    <3> QED BY <2>1, <3>1, <3>2, <3>3, NothingTakes DEF SubnetInv
  <2> QED BY <2>2 DEF SubnetInv
<1>2. CASE HandleEvent
  <2> DEFINE e == Head(handling)
             n == e.rec.data.subnet
  <2>1. /\ e = handling[1] /\ 1 \in DOMAIN handling
        /\ \A i \in DOMAIN handling' : i + 1 \in DOMAIN handling /\ handling'[i] = handling[i + 1]
        /\ \A i \in DOMAIN handling' : i \in Nat \ {0}
    BY <1>2, HeadTailProperties DEF HandleEvent, TypeInv, MasterType, Batches
  <2>2. /\ NoWrite
        /\ job' = job \/ \E j : j.at # "acquire" /\ job' = [job EXCEPT !["subnets"] = j]
        /\ \/ sna' = sna
           \/ e.type = "Removed" /\ e.rec.data # NoData /\ sna' = ReleaseNetwork(sna, n)
    BY <1>2 DEF HandleEvent, Begin
  <2> HIDE DEF e, n
  <2>3. ASSUME NEW s \in Subnets PROVE OneOwner(s)'
    <3>1. UNCHANGED batch /\ \A a \in IPs : Claim(a, s)' = Claim(a, s)
      BY <2>2, NoWriteClaims
    <3>2. \A g \in Goroutines : Getting(g, s)' => Getting(g, s)
      BY <2>2, JobGets DEF Getting, Goroutines
    <3>3. Waits(handling', s) => \E i \in DOMAIN handling : i # 1 /\ Returns(handling[i], s)
      BY <2>1 DEF Waits
    <3>4. Pending(s)' => Pending(s)
      BY <3>1, <3>3 DEF Pending, Waits
    <3>5. OnePending(s) => OnePending(s)'
      <4>1. OneWaits(handling, s) => OneWaits(handling', s)
        BY <2>1 DEF OneWaits
      <4>2. Waits(handling', s) => Waits(handling, s)
        BY <3>3 DEF Waits
      <4> QED BY <3>1, <4>1, <4>2 DEF OnePending, Waits, OneWaits
    <3>6. CASE s \in sna.allocated => s \in sna'.allocated
      BY <3>1, <3>2, <3>4, <3>5, <3>6, NothingTakes DEF SubnetInv
    <3>7. CASE ~ (s \in sna.allocated => s \in sna'.allocated)
      <4>1. s = n /\ e.type = "Removed" /\ e.rec.data # NoData
        BY <2>2, <3>7, ReleaseYields DEF TypeInv, MasterType
      <4>2. Returns(handling[1], s)
        BY <2>1, <4>1 DEF Returns, n
      <4>3. Waits(handling, s) /\ Pending(s)
        BY <2>1, <4>2 DEF Waits, Pending
      <4>4. /\ OnePending(s) /\ (\A a \in IPs : ~ Claim(a, s)) /\ \A g \in Goroutines : ~ Getting(g, s)
        BY <4>3 DEF SubnetInv, OneOwner
      <4>5. ~ Pending(s)'
        BY <2>1, <3>1, <3>3, <4>2, <4>3, <4>4 DEF OnePending, OneWaits, Pending, Waits
      <4> QED BY <3>1, <3>2, <4>4, <4>5 DEF OneOwner
    <3> QED BY <3>6, <3>7
  <2> QED BY <2>3 DEF SubnetInv
<1> QED BY <1>1, <1>2

(* A master that starts again reads from the records who has what. *)
LEMMA RestartOwners ==
    ASSUME TypeInv, SubnetInv, Restart
    PROVE  SubnetInv'
<1>1. /\ unseen' = <<>> /\ cache' = <<>> /\ batch' = <<>> /\ handling' = <<>> /\ UNCHANGED store
      /\ sna'.allocated = Recorded /\ \A g \in Goroutines : job'[g].at = "idle"
  BY RecordedSubnets, NewYields DEF Restart, TypeInv, Idle
<1>2. ASSUME NEW s \in Subnets PROVE OneOwner(s)'
  <2>1. \A a \in IPs : Claim(a, s)' => store[a] # NoRecord /\ store[a].data.subnet = s
    BY <1>1 DEF Claim
  <2>2. \A a \in IPs : Claim(a, s)' => Claim(a, s) /\ s \in sna'.allocated
    <3>1. s # NoSubnet
      BY MasterSubnetsAssumption DEF Subnets
    <3> QED BY <1>1, <2>1, <3>1 DEF Claim, Recorded
  <2>3. ~ Pending(s)' /\ \A g \in Goroutines : ~ Getting(g, s)'
    BY <1>1 DEF Pending, Waits, Getting
  <2> QED BY <2>2, <2>3 DEF SubnetInv, OneOwner
<1> QED BY <1>2 DEF SubnetInv

LEMMA OwnerStep ==
    ASSUME Orderly, "lost" \notin EtcdFaults, TypeInv, PairInv, SubnetInv, [Next]_vars
    PROVE  SubnetInv'
<1>1. ASSUME NEW g \in Goroutines, Call(g) PROVE SubnetInv'
  BY <1>1, RevokeOwners, GetOwners, RenewOwners, AcquireOwners DEF Call
<1>2. ASSUME Watch PROVE SubnetInv'
  BY <1>2, WatchResetOwners, WatchEventOwners DEF Watch
<1>3. ASSUME UNCHANGED vars PROVE SubnetInv'
  BY <1>3 DEF vars, watchVars, SubnetInv, OneOwner, Claim, Getting, Pending, OnePending, Waits, OneWaits
<1> QED
  BY <1>1, <1>2, <1>3, KubeStepOwners, RequestOwners, OtherWritesOwners, PopNodeOwners,
     HandlerOwners, RestartOwners DEF Next

LEMMA OwnerInit == Init => SubnetInv
BY DEF Init, SubnetInv, OneOwner, Claim, Getting, Pending, OnePending, Waits, OneWaits, Idle

(* A record is a claim: what two records cannot both have, and what the *)
(* allocator does not give to anyone else.                              *)
LEMMA OwnersApart ==
    ASSUME TypeInv, SubnetInv
    PROVE  SubnetsApart /\ RecordedReserved
<1>1. ASSUME NEW a \in IPs, store[a] # NoRecord, store[a].data.subnet # NoSubnet
      PROVE  store[a].data.subnet \in Subnets /\ Claim(a, store[a].data.subnet)
  <2>1. store[a] \in W!Records
    BY <1>1, WatchSets DEF TypeInv, WatchType
  <2> QED BY <1>1, <2>1, RecordShape DEF Claim
<1>2. SubnetsApart
  BY <1>1 DEF SubnetsApart, SubnetInv, OneOwner
<1>3. Recorded \subseteq sna.allocated
  BY <1>1 DEF Recorded, SubnetInv, OneOwner
<1>4. ASSUME NEW g \in Goroutines, job[g].at = "acquire" PROVE job[g].subnet \in sna.allocated
  <2>1. job[g].subnet \in Subnets
    BY <1>4, JobShape DEF TypeInv, MasterType
  <2> QED BY <1>4, <2>1 DEF SubnetInv, OneOwner, Getting
<1> QED BY <1>2, <1>3, <1>4 DEF RecordedReserved

LEMMA OwnersCorrect ==
    ASSUME Orderly, "lost" \notin EtcdFaults
    PROVE  Spec => [](SubnetsApart /\ RecordedReserved)
<1> DEFINE Inv == TypeInv /\ PairInv /\ SubnetInv
<1>1. Init => Inv
  BY TypeInit, PairInit, OwnerInit
<1>2. Inv /\ [Next]_vars => Inv'
  BY TypeStep, PairStep, OwnerStep
<1>3. Inv => SubnetsApart /\ RecordedReserved
  BY OwnersApart
<1> QED BY <1>1, <1>2, <1>3, PTL DEF Spec

(* No two nodes or servers ever get the same subnet, however the goroutines  *)
(* and the watch interleave, whatever call fails and however often the       *)
(* master restarts, as long as hosts keep their addresses and every call     *)
(* that changed etcd says so.                                                *)
THEOREM ApartCorrect ==
    ASSUME Orderly, "lost" \notin EtcdFaults
    PROVE  Spec => []SubnetsApart
BY OwnersCorrect, PTL

(* The allocator has marked every subnet that a record holds or is about to *)
(* hold: a removed record's event never frees a subnet that has an owner.   *)
THEOREM ReservedCorrect ==
    ASSUME Orderly, "lost" \notin EtcdFaults
    PROVE  Spec => []RecordedReserved
BY OwnersCorrect, PTL

-----------------------------------------------------------------------------
(* The leases: each step of the master is one of SubnetLeases, or none. *)

LEMMA HeldAreRecorded == ASSUME WatchType PROVE Leases!Held = Recorded
<1>1. Leases!Held = {SubnetOf[ip] : ip \in IPs} \ {NoSubnet}
  BY DEF Leases!Held
<1> QED BY <1>1 DEF SubnetOf, Recorded

LEMMA HeldIsClaimed ==
    ASSUME WatchType, NEW s \in Leases!Held
    PROVE  s \in Subnets /\ \E a \in IPs : Claim(a, s)
<1>1. s \in Recorded
  BY HeldAreRecorded
<1> QED BY <1>1, RecordedSubnets DEF Recorded, Claim

LEMMA SameLeases ==
    ASSUME UNCHANGED store, sna'.allocated = sna.allocated
    PROVE  UNCHANGED Leases!vars
BY DEF Leases!vars, SubnetOf

(* A record without a subnet, or none, takes the address its subnet. *)
LEMMA WriteLeases ==
    ASSUME TypeInv, NEW key \in IPs, NEW value \in W!Values, Write(key, value), UNCHANGED sna,
           value = NoRecord \/ value.data.subnet = NoSubnet
    PROVE  Leases!Next
<1>1. store' = [store EXCEPT ![key] = value] /\ store \in [IPs -> W!Values]
  BY DEF Write, TypeInv, WatchType
<1>2. SubnetOf' = [SubnetOf EXCEPT ![key] = NoSubnet]
  BY <1>1 DEF SubnetOf
<1>3. Leases!Withdraw(key)
  BY <1>2 DEF Leases!Withdraw
<1> QED BY <1>3 DEF Leases!Next

LEMMA RevokeLeases ==
    ASSUME TypeInv, NEW g \in Goroutines, Revoke(g)
    PROVE  [Leases!Next]_(Leases!vars)
<1> DEFINE ip == job[g].for.ip
<1>1. ip \in IPs /\ NoRecord \in W!Values
  BY JobShape, WatchSets DEF Revoke, TypeInv, MasterType, Target
<1>2. (Write(ip, NoRecord) \/ NoWrite) /\ UNCHANGED sna
  BY DEF Revoke
<1> QED BY <1>1, <1>2, WriteLeases, SameLeases DEF NoWrite

LEMMA RenewLeases ==
    ASSUME TypeInv, PairInv, NEW g \in Goroutines, Renew(g)
    PROVE  [Leases!Next]_(Leases!vars)
<1> DEFINE rec == job[g].record
<1>1. rec.data.ip \in IPs /\ rec \in W!Values /\ rec.data.subnet = NoSubnet
  BY JobShape, RecordShape, WatchSets DEF Renew, TypeInv, MasterType, PairInv, MasterPaired, JobPaired
<1>2. (Write(rec.data.ip, rec) \/ NoWrite) /\ UNCHANGED sna
  BY DEF Renew
<1> QED BY <1>1, <1>2, WriteLeases, SameLeases DEF NoWrite

LEMMA RequestLeases ==
    ASSUME TypeInv, NEW r \in Requests, Request(r)
    PROVE  [Leases!Next]_(Leases!vars)
<1> DEFINE rec == HostSubnet(r.host, r.ip, NoSubnet, TRUE)
<1>1. r.key \in IPs /\ rec \in W!Values /\ rec.data.subnet = NoSubnet
  BY MasterSubnetsAssumption, HostSubnetType, WatchSets DEF HostSubnet
<1>2. Write(r.key, rec) /\ UNCHANGED sna
  BY DEF Request
<1> QED BY <1>1, <1>2, WriteLeases

LEMMA GetLeases ==
    ASSUME TypeInv, NEW g \in Goroutines, Get(g)
    PROVE  [Leases!Next]_(Leases!vars)
<1> DEFINE n == NextSubnet(sna, Place)
<1>1. UNCHANGED store /\ sna' \in {sna, GetNetwork(sna, Place)}
  BY DEF Get, NoWrite
<1>2. CASE sna'.allocated = sna.allocated
  BY <1>1, <1>2, SameLeases
<1>3. CASE sna'.allocated # sna.allocated
  <2>1. sna'.allocated = sna.allocated \cup {n} /\ CanGet(sna, Place)
    BY <1>1, <1>3, GetYields DEF TypeInv, MasterType
  <2>2. n \in Subnets \ sna.allocated
    BY <2>1, NextIsFree DEF TypeInv, MasterType
  <2>3. Leases!Reserve(n)
    BY <1>1, <2>1, <2>2 DEF Leases!Reserve, SubnetOf
  <2> QED BY <2>2, <2>3 DEF Leases!Next
<1> QED BY <1>2, <1>3

LEMMA AcquireLeases ==
    ASSUME "lost" \notin EtcdFaults, TypeInv, SubnetInv, NEW g \in Goroutines, Acquire(g)
    PROVE  [Leases!Next]_(Leases!vars)
<1> DEFINE for == job[g].for
           n == job[g].subnet
           rec == HostSubnet(for.host, for.ip, n, FALSE)
<1>1. for.ip \in IPs /\ for.host \in Hosts /\ n \in Subnets /\ Getting(g, n)
  BY JobShape DEF Acquire, TypeInv, MasterType, Target, Getting
<1>2. n \in sna.allocated /\ n \notin Leases!Held
  BY <1>1, HeldIsClaimed DEF TypeInv, SubnetInv, OneOwner
<1>3. \/ store[for.ip] = NoRecord /\ Write(for.ip, rec) /\ UNCHANGED sna
      \/ NoWrite /\ sna' = ReleaseNetwork(sna, n)
  BY DEF Acquire
<1>4. rec \in W!Records /\ rec.data.subnet = n
  BY <1>1, HostSubnetType DEF HostSubnet
<1> HIDE DEF rec
<1>5. CASE store[for.ip] = NoRecord /\ Write(for.ip, rec) /\ UNCHANGED sna
  <2>1. store' = [store EXCEPT ![for.ip] = rec] /\ rec # NoRecord /\ store \in [IPs -> W!Values]
    BY <1>4, <1>5, WatchSets DEF Write, TypeInv, WatchType
  <2>2. SubnetOf' = [SubnetOf EXCEPT ![for.ip] = n] /\ SubnetOf[for.ip] = NoSubnet
    BY <1>1, <1>4, <1>5, <2>1 DEF SubnetOf
  <2>3. Leases!Grant(for.ip, n)
    BY <1>2, <1>5, <2>2 DEF Leases!Grant
  <2> QED BY <1>1, <2>3 DEF Leases!Next
<1>6. CASE NoWrite /\ sna' = ReleaseNetwork(sna, n)
  <2>1. sna'.allocated = sna.allocated \ {n} /\ UNCHANGED store
    BY <1>6, ReleaseYields DEF TypeInv, MasterType, NoWrite
  <2>2. Leases!Free(n)
    BY <1>2, <2>1 DEF Leases!Free, SubnetOf
  <2> QED BY <1>1, <2>2 DEF Leases!Next
<1> QED BY <1>3, <1>5, <1>6

(* What a removal gives back nobody holds. *)
LEMMA HandleEventLeases ==
    ASSUME TypeInv, SubnetInv, HandleEvent
    PROVE  [Leases!Next]_(Leases!vars)
<1> DEFINE e == Head(handling)
           n == e.rec.data.subnet
<1>1. e = handling[1] /\ 1 \in DOMAIN handling
  BY HeadTailProperties DEF HandleEvent, TypeInv, MasterType, Batches
<1>2. /\ UNCHANGED store
      /\ \/ sna' = sna
         \/ e.type = "Removed" /\ e.rec.data # NoData /\ sna' = ReleaseNetwork(sna, n)
  BY DEF HandleEvent, NoWrite
<1> HIDE DEF e, n
<1>3. CASE sna'.allocated = sna.allocated
  BY <1>2, <1>3, SameLeases
<1>4. CASE sna'.allocated # sna.allocated
  <2>1. /\ e.type = "Removed" /\ e.rec.data # NoData
        /\ sna'.allocated = sna.allocated \ {n} /\ n \in sna.allocated
    <3>1. sna' # sna
      BY <1>4
    <3>2. e.type = "Removed" /\ e.rec.data # NoData /\ sna' = ReleaseNetwork(sna, n)
      BY <1>2, <3>1
    <3>3. sna'.allocated = sna.allocated \ {n}
      BY <3>2, ReleaseYields DEF TypeInv, MasterType
    <3> QED BY <1>4, <3>2, <3>3
  <2>2. n \in Subnets
    BY <2>1, SubnetsCounted DEF TypeInv, MasterType
  <2>3. Pending(n)
    BY <1>1, <2>1 DEF Pending, Waits, Returns, n
  <2>4. n \notin Leases!Held
    BY <2>2, <2>3, HeldIsClaimed DEF TypeInv, SubnetInv, OneOwner
  <2>5. Leases!Free(n)
    BY <1>2, <2>1, <2>4 DEF Leases!Free, SubnetOf
  <2> QED BY <2>2, <2>5 DEF Leases!Next
<1> QED BY <1>3, <1>4

LEMMA RestartLeases ==
    ASSUME TypeInv, Restart
    PROVE  [Leases!Next]_(Leases!vars)
<1>1. UNCHANGED store /\ sna'.allocated = Recorded
  BY RecordedSubnets, NewYields DEF Restart, TypeInv
<1>2. Leases!Recover
  BY <1>1, HeldAreRecorded DEF Leases!Recover, TypeInv, SubnetOf
<1> QED BY <1>2 DEF Leases!Next

(* The master keeps SubnetLeases' promise step by step, however the          *)
(* goroutines and the watch interleave and whatever call fails: no subnet is *)
(* given that has an owner or was not set aside, none that is held is set    *)
(* free, and no address goes from one subnet to another.                     *)
THEOREM LeasedCorrect ==
    ASSUME Orderly, "lost" \notin EtcdFaults
    PROVE  Spec => Leased
<1> DEFINE Inv == TypeInv /\ PairInv /\ SubnetInv
<1>1. Init => Inv /\ Leases!Init
  <2>1. Init => Leases!Init
    BY DEF Init, Leases!Init, SubnetOf, NewSubnetAllocator
  <2> QED BY <2>1, TypeInit, PairInit, OwnerInit
<1>2. Inv /\ [Next]_vars => Inv'
  BY TypeStep, PairStep, OwnerStep
<1>3. Inv /\ [Next]_vars => [Leases!Next]_(Leases!vars)
  <2> SUFFICES ASSUME TypeInv, PairInv, SubnetInv, [Next]_vars PROVE [Leases!Next]_(Leases!vars)
    OBVIOUS
  <2>1. ASSUME NEW g \in Goroutines, Call(g) PROVE [Leases!Next]_(Leases!vars)
    BY <2>1, RevokeLeases, GetLeases, RenewLeases, AcquireLeases DEF Call
  <2>2. CASE KubeStep \/ OtherWrites \/ (\E h \in Hosts : PopNode(h)) \/ Watch \/ TakeBatch
    <3>1. UNCHANGED <<store, sna>>
      BY <2>2 DEF KubeStep, CreateNode, UpdateNode, DeleteNode, Resync, NoWrite, OtherWrites,
                  W!WriteElsewhere, PopNode, Watch, W!WatchReset, W!WatchEvent, TakeBatch
    <3> QED BY <3>1, SameLeases
  <2>3. CASE UNCHANGED vars
    BY <2>3, SameLeases DEF vars
  <2> QED BY <2>1, <2>2, <2>3, RequestLeases, HandleEventLeases, RestartLeases DEF Next
<1> QED BY <1>1, <1>2, <1>3, PTL DEF Spec, Leased, Leases!Spec

(* What SubnetLeases promises is that no subnet has two addresses, and that *)
(* all that are held are set aside.                                         *)
THEOREM LeasesKeepPromise == Leases!Spec => []Leases!Promise
<1>1. Leases!Init => Leases!Promise
  BY DEF Leases!Init, Leases!Promise, Leases!Held
<1>2. Leases!Promise /\ [Leases!Next]_(Leases!vars) => Leases!Promise'
  <2> SUFFICES ASSUME Leases!Promise, [Leases!Next]_(Leases!vars) PROVE Leases!Promise'
    OBVIOUS
  <2>1. DOMAIN SubnetOf = IPs
    BY DEF SubnetOf
  <2>2. ASSUME NEW a \in IPs, NEW s, \/ s = NoSubnet
                                     \/ s \in sna.allocated \ Leases!Held,
               SubnetOf' = [SubnetOf EXCEPT ![a] = s], sna'.allocated = sna.allocated
        PROVE  Leases!Promise'
    <3>1. \A b \in IPs : SubnetOf'[b] = IF b = a THEN s ELSE SubnetOf[b]
      BY <2>1, <2>2
    <3>2. \A b \in IPs : SubnetOf[b] # NoSubnet => SubnetOf[b] \in Leases!Held
      BY DEF Leases!Held
    <3>3. Leases!Held' \subseteq Leases!Held \cup ({s} \ {NoSubnet})
      BY <3>1 DEF Leases!Held
    <3>4. Leases!Held' \subseteq sna'.allocated
      BY <2>2, <3>3 DEF Leases!Promise
    <3> QED BY <2>2, <3>1, <3>2, <3>4 DEF Leases!Promise
  <2>3. ASSUME UNCHANGED SubnetOf, Leases!Held \subseteq sna'.allocated PROVE Leases!Promise'
    BY <2>3 DEF Leases!Promise, Leases!Held
  <2>4. ASSUME NEW s \in Subnets, Leases!Reserve(s) \/ Leases!Free(s) PROVE Leases!Promise'
    BY <2>3, <2>4 DEF Leases!Reserve, Leases!Free, Leases!Promise
  <2>5. ASSUME NEW a \in IPs, Leases!Withdraw(a) PROVE Leases!Promise'
    BY <2>2, <2>5 DEF Leases!Withdraw
  <2>6. ASSUME NEW a \in IPs, NEW s \in Subnets, Leases!Grant(a, s) PROVE Leases!Promise'
    BY <2>2, <2>6 DEF Leases!Grant
  <2>7. ASSUME Leases!Recover PROVE Leases!Promise'
    BY <2>3, <2>7 DEF Leases!Recover
  <2>8. ASSUME UNCHANGED Leases!vars PROVE Leases!Promise'
    BY <2>3, <2>8 DEF Leases!vars, Leases!Promise
  <2> QED BY <2>4, <2>5, <2>6, <2>7, <2>8 DEF Leases!Next
<1> QED BY <1>1, <1>2, PTL DEF Leases!Spec

-----------------------------------------------------------------------------
(* The subnets and where they lie. *)

(* The addresses from the first one of a record's subnet to its last. *)
AddressesApart(nw) ==
    \A a, b \in IPs :
        LET s == PlacesIn(nw)[store[a].data.subnet]
            t == PlacesIn(nw)[store[b].data.subnet]
        IN (/\ a # b /\ store[a] # NoRecord /\ store[b] # NoRecord
            /\ NoSubnet \notin {store[a].data.subnet, store[b].data.subnet})
             => s + 2^nw.hostBits <= t \/ t + 2^nw.hostBits <= s

(* No address of the pod network belongs to two nodes or servers: the two    *)
(* results together, for a cluster network of any size.                      *)
THEOREM AddressesApartCorrect ==
    ASSUME Orderly, "lost" \notin EtcdFaults, NEW nw, IsNetwork(nw), NumSubnets = 2^nw.subnetBits
    PROVE  Spec => []AddressesApart(nw)
<1>1. TypeInv /\ SubnetsApart => AddressesApart(nw)
  <2> SUFFICES ASSUME TypeInv, SubnetsApart, NEW a \in IPs, NEW b \in IPs, a # b,
                      store[a] # NoRecord, store[b] # NoRecord,
                      NoSubnet \notin {store[a].data.subnet, store[b].data.subnet}
               PROVE  LET s == PlacesIn(nw)[store[a].data.subnet]
                          t == PlacesIn(nw)[store[b].data.subnet]
                      IN s + 2^nw.hostBits <= t \/ t + 2^nw.hostBits <= s
    BY DEF AddressesApart
  <2> DEFINE m == store[a].data.subnet
             n == store[b].data.subnet
  <2>1. store[a] \in W!Records /\ store[b] \in W!Records
    BY WatchSets DEF TypeInv, WatchType
  <2>2. m \in Subnets /\ n \in Subnets /\ m # n
    BY <2>1, RecordShape DEF SubnetsApart
  <2> HIDE DEF m, n
  <2>3. /\ PlacesIn(nw)[m] \in Blocks(nw) /\ PlacesIn(nw)[n] \in Blocks(nw)
        /\ PlacesIn(nw)[m] # PlacesIn(nw)[n]
    BY <2>2, PlacesAreBlocks DEF Bijection, Injection, IsInjective, Subnets
  <2> QED BY <2>3, BlocksDisjoint DEF m, n
<1>2. TypeInv /\ [Next]_vars => TypeInv'
  BY TypeStep
<1>3. Spec => []SubnetsApart
  BY OwnersCorrect, PTL
<1> QED BY <1>1, <1>2, <1>3, TypeInit, PTL DEF Spec
=============================================================================
