--------------------------- MODULE MCSubnetPlaces ---------------------------
(* Networks whose subnet number fills one octet's end, starts at its edge,  *)
(* lies inside it, or straddles two octets by one bit and by two.           *)
EXTENDS SubnetPlaces, Bitwise

SomeNetworks == [hostBits : {5, 6, 7, 8, 10, 15}, subnetBits : {0, 2, 3}]

(* The two parts are what GetNetwork computes with the shifts and masks of the *)
(* code, and adding them is its bitwise or.  Where nothing straddles, the code *)
(* masks with 0xFFFFFFFF, beyond TLC's integers; no number has a bit above     *)
(* this mask.                                                                  *)
leftMask(nw)  == 2^(nw.hostBits + nw.subnetBits) - 1
rightMask(nw) == IF Straddles(nw) THEN (2^leftShift(nw) - 1) * 2^nw.hostBits ELSE 0

ASSUME PlaceIsBitwise ==
    \A nw \in SomeNetworks : \A n \in 0 .. 2^nw.subnetBits - 1 :
        LET shifted == n * 2^nw.hostBits
        IN /\ LeftPart(nw, n) = (shifted * 2^leftShift(nw)) & leftMask(nw)
           /\ RightPart(nw, n) = (shifted \div 2^rightShift(nw)) & rightMask(nw)
           /\ LeftPart(nw, n) | RightPart(nw, n) = LeftPart(nw, n) + RightPart(nw, n)
=============================================================================
