---------------------------- MODULE MCNodeStart ----------------------------
(* NodeStart for two pods, two subnets and two networks of each kind. *)
EXTENDS NodeStart

CONSTANTS p1, p2

BothModes == BOOLEAN
=============================================================================
