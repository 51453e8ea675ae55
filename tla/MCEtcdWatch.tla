---------------------------- MODULE MCEtcdWatch ----------------------------
(* Values for the constants of EtcdWatch: netnamespace records, whose name is *)
(* their key.                                                                 *)
EXTENDS EtcdWatch, TLC

CONSTANTS k1, k2, p1, p2

OwnName  == [k \in Keys |-> {k}]
FullPath == (k1 :> p1) @@ (k2 :> p2)
=============================================================================
