--------------------------- MODULE MCNodeServices ---------------------------
(* Values for the constants of NodeServices: one service, with the ports A *)
(* and B, then B alone.                                                    *)
EXTENDS NodeServices, TLC

CONSTANTS ns1, s1, A, B

InNs1    == s1 :> ns1
Changing == s1 :> <<{A, B}, {B}>>
=============================================================================
