--------------------------- MODULE MCMasterVnid ---------------------------
(* Values for the constants of MasterVnid. *)
EXTENDS MasterVnid

CONSTANTS sys, a, b, c

Edit(ns, action, other) == [NetName |-> ns, Action |-> action, Namespace |-> other]

NoEdits   == {}
SelfJoin  == {Edit(a, "join", a)}
(* Joins, isolations and the global network, of tenants and of the admin namespace. *)
EditsOfA  == {Edit(a, "join", b), Edit(a, "isolate", a), Edit(a, "global", a)}
AllEdits  == EditsOfA \cup {Edit(b, "isolate", b), Edit(sys, "isolate", sys)}
SysEdits  == {Edit(a, "global", a), Edit(a, "isolate", a), Edit(sys, "isolate", sys)}
=============================================================================
