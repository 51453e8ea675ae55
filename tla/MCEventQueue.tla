---------------------------- MODULE MCEventQueue ----------------------------
(* Names for the objects of EventQueue. *)
EXTENDS EventQueue

CONSTANTS o1, o2
=============================================================================
