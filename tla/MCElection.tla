----------------------------- MODULE MCElection -----------------------------
(* Names for the nodes of Election. *)
EXTENDS Election

CONSTANTS n1, n2, n3
=============================================================================
