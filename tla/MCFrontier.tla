------------------------------ MODULE MCFrontier ------------------------------
(* A small instance of Frontier. *)
EXTENDS Frontier

CONSTANTS p1, p2
=============================================================================
