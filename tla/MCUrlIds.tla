------------------------------ MODULE MCUrlIds ------------------------------
(* A small instance of UrlIds: an even and an odd machine. *)
EXTENDS UrlIds

CONSTANTS c1, c2

MCCallers == [m \in Machines |-> IF m = 0 THEN {c1, c2} ELSE {c1}]
=============================================================================
