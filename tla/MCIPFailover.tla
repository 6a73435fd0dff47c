--------------------------- MODULE MCIPFailover ---------------------------
(* Finite instances of IPFailover for TLC: an address plan that gives every *)
(* resource addresses of its own.                                           *)
EXTENDS IPFailover

CONSTANTS r1, r2, a1, a2, a3, b1, b2

Plan == [r \in Resources |-> IF r = r1 THEN {a1, a2, a3} \cap IPs ELSE {b1, b2} \cap IPs]
=============================================================================
