----------------------- MODULE MCStatefulServerSet -----------------------
(* Finite instances of StatefulServerSet for TLC.                           *)
EXTENDS StatefulServerSet
CONSTANTS v1, l1

Everything == Fields \cup {"replicas", "deletion"}
=============================================================================
