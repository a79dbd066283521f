------------------------------ MODULE MCClient ------------------------------
EXTENDS ClientProperties, TLC

(* Rooms and connection objects are interchangeable. *)
Symmetry == Permutations(Rooms) \cup Permutations(Links)
=============================================================================
