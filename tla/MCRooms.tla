------------------------------- MODULE MCRooms -------------------------------
(* Symmetric identities for the rooms. *)
EXTENDS RoomsProperties, TLC

RoomSymmetry ==
  Permutations(RoomIds) \cup Permutations(PlayerIds) \cup Permutations(Conns)
    \cup Permutations(Codes) \cup Permutations(Callers)
=============================================================================
