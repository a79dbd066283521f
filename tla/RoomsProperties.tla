--------------------------- MODULE RoomsProperties ---------------------------
(***************************************************************************)
(* What the rooms promise: the stores, the registries and the groups agree *)
(* with each other, whatever calls were under way when things changed.     *)
(***************************************************************************)
EXTENDS Rooms

(* Every store holds what it may hold.  A room never has more members than *)
(* its host asked for, keeps its host, and says of nobody but its members  *)
(* that they are ready or connected.                                       *)
TypeOK ==
  /\ room \in [RoomIds -> RoomSessions \cup {NoRoom}]
  /\ \A r \in RoomIds : Exists(r) =>
       /\ room[r].host \in room[r].members
       /\ Cardinality(room[r].members) <= room[r].capacity
       /\ room[r].ready \subseteq room[r].members
       /\ room[r].connected \subseteq room[r].members
  /\ sessions \subseteq PlayerIds
  /\ home \in [PlayerIds -> RoomIds \cup {NoRoom}]
  /\ codeOf \in [RoomIds -> Codes \cup {NoCode}]
  /\ roomOf \in [Codes -> RoomIds \cup {NoRoom}]
  /\ credentials \subseteq RoomIds
  /\ game \in [RoomIds -> SUBSET PlayerIds]
  /\ identity \in [Conns -> PlayerIds \cup {NoPlayer}]
  /\ group \in [RoomIds -> SUBSET Conns]
  /\ socket \in [Conns -> {"new", "open", "lost", "closing", "gone"}]
  /\ call \in [Callers -> Calls \cup {Idle}]
  /\ stranded \subseteq Conns

(* A token is valid exactly as long as its player is a member of an open   *)
(* room: leaving and closing end it whatever fails on the way, and no late *)
(* call gives a member without a token or a token without a member.  The   *)
(* members of a room hold ids issued for that room.                        *)
SessionsAreMembers ==
  /\ \A p \in PlayerIds : p \in sessions <=> (home[p] # NoRoom /\ Member(home[p], p))
  /\ \A r \in RoomIds : Exists(r) => \A p \in room[r].members : home[p] = r

(* The two maps of the invite codes are inverse to each other, and exactly *)
(* the open rooms have a code.  A late join that finds its room gone must  *)
(* not take down the code of the room that has that code by now.           *)
CodesLeadToOpenRooms ==
  /\ \A r \in RoomIds : Exists(r) <=> codeOf[r] # NoCode
  /\ \A r \in RoomIds, k \in Codes : codeOf[r] = k <=> roomOf[k] = r

(* A member is shown as connected exactly while it has a connection in the *)
(* registry, whatever attaches, losses and departures overtake each other. *)
PresenceIsAttachment ==
  \A r \in RoomIds : Exists(r) =>
    \A p \in room[r].members : p \in room[r].connected <=> ConnectionsOf(p) # {}

(* The credential store and what the room says about it agree, and no      *)
(* closed room keeps a credential.                                         *)
CredentialsAreShown ==
  \A r \in RoomIds : r \in credentials <=> (Exists(r) /\ room[r].ai = "keyed")

(* A game has an open room, and everybody who owns a character is still in *)
(* it: nobody joins, leaves or starts it past the other.                   *)
GameKeepsItsTable ==
  \A r \in RoomIds : game[r] # {} => Exists(r) /\ game[r] \subseteq room[r].members

(* Room news go to the group, game news to the registry.  For every open   *)
(* transport the two agree, and only members get either, except over the   *)
(* connections that a failed leave left behind.                            *)
NewsReachMembersOnly ==
  \A c \in Conns :
    /\ socket[c] = "open" =>
         \A r \in RoomIds : Exists(r) => (c \in group[r] <=> c \in RoomConnections(r))
    /\ identity[c] # NoPlayer /\ c \notin stranded => Member(home[identity[c]], identity[c])

(* A connection that is attached when it is lost is taken out of the       *)
(* registry in the end.                                                    *)
LossesAreNoticed ==
  \A c \in Conns :
    (socket[c] = "lost" /\ identity[c] # NoPlayer) ~> identity[c] = NoPlayer
=============================================================================
