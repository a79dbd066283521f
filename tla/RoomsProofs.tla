----------------------------- MODULE RoomsProofs -----------------------------
(***************************************************************************)
(* The stores, registries and groups of the rooms agree, for any number of *)
(* rooms, players, connections, codes and calls under way.                 *)
(***************************************************************************)
EXTENDS RoomsProperties, FiniteSetTheorems, TLAPS

\* A room is well formed.
WellFormed(rm) ==
  /\ rm \in RoomSessions
  /\ rm.host \in rm.members
  /\ IsFiniteSet(rm.members)
  /\ Cardinality(rm.members) <= rm.capacity
  /\ rm.ready \subseteq rm.members
  /\ rm.connected \subseteq rm.members

(* The types, strengthened: members are counted, so there must be finitely *)
(* many of them.                                                           *)
RoomsFormed ==
  /\ room \in [RoomIds -> RoomSessions \cup {NoRoom}]
  /\ \A r \in RoomIds : Exists(r) => WellFormed(room[r])

Typed == TypeOK /\ RoomsFormed

OtherTypes ==
  /\ sessions \subseteq PlayerIds
  /\ home \in [PlayerIds -> RoomIds \cup {NoRoom}]
  /\ codeOf \in [RoomIds -> Codes \cup {NoCode}]
  /\ roomOf \in [Codes -> RoomIds \cup {NoRoom}]
  /\ credentials \subseteq RoomIds
  /\ game \in [RoomIds -> SUBSET PlayerIds]
  /\ identity \in [Conns -> PlayerIds \cup {NoPlayer}]
  /\ group \in [RoomIds -> SUBSET Conns]
  /\ socket \in [Conns -> {"new", "open", "lost", "closing", "gone"}]
  /\ call \in [Callers -> Calls \cup {Idle}]
  /\ stranded \subseteq Conns

\* Whoever is attached has a home; a room once, if not any more.
AttachedAtHome ==
  \A c \in Conns : identity[c] # NoPlayer => home[identity[c]] \in RoomIds

LEMMA TypedParts == Typed <=> RoomsFormed /\ OtherTypes
  BY DEF Typed, TypeOK, RoomsFormed, WellFormed, OtherTypes, Exists

LEMMA RunningCall ==
  ASSUME OtherTypes, NEW a \in Callers, NEW ops, Running(a, ops)
  PROVE  /\ call[a] \in Calls /\ call[a] # Idle /\ call[a].op \in ops
         /\ call[a].room \in RoomIds
         /\ call[a].player \in PlayerIds \cup {NoPlayer}
         /\ call[a].op = "attach" => call[a].player \in PlayerIds /\ call[a].conn \in Conns
  BY DEF OtherTypes, Running, Calls, PlayerRequests

LEMMA FinishType ==
  ASSUME OtherTypes, NEW a \in Callers, Finish(a)
  PROVE  call' \in [Callers -> Calls \cup {Idle}]
  BY DEF OtherTypes, Finish

\* A step that replaces one room by a well-formed one.
LEMMA OneRoomReplaced ==
  ASSUME RoomsFormed, NEW r \in RoomIds, NEW rm, WellFormed(rm),
         room' = [room EXCEPT ![r] = rm]
  PROVE  RoomsFormed'
  BY DEF RoomsFormed, WellFormed, Exists

LEMMA SameRooms ==
  ASSUME RoomsFormed, UNCHANGED room
  PROVE  RoomsFormed'
  BY DEF RoomsFormed, WellFormed, Exists

LEMMA MemberRoom ==
  ASSUME RoomsFormed, NEW r \in RoomIds, NEW p, Member(r, p)
  PROVE  /\ Exists(r) /\ WellFormed(room[r])
         /\ p \in room[r].members /\ p \in PlayerIds
  BY DEF RoomsFormed, Member, WellFormed, RoomSessions

-----------------------------------------------------------------------------
(* Rooms stay well formed.                                                 *)

LEMMA InitTyped == Init => Typed
<1> SUFFICES ASSUME Init PROVE Typed
  OBVIOUS
<1>1. RoomsFormed
  BY DEF Init, RoomsFormed, Exists
<1>2. OtherTypes
  BY DEF Init, OtherTypes
<1> QED
  BY <1>1, <1>2, TypedParts

LEMMA CreateForms ==
  ASSUME RoomsFormed, OtherTypes, Create
  PROVE  RoomsFormed' /\ OtherTypes'
<1>1. PICK r \in RoomIds, p \in PlayerIds, code \in Codes, capacity \in Capacities :
        /\ room' = [room EXCEPT ![r] = [host |-> p, capacity |-> capacity, members |-> {p},
                                        ready |-> {}, connected |-> {}, ai |-> "none"]]
        /\ sessions' = sessions \cup {p}
        /\ home' = [home EXCEPT ![p] = r]
        /\ codeOf' = [codeOf EXCEPT ![r] = code]
        /\ roomOf' = [roomOf EXCEPT ![code] = r]
        /\ UNCHANGED <<credentials, game, connectionVars, call>>
  BY DEF Create
<1> DEFINE rm == [host |-> p, capacity |-> capacity, members |-> {p},
                  ready |-> {}, connected |-> {}, ai |-> "none"]
<1>2. IsFiniteSet({p}) /\ Cardinality({p}) = 1
  BY FS_Singleton
<1>3. capacity \in Nat \ {0}
  BY RoomsAssumption
<1>4. WellFormed(rm)
  BY <1>2, <1>3 DEF WellFormed, RoomSessions
<1>5. RoomsFormed'
  BY <1>1, <1>4, OneRoomReplaced
<1>6. OtherTypes'
  BY <1>1 DEF OtherTypes, connectionVars
<1> QED
  BY <1>5, <1>6

LEMMA ReceiveForms ==
  ASSUME RoomsFormed, OtherTypes, SessionsAreMembers, NEW a \in Callers, Receive(a)
  PROVE  RoomsFormed' /\ OtherTypes'
<1>1. UNCHANGED <<storeVars, identity, group, stranded>>
  BY DEF Receive, ReceiveJoin, ReceiveRequest, ReceiveAttach, Arrive, connectionVars
<1>2. RoomsFormed'
  BY <1>1, SameRooms DEF storeVars
<1>3. \A p \in sessions : p \in PlayerIds /\ home[p] \in RoomIds
  BY DEF OtherTypes, SessionsAreMembers
<1>4. /\ call' \in [Callers -> Calls \cup {Idle}]
      /\ socket' \in [Conns -> {"new", "open", "lost", "closing", "gone"}]
  <2>1. CASE ReceiveJoin(a)
    <3>1. PICK code \in Codes :
            /\ roomOf[code] # NoRoom
            /\ call' = [call EXCEPT ![a] = [op |-> "join", room |-> roomOf[code],
                                            player |-> NoPlayer, conn |-> NoConn]]
      BY <2>1 DEF ReceiveJoin, Arrive
    <3>2. roomOf[code] \in RoomIds
      BY <3>1 DEF OtherTypes
    <3>3. [op |-> "join", room |-> roomOf[code], player |-> NoPlayer, conn |-> NoConn]
            \in Calls
      BY <3>2 DEF Calls
    <3> QED
      BY <2>1, <3>1, <3>3 DEF OtherTypes, ReceiveJoin, connectionVars
  <2>2. CASE ReceiveRequest(a)
    <3>1. PICK p \in sessions, op \in Requests :
            call' = [call EXCEPT ![a] = [op |-> op, room |-> home[p], player |-> p,
                                         conn |-> NoConn]]
      BY <2>2 DEF ReceiveRequest, Arrive
    <3>2. op \in PlayerRequests
      BY RoomsAssumption
    <3>3. [op |-> op, room |-> home[p], player |-> p, conn |-> NoConn] \in Calls
      BY <1>3, <3>2 DEF Calls
    <3> QED
      BY <2>2, <3>1, <3>3 DEF OtherTypes, ReceiveRequest, connectionVars
  <2>3. CASE ReceiveAttach(a)
    <3>1. PICK p \in sessions, c \in Conns :
            /\ call' = [call EXCEPT ![a] = [op |-> "attach", room |-> home[p], player |-> p,
                                            conn |-> c]]
            /\ socket' = [socket EXCEPT ![c] = "open"]
      BY <2>3 DEF ReceiveAttach, Arrive
    <3>2. [op |-> "attach", room |-> home[p], player |-> p, conn |-> c] \in Calls
      BY <1>3 DEF Calls
    <3> QED
      BY <3>1, <3>2 DEF OtherTypes
  <2> QED
    BY <2>1, <2>2, <2>3 DEF Receive
<1> QED
  BY <1>1, <1>2, <1>4 DEF OtherTypes, storeVars

LEMMA JoinForms ==
  ASSUME RoomsFormed, OtherTypes, NEW a \in Callers, Join(a)
  PROVE  RoomsFormed' /\ OtherTypes'
<1> DEFINE r == call[a].room
<1>1. r \in RoomIds
  BY RunningCall DEF Join
<1>2. PICK p \in PlayerIds :
        /\ room' = [room EXCEPT ![r].members = @ \cup {p}]
        /\ home' = [home EXCEPT ![p] = r]
        /\ sessions' = sessions \cup {p}
  BY DEF Join
<1> DEFINE rm == [room[r] EXCEPT !.members = @ \cup {p}]
<1>3. WellFormed(room[r]) /\ Cardinality(room[r].members) < room[r].capacity
  BY <1>1 DEF Join, Joinable, RoomsFormed
<1>4. /\ IsFiniteSet(room[r].members \cup {p})
      /\ Cardinality(room[r].members \cup {p}) <= Cardinality(room[r].members) + 1
      /\ Cardinality(room[r].members) \in Nat
  BY <1>3, FS_AddElement, FS_CardinalityType DEF WellFormed
<1>5. room[r].capacity \in Nat
  BY <1>3, RoomsAssumption DEF WellFormed, RoomSessions
<1>6. Cardinality(room[r].members \cup {p}) <= room[r].capacity
  <2>1. Cardinality(room[r].members \cup {p}) \in Nat
    BY <1>4, FS_CardinalityType
  <2> QED
    BY <1>3, <1>4, <1>5, <2>1
<1>7. WellFormed(rm)
  BY <1>3, <1>4, <1>6 DEF WellFormed, RoomSessions
<1>8. RoomsFormed'
  BY <1>1, <1>2, <1>7, OneRoomReplaced
<1>9. call' \in [Callers -> Calls \cup {Idle}]
  BY FinishType DEF Join
<1>10. OtherTypes'
  BY <1>1, <1>2, <1>9 DEF OtherTypes, Join, connectionVars
<1> QED
  BY <1>8, <1>10

LEMMA RemoveCodeTypes ==
  ASSUME OtherTypes, NEW r \in RoomIds, RemoveCode(r)
  PROVE  /\ codeOf' \in [RoomIds -> Codes \cup {NoCode}]
         /\ roomOf' \in [Codes -> RoomIds \cup {NoRoom}]
  BY DEF OtherTypes, RemoveCode

LEMMA UnregisteredType ==
  ASSUME OtherTypes, NEW removed
  PROVE  Unregistered(removed) \in [Conns -> PlayerIds \cup {NoPlayer}]
  BY DEF OtherTypes, Unregistered

LEMMA MemberLeavesForms ==
  ASSUME RoomsFormed, OtherTypes, NEW a \in Callers, MemberLeaves(a)
  PROVE  RoomsFormed' /\ OtherTypes'
<1> DEFINE r == call[a].room
           p == call[a].player
           rm == [room[r] EXCEPT !.members = @ \ {p}, !.ready = @ \ {p},
                                 !.connected = @ \ {p}]
<1>1. r \in RoomIds /\ Member(r, p) /\ room[r].host # p
  BY RunningCall DEF MemberLeaves, MayLeave
<1>2. WellFormed(room[r])
  BY <1>1, MemberRoom
<1>3. /\ IsFiniteSet(room[r].members \ {p})
      /\ Cardinality(room[r].members \ {p}) <= Cardinality(room[r].members)
  BY <1>2, FS_Subset DEF WellFormed
<1>4. Cardinality(room[r].members \ {p}) <= room[r].capacity
  <2>1. /\ Cardinality(room[r].members \ {p}) \in Nat
        /\ Cardinality(room[r].members) \in Nat
    BY <1>2, <1>3, FS_CardinalityType DEF WellFormed
  <2>2. room[r].capacity \in Nat
    BY <1>2, RoomsAssumption DEF WellFormed, RoomSessions
  <2> QED
    BY <1>2, <1>3, <2>1, <2>2 DEF WellFormed
<1>5. WellFormed(rm)
  BY <1>1, <1>2, <1>3, <1>4 DEF WellFormed, RoomSessions
<1>6. room' = [room EXCEPT ![r] = rm]
  <2>1. room' = [room EXCEPT ![r].members = @ \ {p},
                             ![r].ready = @ \ {p},
                             ![r].connected = @ \ {p}]
    BY DEF MemberLeaves
  <2> QED
    BY <1>1, <1>2, <2>1 DEF RoomsFormed, WellFormed, RoomSessions
<1>7. RoomsFormed'
  BY <1>1, <1>5, <1>6, OneRoomReplaced
<1>8. PICK removed \in SUBSET ConnectionsOf(p) :
        /\ identity' = Unregistered(removed)
        /\ group' = [group EXCEPT ![r] = @ \ removed]
        /\ stranded' = stranded \cup (ConnectionsOf(p) \ removed)
  BY DEF MemberLeaves
<1>9. /\ call' \in [Callers -> Calls \cup {Idle}]
      /\ identity' \in [Conns -> PlayerIds \cup {NoPlayer}]
  BY <1>8, FinishType, UnregisteredType DEF MemberLeaves
<1>10. /\ sessions' \subseteq PlayerIds
       /\ group' \in [RoomIds -> SUBSET Conns]
       /\ stranded' \subseteq Conns
       /\ UNCHANGED <<home, codeOf, roomOf, credentials, game, socket>>
  BY <1>8 DEF OtherTypes, MemberLeaves, ConnectionsOf
<1>11. OtherTypes'
  BY <1>9, <1>10 DEF OtherTypes
<1> QED
  BY <1>7, <1>11

LEMMA HostClosesForms ==
  ASSUME RoomsFormed, OtherTypes, NEW a \in Callers, HostCloses(a)
  PROVE  RoomsFormed' /\ OtherTypes'
<1> DEFINE r == call[a].room
<1>1. r \in RoomIds
  BY RunningCall DEF HostCloses
<1>2. room' = [room EXCEPT ![r] = NoRoom]
  BY DEF HostCloses
<1>3. RoomsFormed'
  BY <1>1, <1>2 DEF RoomsFormed, WellFormed, Exists
<1>4. /\ call' \in [Callers -> Calls \cup {Idle}]
      /\ codeOf' \in [RoomIds -> Codes \cup {NoCode}]
      /\ roomOf' \in [Codes -> RoomIds \cup {NoRoom}]
      /\ identity' \in [Conns -> PlayerIds \cup {NoPlayer}]
  BY <1>1, FinishType, RemoveCodeTypes, UnregisteredType DEF HostCloses
<1>5. /\ sessions' \subseteq PlayerIds /\ credentials' \subseteq RoomIds
      /\ game' \in [RoomIds -> SUBSET PlayerIds]
      /\ group' \in [RoomIds -> SUBSET Conns]
      /\ UNCHANGED <<home, socket, stranded>>
  BY DEF OtherTypes, HostCloses
<1> QED
  BY <1>3, <1>4, <1>5 DEF OtherTypes

LEMMA RefusalsForm ==
  ASSUME RoomsFormed, OtherTypes, NEW a \in Callers, JoinRefused(a) \/ LeaveRefused(a)
  PROVE  RoomsFormed' /\ OtherTypes'
<1>1. call' \in [Callers -> Calls \cup {Idle}]
  BY FinishType DEF JoinRefused, LeaveRefused
<1>2. RoomsFormed'
  BY SameRooms DEF JoinRefused, LeaveRefused, storeVars
<1>3. CASE JoinRefused(a)
  <2>1. call[a].room \in RoomIds
    BY <1>3, RunningCall DEF JoinRefused
  <2>2. /\ codeOf' \in [RoomIds -> Codes \cup {NoCode}]
        /\ roomOf' \in [Codes -> RoomIds \cup {NoRoom}]
    BY <1>3, <2>1, RemoveCodeTypes DEF JoinRefused, OtherTypes
  <2> QED
    BY <1>1, <1>2, <1>3, <2>2 DEF OtherTypes, JoinRefused, connectionVars
<1>4. CASE LeaveRefused(a)
  BY <1>1, <1>2, <1>4 DEF OtherTypes, LeaveRefused, storeVars, connectionVars
<1> QED
  BY <1>3, <1>4

LEMMA SetReadyForms ==
  ASSUME RoomsFormed, OtherTypes, NEW a \in Callers, SetReady(a)
  PROVE  RoomsFormed' /\ OtherTypes'
<1> DEFINE r == call[a].room
           p == call[a].player
           rm == [room[r] EXCEPT !.ready = IF call[a].op = "ready" THEN @ \cup {p}
                                                                   ELSE @ \ {p}]
<1>1. r \in RoomIds
  BY RunningCall DEF SetReady
<1>2. CASE Member(r, p)
  <2>1. WellFormed(room[r]) /\ p \in room[r].members
    BY <1>1, <1>2, MemberRoom
  <2>2. WellFormed(rm)
    BY <2>1 DEF WellFormed, RoomSessions
  <2>3. room' = [room EXCEPT ![r] = rm]
    BY <1>2 DEF SetReady
  <2> QED
    BY <1>1, <2>2, <2>3, OneRoomReplaced, FinishType
    DEF OtherTypes, SetReady, connectionVars
<1>3. CASE ~ Member(r, p)
  BY <1>3, SameRooms, FinishType DEF OtherTypes, SetReady, connectionVars
<1> QED
  BY <1>2, <1>3

\* The three operations on the AI configuration and the game.
LEMMA SetAiConfigurationForms ==
  ASSUME RoomsFormed, OtherTypes, NEW a \in Callers, SetAiConfiguration(a)
  PROVE  RoomsFormed' /\ OtherTypes'
<1> DEFINE r == call[a].room
           provided == call[a].op = "configureKey"
           rm == [room[r] EXCEPT !.ai = IF KeyPresent(r, provided) THEN "keyed" ELSE "bare"]
<1>1. r \in RoomIds
  BY RunningCall DEF SetAiConfiguration
<1>2. CASE IsHost(r, call[a].player)
  <2>1. WellFormed(room[r])
    BY <1>1, <1>2, MemberRoom DEF IsHost
  <2>2. WellFormed(rm)
    BY <2>1 DEF WellFormed, RoomSessions
  <2>3. room' = [room EXCEPT ![r] = rm] /\ credentials' \subseteq RoomIds
    BY <1>1, <1>2 DEF SetAiConfiguration, OtherTypes
  <2> QED
    BY <1>1, <2>2, <2>3, OneRoomReplaced, FinishType
    DEF OtherTypes, SetAiConfiguration, connectionVars
<1>3. CASE ~ IsHost(r, call[a].player)
  BY <1>3, SameRooms, FinishType DEF OtherTypes, SetAiConfiguration, connectionVars
<1> QED
  BY <1>2, <1>3

LEMMA RemoveAiCredentialForms ==
  ASSUME RoomsFormed, OtherTypes, NEW a \in Callers, RemoveAiCredential(a)
  PROVE  RoomsFormed' /\ OtherTypes'
<1> DEFINE r == call[a].room
           rm == [room[r] EXCEPT !.ai = "bare"]
<1>1. r \in RoomIds
  BY RunningCall DEF RemoveAiCredential
<1>2. CASE IsHost(r, call[a].player) /\ room[r].ai # "none"
  <2>1. WellFormed(room[r])
    BY <1>1, <1>2, MemberRoom DEF IsHost
  <2>2. WellFormed(rm)
    BY <2>1 DEF WellFormed, RoomSessions
  <2>3. room' = [room EXCEPT ![r] = rm] /\ credentials' \subseteq RoomIds
    BY <1>1, <1>2 DEF RemoveAiCredential, OtherTypes
  <2> QED
    BY <1>1, <2>2, <2>3, OneRoomReplaced, FinishType
    DEF OtherTypes, RemoveAiCredential, connectionVars
<1>3. CASE ~ (IsHost(r, call[a].player) /\ room[r].ai # "none")
  BY <1>3, SameRooms, FinishType DEF OtherTypes, RemoveAiCredential, connectionVars
<1> QED
  BY <1>2, <1>3

LEMMA InitializeForms ==
  ASSUME RoomsFormed, OtherTypes, NEW a \in Callers, Initialize(a)
  PROVE  RoomsFormed' /\ OtherTypes'
<1> DEFINE r == call[a].room
<1>1. r \in RoomIds
  BY RunningCall DEF Initialize
<1>2. game' \in [RoomIds -> SUBSET PlayerIds]
  <2>1. CASE UNCHANGED game
    BY <2>1 DEF OtherTypes
  <2>2. CASE ~ UNCHANGED game
    <3>1. PICK owners \in SUBSET room[r].members \ {{}} : game' = [game EXCEPT ![r] = owners]
      BY <2>2 DEF Initialize
    <3>2. Member(r, call[a].player)
      BY <2>2 DEF Initialize, IsHost
    <3>3. room[r].members \subseteq PlayerIds
      BY <1>1, <3>2, MemberRoom DEF WellFormed, RoomSessions
    <3> QED
      BY <3>1, <3>3 DEF OtherTypes
  <2> QED
    BY <2>1, <2>2
<1> QED
  BY <1>2, SameRooms, FinishType DEF OtherTypes, Initialize, connectionVars

LEMMA AttachForms ==
  ASSUME RoomsFormed, OtherTypes, NEW a \in Callers, Attach(a)
  PROVE  RoomsFormed' /\ OtherTypes'
<1> DEFINE r == call[a].room
           p == call[a].player
           c == call[a].conn
           rm == [room[r] EXCEPT !.connected = @ \cup {p}]
<1>1. r \in RoomIds /\ c \in Conns /\ Member(r, p)
  BY RunningCall DEF Attach
<1>2. WellFormed(room[r]) /\ p \in room[r].members /\ p \in PlayerIds
  BY <1>1, MemberRoom
<1>3. WellFormed(rm)
  BY <1>2 DEF WellFormed, RoomSessions
<1>4. room' = [room EXCEPT ![r] = rm] \/ UNCHANGED room
  BY DEF Attach
<1>5. RoomsFormed'
  BY <1>1, <1>3, <1>4, OneRoomReplaced, SameRooms
<1>6. /\ identity' \in [Conns -> PlayerIds \cup {NoPlayer}]
      /\ group' \in [RoomIds -> SUBSET Conns]
  BY <1>1, <1>2 DEF Attach, OtherTypes
<1> QED
  BY <1>5, <1>6, FinishType DEF OtherTypes, Attach

LEMMA AttachRejectedForms ==
  ASSUME RoomsFormed, OtherTypes, NEW a \in Callers, AttachRejected(a)
  PROVE  RoomsFormed' /\ OtherTypes'
<1>1. call[a].room \in RoomIds /\ call[a].conn \in Conns
  BY RunningCall DEF AttachRejected
<1>2. /\ identity' \in [Conns -> PlayerIds \cup {NoPlayer}]
      /\ group' \in [RoomIds -> SUBSET Conns]
  BY <1>1 DEF AttachRejected, OtherTypes
<1> QED
  BY <1>2, SameRooms, FinishType DEF OtherTypes, AttachRejected, storeVars

LEMMA LosesForm ==
  ASSUME RoomsFormed, OtherTypes, NEW c \in Conns, Lose(c) \/ NoticeLoss(c)
  PROVE  RoomsFormed' /\ OtherTypes'
  BY SameRooms DEF OtherTypes, Lose, NoticeLoss, storeVars

LEMMA DisconnectForms ==
  ASSUME RoomsFormed, OtherTypes, AttachedAtHome, NEW c \in Conns, Disconnect(c)
  PROVE  RoomsFormed' /\ OtherTypes'
<1>1. socket' \in [Conns -> {"new", "open", "lost", "closing", "gone"}]
  BY DEF OtherTypes, Disconnect
<1>2. CASE identity[c] = NoPlayer
  BY <1>1, <1>2, SameRooms DEF OtherTypes, Disconnect
<1>3. CASE identity[c] # NoPlayer
  <2> DEFINE p == identity[c]
             r == home[p]
             rm == [room[r] EXCEPT !.connected = @ \ {p}]
  <2>1. /\ identity' = [identity EXCEPT ![c] = NoPlayer]
        /\ group' = [group EXCEPT ![r] = @ \ {c}]
        /\ room' = IF IsLast(c) /\ Member(r, p) THEN [room EXCEPT ![r] = rm] ELSE room
    BY <1>3 DEF Disconnect
  <2>2. OtherTypes'
    BY <1>1, <2>1 DEF OtherTypes, Disconnect
  <2>3. RoomsFormed'
    <3>1. CASE Member(r, p)
      <4>1. r \in RoomIds
        BY <1>3 DEF AttachedAtHome
      <4>2. WellFormed(room[r])
        BY <3>1, <4>1, MemberRoom
      <4>3. WellFormed(rm)
        BY <4>2 DEF WellFormed, RoomSessions
      <4> QED
        BY <2>1, <4>1, <4>3, OneRoomReplaced, SameRooms
    <3>2. CASE ~ Member(r, p)
      BY <2>1, <3>2, SameRooms
    <3> QED
      BY <3>1, <3>2
  <2> QED
    BY <2>2, <2>3
<1> QED
  BY <1>2, <1>3

-----------------------------------------------------------------------------
(* The stores agree.                                                       *)

StoresAgree ==
  SessionsAreMembers /\ CodesLeadToOpenRooms /\ CredentialsAreShown /\ GameKeepsItsTable

LEMMA SameStores ==
  ASSUME StoresAgree, UNCHANGED storeVars
  PROVE  StoresAgree'
  BY DEF StoresAgree, SessionsAreMembers, CodesLeadToOpenRooms, CredentialsAreShown,
         GameKeepsItsTable, storeVars, Exists, Member

\* A step that changes nothing of the stores but one room, and not its members.
LEMMA SameMembers ==
  ASSUME RoomsFormed, OtherTypes, StoresAgree, NEW r \in RoomIds, NEW rm \in RoomSessions, Exists(r),
         rm.members = room[r].members, room' = [room EXCEPT ![r] = rm],
         UNCHANGED <<sessions, home, codeOf, roomOf, game>>
  PROVE  SessionsAreMembers' /\ CodesLeadToOpenRooms' /\ GameKeepsItsTable'
<1>1. \A s \in RoomIds : /\ Exists(s)' <=> Exists(s)
                         /\ Exists(s) => room'[s].members = room[s].members
  BY RoomsAssumption DEF RoomsFormed, Exists
<1>2. \A s \in RoomIds : \A p : Member(s, p)' <=> Member(s, p)
  BY <1>1 DEF Member
<1>3. SessionsAreMembers'
  <2>1. \A p \in PlayerIds : home[p] \in RoomIds \cup {NoRoom}
    BY DEF OtherTypes
  <2>2. \A p \in PlayerIds :
          p \in sessions' <=> (home'[p] # NoRoom /\ Member(home[p], p)')
    BY <1>2, <2>1 DEF StoresAgree, SessionsAreMembers, Member, Exists
  <2>3. \A s \in RoomIds : Exists(s)' => \A p \in room'[s].members : home'[p] = s
    BY <1>1 DEF StoresAgree, SessionsAreMembers
  <2> QED
    BY <2>2, <2>3 DEF SessionsAreMembers
<1>4. CodesLeadToOpenRooms'
  BY <1>1 DEF StoresAgree, CodesLeadToOpenRooms
<1>5. GameKeepsItsTable'
  BY <1>1 DEF StoresAgree, GameKeepsItsTable
<1> QED
  BY <1>3, <1>4, <1>5

LEMMA CreateStores ==
  ASSUME RoomsFormed, OtherTypes, StoresAgree, Create
  PROVE  StoresAgree'
<1>1. PICK r \in RoomIds, p \in PlayerIds, code \in Codes, capacity \in Capacities :
        /\ \A q \in PlayerIds : home[q] # r
        /\ home[p] = NoRoom
        /\ roomOf[code] = NoRoom
        /\ room' = [room EXCEPT ![r] = [host |-> p, capacity |-> capacity, members |-> {p},
                                        ready |-> {}, connected |-> {}, ai |-> "none"]]
        /\ sessions' = sessions \cup {p}
        /\ home' = [home EXCEPT ![p] = r]
        /\ codeOf' = [codeOf EXCEPT ![r] = code]
        /\ roomOf' = [roomOf EXCEPT ![code] = r]
        /\ UNCHANGED <<credentials, game, connectionVars, call>>
  BY DEF Create
<1>2. ~ Exists(r)
  <2>1. SUFFICES ASSUME Exists(r) PROVE FALSE
    OBVIOUS
  <2>2. room[r].host \in room[r].members /\ room[r].host \in PlayerIds
    BY <2>1 DEF RoomsFormed, WellFormed, RoomSessions
  <2> QED
    BY <1>1, <2>1, <2>2 DEF StoresAgree, SessionsAreMembers
<1>3. /\ room'[r] = [host |-> p, capacity |-> capacity, members |-> {p},
                     ready |-> {}, connected |-> {}, ai |-> "none"]
      /\ Exists(r)'
      /\ \A s \in RoomIds \ {r} : room'[s] = room[s]
  BY <1>1, RoomsAssumption DEF RoomsFormed, Exists, RoomSessions
<1>4. home'[p] = r /\ \A q \in PlayerIds \ {p} : home'[q] = home[q]
  BY <1>1 DEF OtherTypes
<1>5. SessionsAreMembers'
  <2>1. \A q \in PlayerIds : q \in sessions' <=> (home'[q] # NoRoom /\ Member(home[q], q)')
    <3>1. SUFFICES ASSUME NEW q \in PlayerIds
                   PROVE  q \in sessions' <=> (home'[q] # NoRoom /\ Member(home[q], q)')
      OBVIOUS
    <3>2. CASE q = p
      BY <1>1, <1>3, <1>4, <3>2, RoomsAssumption DEF Member, Exists
    <3>3. CASE q # p
      <4>1. home'[q] = home[q] /\ home[q] # r /\ (q \in sessions' <=> q \in sessions)
        BY <1>1, <1>4, <3>3
      <4>2. home[q] # NoRoom => (Member(home[q], q)' <=> Member(home[q], q))
        BY <1>3, <4>1 DEF OtherTypes, Member, Exists
      <4> QED
        BY <4>1, <4>2 DEF StoresAgree, SessionsAreMembers, Member, Exists
    <3> QED
      BY <3>2, <3>3
  <2>2. \A s \in RoomIds : Exists(s)' => \A q \in room'[s].members : home'[q] = s
    <3>1. SUFFICES ASSUME NEW s \in RoomIds, Exists(s)', NEW q \in room'[s].members
                   PROVE  home'[q] = s
      OBVIOUS
    <3>2. CASE s = r
      BY <1>3, <1>4, <3>1, <3>2
    <3>3. CASE s # r
      <4>1. Exists(s) /\ q \in room[s].members
        BY <1>3, <3>1, <3>3 DEF Exists
      <4>2. q \in PlayerIds /\ home[q] = s
        BY <4>1 DEF RoomsFormed, WellFormed, RoomSessions, StoresAgree, SessionsAreMembers
      <4>3. q # p
        BY <1>1, <4>2, RoomsAssumption
      <4> QED
        BY <1>4, <4>2, <4>3
    <3> QED
      BY <3>2, <3>3
  <2> QED
    BY <2>1, <2>2 DEF SessionsAreMembers
<1>6. CodesLeadToOpenRooms'
  <2>1. codeOf[r] = NoCode
    BY <1>2 DEF StoresAgree, CodesLeadToOpenRooms
  <2>2. \A s \in RoomIds : Exists(s)' <=> codeOf'[s] # NoCode
    BY <1>1, <1>3, RoomsAssumption
    DEF StoresAgree, CodesLeadToOpenRooms, OtherTypes, Exists
  <2>3. \A s \in RoomIds, k \in Codes : codeOf'[s] = k <=> roomOf'[k] = s
    BY <1>1, <2>1, RoomsAssumption DEF StoresAgree, CodesLeadToOpenRooms, OtherTypes
  <2> QED
    BY <2>2, <2>3 DEF CodesLeadToOpenRooms
<1>7. CredentialsAreShown'
  BY <1>1, <1>2, <1>3 DEF StoresAgree, CredentialsAreShown, Exists
<1>8. GameKeepsItsTable'
  BY <1>1, <1>2, <1>3 DEF StoresAgree, GameKeepsItsTable, Exists
<1> QED
  BY <1>5, <1>6, <1>7, <1>8 DEF StoresAgree

LEMMA JoinStores ==
  ASSUME RoomsFormed, OtherTypes, StoresAgree, NEW a \in Callers, Join(a)
  PROVE  StoresAgree'
<1> DEFINE r == call[a].room
<1>1. r \in RoomIds /\ Exists(r)
  BY RunningCall DEF Join, Joinable
<1>2. PICK p \in PlayerIds :
        /\ home[p] = NoRoom
        /\ room' = [room EXCEPT ![r].members = @ \cup {p}]
        /\ home' = [home EXCEPT ![p] = r]
        /\ sessions' = sessions \cup {p}
  BY DEF Join
<1>3. /\ room'[r] = [room[r] EXCEPT !.members = @ \cup {p}]
      /\ \A s \in RoomIds \ {r} : room'[s] = room[s]
  BY <1>1, <1>2 DEF RoomsFormed
<1>4. /\ WellFormed(room[r])
      /\ room'[r] \in RoomSessions
      /\ room'[r].members = room[r].members \cup {p}
      /\ room'[r].ai = room[r].ai
  BY <1>1, <1>3 DEF RoomsFormed, WellFormed, RoomSessions
<1>5. \A s \in RoomIds : Exists(s)' <=> Exists(s)
  BY <1>1, <1>3, <1>4, RoomsAssumption DEF Exists
<1>6. home'[p] = r /\ \A q \in PlayerIds \ {p} : home'[q] = home[q]
  BY <1>2 DEF OtherTypes
<1>7. SessionsAreMembers'
  <2>1. \A q \in PlayerIds : q \in sessions' <=> (home'[q] # NoRoom /\ Member(home[q], q)')
    <3>1. SUFFICES ASSUME NEW q \in PlayerIds
                   PROVE  q \in sessions' <=> (home'[q] # NoRoom /\ Member(home[q], q)')
      OBVIOUS
    <3>2. CASE q = p
      BY <1>1, <1>2, <1>4, <1>5, <1>6, <3>2, RoomsAssumption DEF Member
    <3>3. CASE q # p
      <4>1. home'[q] = home[q] /\ (q \in sessions' <=> q \in sessions)
        BY <1>2, <1>6, <3>3
      <4>2. \A s \in RoomIds : Member(s, q)' <=> Member(s, q)
        BY <1>3, <1>4, <1>5, <3>3 DEF Member
      <4>3. home[q] \in RoomIds \cup {NoRoom}
        BY DEF OtherTypes
      <4> QED
        BY <4>1, <4>2, <4>3 DEF StoresAgree, SessionsAreMembers, Member, Exists
    <3> QED
      BY <3>2, <3>3
  <2>2. \A s \in RoomIds : Exists(s)' => \A q \in room'[s].members : home'[q] = s
    <3>1. SUFFICES ASSUME NEW s \in RoomIds, Exists(s)', NEW q \in room'[s].members
                   PROVE  home'[q] = s
      OBVIOUS
    <3>2. CASE q = p /\ s = r
      BY <1>6, <3>2
    <3>3. CASE ~ (q = p /\ s = r)
      <4>1. Exists(s) /\ q \in room[s].members
        BY <1>3, <1>4, <1>5, <3>1, <3>3
      <4>2. q \in PlayerIds /\ home[q] = s
        BY <4>1 DEF RoomsFormed, WellFormed, RoomSessions, StoresAgree, SessionsAreMembers
      <4>3. q # p
        BY <1>2, <4>2, RoomsAssumption
      <4> QED
        BY <1>6, <4>2, <4>3
    <3> QED
      BY <3>2, <3>3
  <2> QED
    BY <2>1, <2>2 DEF SessionsAreMembers
<1>8. UNCHANGED <<codeOf, roomOf, credentials, game>>
  BY DEF Join
<1>9. CodesLeadToOpenRooms'
  BY <1>5, <1>8 DEF StoresAgree, CodesLeadToOpenRooms
<1>10. CredentialsAreShown'
  BY <1>3, <1>4, <1>5, <1>8 DEF StoresAgree, CredentialsAreShown
<1>11. GameKeepsItsTable'
  BY <1>3, <1>4, <1>5, <1>8 DEF StoresAgree, GameKeepsItsTable
<1> QED
  BY <1>7, <1>9, <1>10, <1>11 DEF StoresAgree

LEMMA MemberLeavesStores ==
  ASSUME RoomsFormed, OtherTypes, StoresAgree, NEW a \in Callers, MemberLeaves(a)
  PROVE  StoresAgree'
<1> DEFINE r == call[a].room
           p == call[a].player
<1>1. r \in RoomIds /\ Member(r, p) /\ room[r].host # p /\ game[r] = {}
  BY RunningCall DEF MemberLeaves, MayLeave
<1>2. WellFormed(room[r]) /\ Exists(r) /\ p \in PlayerIds
  BY <1>1, MemberRoom
<1>3. home[p] = r
  BY <1>1, <1>2 DEF StoresAgree, SessionsAreMembers, Member
<1>4. /\ room' = [room EXCEPT ![r].members = @ \ {p}, ![r].ready = @ \ {p},
                              ![r].connected = @ \ {p}]
      /\ sessions' = sessions \ {p}
      /\ UNCHANGED <<home, codeOf, roomOf, credentials, game>>
  BY DEF MemberLeaves
<1>5. /\ room'[r] \in RoomSessions
      /\ room'[r].members = room[r].members \ {p}
      /\ room'[r].ai = room[r].ai
      /\ \A s \in RoomIds \ {r} : room'[s] = room[s]
  BY <1>1, <1>2, <1>4 DEF RoomsFormed, WellFormed, RoomSessions
<1>6. \A s \in RoomIds : Exists(s)' <=> Exists(s)
  BY <1>2, <1>5, RoomsAssumption DEF Exists
<1>7. SessionsAreMembers'
  <2>1. \A q \in PlayerIds : q \in sessions' <=> (home'[q] # NoRoom /\ Member(home[q], q)')
    <3>1. SUFFICES ASSUME NEW q \in PlayerIds
                   PROVE  q \in sessions' <=> (home'[q] # NoRoom /\ Member(home[q], q)')
      OBVIOUS
    <3>2. CASE q = p
      BY <1>3, <1>4, <1>5, <3>2 DEF Member
    <3>3. CASE q # p
      <4>1. \A s \in RoomIds : Member(s, q)' <=> Member(s, q)
        BY <1>5, <1>6, <3>3 DEF Member
      <4>2. home[q] \in RoomIds \cup {NoRoom}
        BY DEF OtherTypes
      <4> QED
        BY <1>4, <3>3, <4>1, <4>2 DEF StoresAgree, SessionsAreMembers, Member, Exists
    <3> QED
      BY <3>2, <3>3
  <2>2. \A s \in RoomIds : Exists(s)' => \A q \in room'[s].members : home'[q] = s
    BY <1>4, <1>5, <1>6 DEF StoresAgree, SessionsAreMembers
  <2> QED
    BY <2>1, <2>2 DEF SessionsAreMembers
<1>8. CodesLeadToOpenRooms'
  BY <1>4, <1>6 DEF StoresAgree, CodesLeadToOpenRooms
<1>9. CredentialsAreShown'
  BY <1>4, <1>5, <1>6 DEF StoresAgree, CredentialsAreShown
<1>10. GameKeepsItsTable'
  BY <1>1, <1>4, <1>5, <1>6 DEF StoresAgree, GameKeepsItsTable
<1> QED
  BY <1>7, <1>8, <1>9, <1>10 DEF StoresAgree

LEMMA HostClosesStores ==
  ASSUME RoomsFormed, OtherTypes, StoresAgree, NEW a \in Callers, HostCloses(a)
  PROVE  StoresAgree'
<1> DEFINE r == call[a].room
<1>1. r \in RoomIds
  BY RunningCall DEF HostCloses
<1>2. /\ room' = [room EXCEPT ![r] = NoRoom]
      /\ credentials' = credentials \ {r}
      /\ game' = [game EXCEPT ![r] = {}]
      /\ sessions' = {p \in sessions : home[p] # r}
      /\ RemoveCode(r)
      /\ UNCHANGED home
  BY DEF HostCloses, SessionsOf
<1>3. room'[r] = NoRoom /\ \A s \in RoomIds \ {r} : room'[s] = room[s]
  BY <1>1, <1>2 DEF RoomsFormed
<1>4. SessionsAreMembers'
  <2>1. \A q \in PlayerIds : q \in sessions' <=> (home'[q] # NoRoom /\ Member(home[q], q)')
    <3>1. SUFFICES ASSUME NEW q \in PlayerIds
                   PROVE  q \in sessions' <=> (home'[q] # NoRoom /\ Member(home[q], q)')
      OBVIOUS
    <3>2. CASE home[q] = r
      BY <1>2, <1>3, <3>2 DEF Member, Exists
    <3>3. CASE home[q] # r
      <4>1. \A s \in RoomIds \ {r} : Member(s, q)' <=> Member(s, q)
        BY <1>3 DEF Member, Exists
      <4>2. home[q] \in RoomIds \cup {NoRoom}
        BY DEF OtherTypes
      <4> QED
        BY <1>2, <3>3, <4>1, <4>2 DEF StoresAgree, SessionsAreMembers, Member, Exists
    <3> QED
      BY <3>2, <3>3
  <2>2. \A s \in RoomIds : Exists(s)' => \A q \in room'[s].members : home'[q] = s
    BY <1>2, <1>3 DEF StoresAgree, SessionsAreMembers, Exists
  <2> QED
    BY <2>1, <2>2 DEF SessionsAreMembers
<1>5. CodesLeadToOpenRooms'
  <2>1. \A s \in RoomIds : Exists(s)' <=> codeOf'[s] # NoCode
    BY <1>1, <1>2, <1>3 DEF StoresAgree, CodesLeadToOpenRooms, OtherTypes, RemoveCode, Exists
  <2>2. \A s \in RoomIds, k \in Codes : codeOf'[s] = k <=> roomOf'[k] = s
    BY <1>1, <1>2, RoomsAssumption
    DEF StoresAgree, CodesLeadToOpenRooms, OtherTypes, RemoveCode
  <2> QED
    BY <2>1, <2>2 DEF CodesLeadToOpenRooms
<1>6. CredentialsAreShown'
  BY <1>1, <1>2, <1>3 DEF StoresAgree, CredentialsAreShown, Exists
<1>7. GameKeepsItsTable'
  BY <1>1, <1>2, <1>3 DEF StoresAgree, GameKeepsItsTable, OtherTypes, Exists
<1> QED
  BY <1>4, <1>5, <1>6, <1>7 DEF StoresAgree

\* A room that is gone has no code any more: there is nothing to take down.
LEMMA JoinRefusedStores ==
  ASSUME RoomsFormed, OtherTypes, StoresAgree, NEW a \in Callers, JoinRefused(a)
  PROVE  StoresAgree'
<1> DEFINE r == call[a].room
<1>1. r \in RoomIds
  BY RunningCall DEF JoinRefused
<1>2. UNCHANGED <<codeOf, roomOf>>
  <2>1. CASE game[r] = {} /\ ~ Exists(r)
    <3>1. codeOf[r] = NoCode /\ RemoveCode(r)
      BY <1>1, <2>1 DEF JoinRefused, StoresAgree, CodesLeadToOpenRooms
    <3>2. codeOf' = codeOf
      BY <1>1, <3>1 DEF OtherTypes, RemoveCode
    <3>3. roomOf' = roomOf
      BY <3>1, RoomsAssumption DEF OtherTypes, RemoveCode
    <3> QED
      BY <3>2, <3>3
  <2>2. CASE ~ (game[r] = {} /\ ~ Exists(r))
    BY <2>2 DEF JoinRefused
  <2> QED
    BY <2>1, <2>2
<1> QED
  BY <1>2, SameStores DEF JoinRefused, storeVars

LEMMA SetReadyStores ==
  ASSUME RoomsFormed, OtherTypes, StoresAgree, NEW a \in Callers, SetReady(a)
  PROVE  StoresAgree'
<1> DEFINE r == call[a].room
           p == call[a].player
           rm == [room[r] EXCEPT !.ready = IF call[a].op = "ready" THEN @ \cup {p}
                                                                   ELSE @ \ {p}]
<1>1. r \in RoomIds
  BY RunningCall DEF SetReady
<1>2. UNCHANGED <<sessions, home, codeOf, roomOf, credentials, game>>
  BY DEF SetReady
<1>3. CASE Member(r, p)
  <2>1. WellFormed(room[r]) /\ Exists(r) /\ p \in PlayerIds
    BY <1>1, <1>3, MemberRoom
  <2>2. rm \in RoomSessions /\ rm.members = room[r].members /\ rm.ai = room[r].ai
    BY <2>1 DEF WellFormed, RoomSessions
  <2>3. room' = [room EXCEPT ![r] = rm]
    BY <1>3 DEF SetReady
  <2>4. SessionsAreMembers' /\ CodesLeadToOpenRooms' /\ GameKeepsItsTable'
    BY <1>1, <1>2, <2>1, <2>2, <2>3, SameMembers
  <2>5. CredentialsAreShown'
    BY <1>1, <1>2, <2>1, <2>2, <2>3, RoomsAssumption
    DEF StoresAgree, CredentialsAreShown, RoomsFormed, Exists
  <2> QED
    BY <2>4, <2>5 DEF StoresAgree
<1>4. CASE ~ Member(r, p)
  BY <1>2, <1>4, SameStores DEF SetReady, storeVars
<1> QED
  BY <1>3, <1>4

\* The stored credential and the room change together.
LEMMA SetAiConfigurationStores ==
  ASSUME RoomsFormed, OtherTypes, StoresAgree, NEW a \in Callers, SetAiConfiguration(a)
  PROVE  StoresAgree'
<1> DEFINE r == call[a].room
           provided == call[a].op = "configureKey"
           rm == [room[r] EXCEPT !.ai = IF KeyPresent(r, provided) THEN "keyed" ELSE "bare"]
<1>1. r \in RoomIds
  BY RunningCall DEF SetAiConfiguration
<1>2. UNCHANGED <<sessions, home, codeOf, roomOf, game>>
  BY DEF SetAiConfiguration
<1>3. CASE IsHost(r, call[a].player)
  <2>1. WellFormed(room[r]) /\ Exists(r)
    BY <1>1, <1>3, MemberRoom DEF IsHost
  <2>2. /\ rm \in RoomSessions /\ rm.members = room[r].members
        /\ rm.ai = "keyed" <=> KeyPresent(r, provided)
    BY <2>1 DEF WellFormed, RoomSessions
  <2>3. /\ room' = [room EXCEPT ![r] = rm]
        /\ credentials' = IF provided THEN credentials \cup {r} ELSE credentials
    BY <1>3 DEF SetAiConfiguration
  <2>4. SessionsAreMembers' /\ CodesLeadToOpenRooms' /\ GameKeepsItsTable'
    BY <1>1, <1>2, <2>1, <2>2, <2>3, SameMembers
  <2>5. CredentialsAreShown'
    BY <1>1, <2>1, <2>2, <2>3, RoomsAssumption
    DEF StoresAgree, CredentialsAreShown, RoomsFormed, Exists, KeyPresent
  <2> QED
    BY <2>4, <2>5 DEF StoresAgree
<1>4. CASE ~ IsHost(r, call[a].player)
  BY <1>2, <1>4, SameStores DEF SetAiConfiguration, storeVars
<1> QED
  BY <1>3, <1>4

LEMMA RemoveAiCredentialStores ==
  ASSUME RoomsFormed, OtherTypes, StoresAgree, NEW a \in Callers, RemoveAiCredential(a)
  PROVE  StoresAgree'
<1> DEFINE r == call[a].room
           rm == [room[r] EXCEPT !.ai = "bare"]
<1>1. r \in RoomIds
  BY RunningCall DEF RemoveAiCredential
<1>2. UNCHANGED <<sessions, home, codeOf, roomOf, game>>
  BY DEF RemoveAiCredential
<1>3. CASE IsHost(r, call[a].player) /\ room[r].ai # "none"
  <2>1. WellFormed(room[r]) /\ Exists(r)
    BY <1>1, <1>3, MemberRoom DEF IsHost
  <2>2. rm \in RoomSessions /\ rm.members = room[r].members /\ rm.ai = "bare"
    BY <2>1 DEF WellFormed, RoomSessions
  <2>3. room' = [room EXCEPT ![r] = rm] /\ credentials' = credentials \ {r}
    BY <1>3 DEF RemoveAiCredential
  <2>4. SessionsAreMembers' /\ CodesLeadToOpenRooms' /\ GameKeepsItsTable'
    BY <1>1, <1>2, <2>1, <2>2, <2>3, SameMembers
  <2>5. CredentialsAreShown'
    BY <1>1, <2>1, <2>2, <2>3, RoomsAssumption
    DEF StoresAgree, CredentialsAreShown, RoomsFormed, Exists
  <2> QED
    BY <2>4, <2>5 DEF StoresAgree
<1>4. CASE ~ (IsHost(r, call[a].player) /\ room[r].ai # "none")
  BY <1>2, <1>4, SameStores DEF RemoveAiCredential, storeVars
<1> QED
  BY <1>3, <1>4

LEMMA InitializeStores ==
  ASSUME OtherTypes, StoresAgree, NEW a \in Callers, Initialize(a)
  PROVE  StoresAgree'
<1> DEFINE r == call[a].room
<1>1. r \in RoomIds
  BY RunningCall DEF Initialize
<1>2. UNCHANGED <<room, sessions, home, codeOf, roomOf, credentials>>
  BY DEF Initialize
<1>3. CASE UNCHANGED game
  BY <1>2, <1>3, SameStores DEF storeVars
<1>4. CASE ~ UNCHANGED game
  <2>1. PICK owners \in SUBSET room[r].members \ {{}} : game' = [game EXCEPT ![r] = owners]
    BY <1>4 DEF Initialize
  <2>2. Exists(r)
    BY <1>4 DEF Initialize, IsHost, Member
  <2>3. GameKeepsItsTable'
    BY <1>1, <1>2, <2>1, <2>2 DEF StoresAgree, GameKeepsItsTable, OtherTypes, Exists
  <2> QED
    BY <1>2, <2>3 DEF StoresAgree, SessionsAreMembers, CodesLeadToOpenRooms,
                      CredentialsAreShown, Exists, Member
<1> QED
  BY <1>3, <1>4

\* Presence is no business of the stores.
LEMMA PresenceStores ==
  ASSUME RoomsFormed, OtherTypes, StoresAgree, NEW r \in RoomIds, Exists(r),
         NEW connected \in SUBSET PlayerIds,
         room' = [room EXCEPT ![r].connected = connected],
         UNCHANGED <<sessions, home, codeOf, roomOf, credentials, game>>
  PROVE  StoresAgree'
<1> DEFINE rm == [room[r] EXCEPT !.connected = connected]
<1>1. rm \in RoomSessions /\ rm.members = room[r].members /\ rm.ai = room[r].ai
  BY DEF RoomsFormed, WellFormed, RoomSessions
<1>2. room' = [room EXCEPT ![r] = rm]
  OBVIOUS
<1>3. SessionsAreMembers' /\ CodesLeadToOpenRooms' /\ GameKeepsItsTable'
  BY <1>1, <1>2, SameMembers
<1>4. CredentialsAreShown'
  BY <1>1, <1>2, RoomsAssumption DEF StoresAgree, CredentialsAreShown, RoomsFormed, Exists
<1> QED
  BY <1>3, <1>4 DEF StoresAgree

LEMMA AttachStores ==
  ASSUME RoomsFormed, OtherTypes, StoresAgree, NEW a \in Callers, Attach(a)
  PROVE  StoresAgree'
<1> DEFINE r == call[a].room
           p == call[a].player
<1>1. r \in RoomIds /\ Member(r, p)
  BY RunningCall DEF Attach
<1>2. Exists(r) /\ WellFormed(room[r]) /\ p \in PlayerIds
  BY <1>1, MemberRoom
<1>3. UNCHANGED <<sessions, home, codeOf, roomOf, credentials, game>>
  BY DEF Attach
<1>4. CASE room' = room
  BY <1>3, <1>4, SameStores DEF storeVars
<1>5. CASE room' # room
  <2>1. room' = [room EXCEPT ![r].connected = room[r].connected \cup {p}]
    BY <1>5 DEF Attach
  <2>2. room[r].connected \cup {p} \in SUBSET PlayerIds
    BY <1>2 DEF WellFormed, RoomSessions
  <2> QED
    BY <1>1, <1>2, <1>3, <2>1, <2>2, PresenceStores
<1> QED
  BY <1>4, <1>5

LEMMA DisconnectStores ==
  ASSUME RoomsFormed, OtherTypes, AttachedAtHome, StoresAgree, NEW c \in Conns, Disconnect(c)
  PROVE  StoresAgree'
<1> DEFINE p == identity[c]
           r == home[p]
<1>1. UNCHANGED <<sessions, home, codeOf, roomOf, credentials, game>>
  BY DEF Disconnect
<1>2. CASE room' = room
  BY <1>1, <1>2, SameStores DEF storeVars
<1>3. CASE room' # room
  <2>1. /\ p # NoPlayer /\ Member(r, p)
        /\ room' = [room EXCEPT ![r].connected = room[r].connected \ {p}]
    BY <1>3 DEF Disconnect
  <2>2. r \in RoomIds
    BY <2>1 DEF AttachedAtHome
  <2>3. Exists(r) /\ room[r].connected \ {p} \in SUBSET PlayerIds
    BY <2>1, <2>2, MemberRoom DEF WellFormed, RoomSessions
  <2> QED
    BY <1>1, <2>1, <2>2, <2>3, PresenceStores
<1> QED
  BY <1>2, <1>3

-----------------------------------------------------------------------------
(* The registry, the groups and the presence agree.                        *)

\* An attachment under way is the only one of its connection, and the first.
FirstAttachments ==
  \A a \in Callers : call[a] # Idle /\ call[a].op = "attach" =>
    /\ identity[call[a].conn] = NoPlayer
    /\ socket[call[a].conn] # "new"
    /\ \A b \in Callers \ {a} :
         call[b] # Idle /\ call[b].op = "attach" => call[b].conn # call[a].conn

NewConnections ==
  \A c \in Conns : socket[c] = "new" =>
    identity[c] = NoPlayer /\ \A r \in RoomIds : c \notin group[r]

ClosedGroups == \A r \in RoomIds : ~ Exists(r) => group[r] = {}

ConnectionsAgree ==
  /\ PresenceIsAttachment /\ NewsReachMembersOnly
  /\ AttachedAtHome /\ FirstAttachments /\ NewConnections /\ ClosedGroups

LEMMA FinishEndsOne ==
  ASSUME OtherTypes, NEW a \in Callers, Finish(a)
  PROVE  /\ call'[a] = Idle
         /\ \A b \in Callers \ {a} : call'[b] = call[b]
         /\ \A b \in Callers : call'[b] \in {call[b], Idle}
  BY DEF OtherTypes, Finish

LEMMA AttachmentsStayFirst ==
  ASSUME FirstAttachments,
         \A b \in Callers : call'[b] \in {call[b], Idle},
         \A b \in Callers : call'[b] # Idle /\ call'[b].op = "attach" =>
           identity'[call[b].conn] = NoPlayer /\ socket'[call[b].conn] # "new"
  PROVE  FirstAttachments'
<1>1. \A b \in Callers : call'[b] # Idle => call'[b] = call[b]
  OBVIOUS
<1> QED
  BY <1>1 DEF FirstAttachments

\* A call that leaves the connections alone, and of the rooms what they show.
LEMMA SameConnections ==
  ASSUME ConnectionsAgree, UNCHANGED <<identity, group, socket, stranded, home>>,
         \A b \in Callers : call'[b] \in {call[b], Idle},
         \A s \in RoomIds :
           /\ Exists(s)' <=> Exists(s)
           /\ Exists(s) => /\ room'[s].members = room[s].members
                           /\ room'[s].connected = room[s].connected
  PROVE  ConnectionsAgree'
<1>1. PresenceIsAttachment'
  BY DEF ConnectionsAgree, PresenceIsAttachment, ConnectionsOf
<1>2. NewsReachMembersOnly'
  <2>1. \A c \in Conns : socket'[c] = "open" =>
          \A r \in RoomIds : Exists(r)' => (c \in group'[r] <=> c \in RoomConnections(r)')
    BY DEF ConnectionsAgree, NewsReachMembersOnly, RoomConnections
  <2>2. \A c \in Conns : identity'[c] # NoPlayer /\ c \notin stranded' =>
          Member(home[identity[c]], identity[c])'
    <3>1. \A s \in RoomIds : \A q : Member(s, q)' <=> Member(s, q)
      BY DEF Member
    <3> QED
      BY <3>1 DEF ConnectionsAgree, NewsReachMembersOnly, AttachedAtHome, Member, Exists
  <2> QED
    BY <2>1, <2>2 DEF NewsReachMembersOnly
<1>3. AttachedAtHome' /\ NewConnections'
  BY DEF ConnectionsAgree, AttachedAtHome, NewConnections
<1>4. FirstAttachments'
  BY AttachmentsStayFirst DEF ConnectionsAgree, FirstAttachments
<1>5. ClosedGroups'
  BY DEF ConnectionsAgree, ClosedGroups
<1> QED
  BY <1>1, <1>2, <1>3, <1>4, <1>5 DEF ConnectionsAgree

\* Changes of one room that do not touch its members or their presence.
LEMMA SameShownRoom ==
  ASSUME RoomsFormed, NEW r \in RoomIds, Exists(r), NEW rm \in RoomSessions,
         room' = [room EXCEPT ![r] = rm],
         rm.members = room[r].members, rm.connected = room[r].connected
  PROVE  \A s \in RoomIds :
           /\ Exists(s)' <=> Exists(s)
           /\ Exists(s) => /\ room'[s].members = room[s].members
                           /\ room'[s].connected = room[s].connected
  BY RoomsAssumption DEF RoomsFormed, Exists

LEMMA UnchangedRooms ==
  ASSUME UNCHANGED room
  PROVE  \A s \in RoomIds :
           /\ Exists(s)' <=> Exists(s)
           /\ Exists(s) => /\ room'[s].members = room[s].members
                           /\ room'[s].connected = room[s].connected
  BY DEF Exists

LEMMA RoomChangesConnections ==
  ASSUME RoomsFormed, OtherTypes, ConnectionsAgree, NEW a \in Callers,
         \/ JoinRefused(a) \/ LeaveRefused(a) \/ SetReady(a)
         \/ SetAiConfiguration(a) \/ RemoveAiCredential(a) \/ Initialize(a)
  PROVE  ConnectionsAgree'
<1> DEFINE r == call[a].room
           p == call[a].player
           Shown == \A s \in RoomIds :
                      /\ Exists(s)' <=> Exists(s)
                      /\ Exists(s) => /\ room'[s].members = room[s].members
                                      /\ room'[s].connected = room[s].connected
<1>1. r \in RoomIds /\ \A b \in Callers : call'[b] \in {call[b], Idle}
  BY RunningCall, FinishEndsOne
  DEF JoinRefused, LeaveRefused, SetReady, SetAiConfiguration, RemoveAiCredential, Initialize
<1>2. UNCHANGED <<identity, group, socket, stranded, home>>
  BY DEF JoinRefused, LeaveRefused, SetReady, SetAiConfiguration, RemoveAiCredential,
         Initialize, connectionVars, storeVars
<1>3. CASE room' = room
  BY <1>1, <1>2, <1>3, UnchangedRooms, SameConnections
<1>4. CASE room' # room
  <2>1. CASE SetReady(a)
    <3> DEFINE rm == [room[r] EXCEPT !.ready = IF call[a].op = "ready" THEN @ \cup {p}
                                                                       ELSE @ \ {p}]
    <3>1. Member(r, p) /\ room' = [room EXCEPT ![r] = rm]
      BY <1>4, <2>1 DEF SetReady
    <3>2. Exists(r) /\ WellFormed(room[r]) /\ p \in PlayerIds
      BY <1>1, <3>1, MemberRoom
    <3>3. /\ rm \in RoomSessions /\ rm.members = room[r].members
          /\ rm.connected = room[r].connected
      BY <3>2 DEF WellFormed, RoomSessions
    <3>4. Shown
      BY <1>1, <3>1, <3>2, <3>3, SameShownRoom
    <3> QED
      BY <1>1, <1>2, <3>4, SameConnections
  <2>2. CASE SetAiConfiguration(a) \/ RemoveAiCredential(a)
    <3>1. /\ IsHost(r, p)
          /\ \E ai \in {"keyed", "bare"} : room' = [room EXCEPT ![r] = [room[r] EXCEPT !.ai = ai]]
      BY <1>4, <2>2 DEF SetAiConfiguration, RemoveAiCredential
    <3>2. PICK ai \in {"keyed", "bare"} : room' = [room EXCEPT ![r] = [room[r] EXCEPT !.ai = ai]]
      BY <3>1
    <3> DEFINE rm == [room[r] EXCEPT !.ai = ai]
    <3>3. Exists(r) /\ WellFormed(room[r])
      BY <1>1, <3>1, MemberRoom DEF IsHost
    <3>4. /\ rm \in RoomSessions /\ rm.members = room[r].members
          /\ rm.connected = room[r].connected
      BY <3>3 DEF WellFormed, RoomSessions
    <3>5. Shown
      BY <1>1, <3>2, <3>3, <3>4, SameShownRoom
    <3> QED
      BY <1>1, <1>2, <3>5, SameConnections
  <2>3. CASE JoinRefused(a) \/ LeaveRefused(a) \/ Initialize(a)
    BY <1>4, <2>3 DEF JoinRefused, LeaveRefused, Initialize, storeVars
  <2> QED
    BY <2>1, <2>2, <2>3
<1> QED
  BY <1>3, <1>4

LEMMA ReceiveConnections ==
  ASSUME OtherTypes, ConnectionsAgree, NEW a \in Callers, Receive(a)
  PROVE  ConnectionsAgree'
<1>1. UNCHANGED <<room, home, identity, group, stranded>>
  BY DEF Receive, ReceiveJoin, ReceiveRequest, ReceiveAttach, Arrive, storeVars, connectionVars
<1>2. call[a] = Idle /\ \A b \in Callers \ {a} : call'[b] = call[b]
  BY DEF Receive, ReceiveJoin, ReceiveRequest, ReceiveAttach, Arrive, OtherTypes
<1>3. PresenceIsAttachment' /\ AttachedAtHome' /\ ClosedGroups'
  BY <1>1 DEF ConnectionsAgree, PresenceIsAttachment, AttachedAtHome, ClosedGroups,
              Exists, ConnectionsOf
<1>4. CASE ReceiveJoin(a) \/ ReceiveRequest(a)
  <2>1. UNCHANGED socket
    BY <1>4 DEF ReceiveJoin, ReceiveRequest, connectionVars
  <2>2. call'[a].op # "attach"
    BY <1>4, RoomsAssumption DEF ReceiveJoin, ReceiveRequest, Arrive, OtherTypes, PlayerRequests
  <2>3. FirstAttachments'
    BY <1>1, <1>2, <2>1, <2>2 DEF ConnectionsAgree, FirstAttachments
  <2>4. NewsReachMembersOnly' /\ NewConnections'
    BY <1>1, <2>1 DEF ConnectionsAgree, NewsReachMembersOnly, NewConnections, RoomConnections,
                      Exists, Member
  <2> QED
    BY <1>3, <2>3, <2>4 DEF ConnectionsAgree
<1>5. CASE ReceiveAttach(a)
  <2>1. PICK p \in sessions, c \in Conns :
          /\ socket[c] = "new"
          /\ call' = [call EXCEPT ![a] = [op |-> "attach", room |-> home[p], player |-> p,
                                          conn |-> c]]
          /\ socket' = [socket EXCEPT ![c] = "open"]
    BY <1>5 DEF ReceiveAttach, Arrive
  <2>2. /\ call'[a].conn = c
        /\ socket'[c] = "open" /\ \A d \in Conns \ {c} : socket'[d] = socket[d]
    BY <2>1 DEF OtherTypes
  <2>3. identity[c] = NoPlayer /\ \A r \in RoomIds : c \notin group[r]
    BY <2>1 DEF ConnectionsAgree, NewConnections
  <2>4. \A b \in Callers \ {a} : call[b] # Idle /\ call[b].op = "attach" =>
          call[b].conn \in Conns /\ call[b].conn # c
    <3>1. SUFFICES ASSUME NEW b \in Callers \ {a}, call[b] # Idle, call[b].op = "attach"
                   PROVE  call[b].conn \in Conns /\ call[b].conn # c
      OBVIOUS
    <3>2. call[b].conn \in Conns
      BY <3>1, RunningCall DEF Running
    <3>3. socket[call[b].conn] # "new"
      BY <3>1 DEF ConnectionsAgree, FirstAttachments
    <3> QED
      BY <2>1, <3>2, <3>3
  <2>5. FirstAttachments'
    BY <1>1, <1>2, <2>2, <2>3, <2>4 DEF ConnectionsAgree, FirstAttachments
  <2>6. NewsReachMembersOnly'
    <3>1. \A d \in Conns : socket'[d] = "open" =>
            \A r \in RoomIds : Exists(r)' => (d \in group'[r] <=> d \in RoomConnections(r)')
      BY <1>1, <2>2, <2>3 DEF ConnectionsAgree, NewsReachMembersOnly, RoomConnections, Exists
    <3> QED
      BY <1>1, <3>1 DEF ConnectionsAgree, NewsReachMembersOnly, Exists, Member
  <2>7. NewConnections'
    BY <1>1, <2>2 DEF ConnectionsAgree, NewConnections
  <2> QED
    BY <1>3, <2>5, <2>6, <2>7 DEF ConnectionsAgree
<1> QED
  BY <1>4, <1>5 DEF Receive

LEMMA LosesConnections ==
  ASSUME OtherTypes, ConnectionsAgree, NEW c \in Conns, Lose(c) \/ NoticeLoss(c)
  PROVE  ConnectionsAgree'
<1>1. UNCHANGED <<room, home, identity, group, call, stranded>>
  BY DEF Lose, NoticeLoss, storeVars
<1>2. /\ socket'[c] \notin {"new", "open"}
      /\ \A d \in Conns \ {c} : socket'[d] = socket[d]
  BY DEF Lose, NoticeLoss, OtherTypes
<1>3. PresenceIsAttachment' /\ AttachedAtHome' /\ ClosedGroups'
  BY <1>1 DEF ConnectionsAgree, PresenceIsAttachment, AttachedAtHome, ClosedGroups,
              Exists, ConnectionsOf
<1>4. NewsReachMembersOnly' /\ NewConnections'
  BY <1>1, <1>2 DEF ConnectionsAgree, NewsReachMembersOnly, NewConnections, RoomConnections,
                    Exists, Member
<1>5. FirstAttachments'
  <2>1. \A b \in Callers : call[b] # Idle /\ call[b].op = "attach" => call[b].conn \in Conns
    BY RunningCall DEF Running
  <2> QED
    BY <1>1, <1>2, <2>1 DEF ConnectionsAgree, FirstAttachments
<1> QED
  BY <1>3, <1>4, <1>5 DEF ConnectionsAgree

\* A new member has no connection yet: its id was not issued before.
LEMMA NobodyBehind ==
  ASSUME AttachedAtHome, NEW p, home[p] = NoRoom
  PROVE  \A c \in Conns : identity[c] # NoPlayer => identity[c] # p
  BY RoomsAssumption DEF AttachedAtHome

LEMMA CreateConnections ==
  ASSUME RoomsFormed, OtherTypes, StoresAgree, ConnectionsAgree, Create
  PROVE  ConnectionsAgree'
<1>1. PICK r \in RoomIds, p \in PlayerIds, code \in Codes, capacity \in Capacities :
        /\ \A q \in PlayerIds : home[q] # r
        /\ home[p] = NoRoom
        /\ room' = [room EXCEPT ![r] = [host |-> p, capacity |-> capacity, members |-> {p},
                                        ready |-> {}, connected |-> {}, ai |-> "none"]]
        /\ home' = [home EXCEPT ![p] = r]
        /\ UNCHANGED <<credentials, game, connectionVars, call>>
  BY DEF Create
<1>2. ~ Exists(r)
  <2>1. SUFFICES ASSUME Exists(r) PROVE FALSE
    OBVIOUS
  <2>2. room[r].host \in room[r].members /\ room[r].host \in PlayerIds
    BY <2>1 DEF RoomsFormed, WellFormed, RoomSessions
  <2> QED
    BY <1>1, <2>1, <2>2 DEF StoresAgree, SessionsAreMembers
<1>3. /\ room'[r].members = {p} /\ room'[r].connected = {} /\ Exists(r)'
      /\ \A s \in RoomIds \ {r} : room'[s] = room[s]
  BY <1>1, RoomsAssumption DEF RoomsFormed, Exists, RoomSessions
<1>4. UNCHANGED <<identity, group, socket, stranded, call>>
  BY <1>1 DEF connectionVars
<1>5. /\ \A c \in Conns : identity[c] # p
      /\ \A c \in Conns : identity[c] # NoPlayer => /\ home'[identity[c]] = home[identity[c]]
                                                    /\ home[identity[c]] \in RoomIds \ {r}
  <2>1. \A c \in Conns : identity[c] # NoPlayer => identity[c] # p /\ identity[c] \in PlayerIds
    BY <1>1, NobodyBehind DEF ConnectionsAgree, OtherTypes
  <2> QED
    BY <1>1, <2>1, RoomsAssumption DEF OtherTypes, ConnectionsAgree, AttachedAtHome
<1>6. PresenceIsAttachment'
  BY <1>3, <1>4, <1>5 DEF ConnectionsAgree, PresenceIsAttachment, ConnectionsOf, Exists
<1>7. NewsReachMembersOnly'
  <2>1. group[r] = {}
    BY <1>2 DEF ConnectionsAgree, ClosedGroups
  <2>2. \A d \in Conns : socket'[d] = "open" =>
          \A s \in RoomIds : Exists(s)' => (d \in group'[s] <=> d \in RoomConnections(s)')
    BY <1>3, <1>4, <1>5, <2>1
    DEF ConnectionsAgree, NewsReachMembersOnly, RoomConnections, Exists
  <2>3. \A d \in Conns : identity'[d] # NoPlayer /\ d \notin stranded' =>
          Member(home[identity[d]], identity[d])'
    BY <1>3, <1>4, <1>5 DEF ConnectionsAgree, NewsReachMembersOnly, Exists, Member
  <2> QED
    BY <2>2, <2>3 DEF NewsReachMembersOnly
<1>8. AttachedAtHome' /\ NewConnections' /\ FirstAttachments'
  BY <1>4, <1>5 DEF ConnectionsAgree, AttachedAtHome, NewConnections, FirstAttachments
<1>9. ClosedGroups'
  BY <1>3, <1>4 DEF ConnectionsAgree, ClosedGroups, Exists
<1> QED
  BY <1>6, <1>7, <1>8, <1>9 DEF ConnectionsAgree

LEMMA JoinConnections ==
  ASSUME RoomsFormed, OtherTypes, StoresAgree, ConnectionsAgree, NEW a \in Callers, Join(a)
  PROVE  ConnectionsAgree'
<1> DEFINE r == call[a].room
<1>1. r \in RoomIds /\ Exists(r) /\ \A b \in Callers : call'[b] \in {call[b], Idle}
  BY RunningCall, FinishEndsOne DEF Join, Joinable
<1>2. PICK p \in PlayerIds :
        /\ home[p] = NoRoom
        /\ room' = [room EXCEPT ![r].members = @ \cup {p}]
        /\ home' = [home EXCEPT ![p] = r]
  BY DEF Join
<1>3. /\ room'[r] \in RoomSessions
      /\ room'[r].members = room[r].members \cup {p}
      /\ room'[r].connected = room[r].connected
      /\ room[r].connected \subseteq room[r].members
      /\ \A s \in RoomIds \ {r} : room'[s] = room[s]
  BY <1>1, <1>2 DEF RoomsFormed, WellFormed, RoomSessions
<1>4. \A s \in RoomIds : Exists(s)' <=> Exists(s)
  BY <1>1, <1>3, RoomsAssumption DEF Exists
<1>5. UNCHANGED <<identity, group, socket, stranded>>
  BY DEF Join, connectionVars
<1>6. /\ \A c \in Conns : identity[c] # p
      /\ \A c \in Conns : identity[c] # NoPlayer => /\ home'[identity[c]] = home[identity[c]]
                                                    /\ home[identity[c]] \in RoomIds
  <2>1. \A c \in Conns : identity[c] # NoPlayer => identity[c] # p /\ identity[c] \in PlayerIds
    BY <1>2, NobodyBehind DEF ConnectionsAgree, OtherTypes
  <2> QED
    BY <1>2, <2>1, RoomsAssumption DEF OtherTypes, ConnectionsAgree, AttachedAtHome
<1>7. p \notin room[r].members
  BY <1>1, <1>2, RoomsAssumption DEF StoresAgree, SessionsAreMembers
<1>8. PresenceIsAttachment'
  BY <1>3, <1>4, <1>5, <1>6, <1>7 DEF ConnectionsAgree, PresenceIsAttachment, ConnectionsOf
<1>9. NewsReachMembersOnly'
  <2>1. \A d \in Conns : socket'[d] = "open" =>
          \A s \in RoomIds : Exists(s)' => (d \in group'[s] <=> d \in RoomConnections(s)')
    BY <1>4, <1>5, <1>6 DEF ConnectionsAgree, NewsReachMembersOnly, RoomConnections
  <2>2. \A s \in RoomIds : \A q : Member(s, q) => Member(s, q)'
    BY <1>3, <1>4 DEF Member
  <2>3. \A d \in Conns : identity'[d] # NoPlayer /\ d \notin stranded' =>
          Member(home[identity[d]], identity[d])'
    BY <1>5, <1>6, <2>2 DEF ConnectionsAgree, NewsReachMembersOnly, Member, Exists
  <2> QED
    BY <2>1, <2>3 DEF NewsReachMembersOnly
<1>10. AttachedAtHome' /\ NewConnections' /\ ClosedGroups'
  BY <1>4, <1>5, <1>6 DEF ConnectionsAgree, AttachedAtHome, NewConnections, ClosedGroups
<1>11. FirstAttachments'
  BY <1>1, <1>5, AttachmentsStayFirst DEF ConnectionsAgree, FirstAttachments
<1> QED
  BY <1>8, <1>9, <1>10, <1>11 DEF ConnectionsAgree

LEMMA MemberLeavesConnections ==
  ASSUME RoomsFormed, OtherTypes, StoresAgree, ConnectionsAgree, NEW a \in Callers,
         MemberLeaves(a)
  PROVE  ConnectionsAgree'
<1> DEFINE r == call[a].room
           p == call[a].player
<1>1. /\ r \in RoomIds /\ Member(r, p)
      /\ \A b \in Callers : call'[b] \in {call[b], Idle}
  BY RunningCall, FinishEndsOne DEF MemberLeaves, MayLeave
<1>2. WellFormed(room[r]) /\ Exists(r) /\ p \in PlayerIds
  BY <1>1, MemberRoom
<1>3. home[p] = r
  BY <1>1, <1>2 DEF StoresAgree, SessionsAreMembers, Member
<1>4. PICK removed \in SUBSET ConnectionsOf(p) :
        /\ identity' = Unregistered(removed)
        /\ group' = [group EXCEPT ![r] = @ \ removed]
        /\ stranded' = stranded \cup (ConnectionsOf(p) \ removed)
  BY DEF MemberLeaves
<1>5. /\ room'[r] \in RoomSessions
      /\ room'[r].members = room[r].members \ {p}
      /\ room'[r].connected = room[r].connected \ {p}
      /\ \A s \in RoomIds \ {r} : room'[s] = room[s]
  <2>1. room' = [room EXCEPT ![r].members = @ \ {p}, ![r].ready = @ \ {p},
                             ![r].connected = @ \ {p}]
    BY DEF MemberLeaves
  <2> QED
    BY <1>1, <1>2, <2>1 DEF RoomsFormed, WellFormed, RoomSessions
<1>6. \A s \in RoomIds : Exists(s)' <=> Exists(s)
  BY <1>2, <1>5, RoomsAssumption DEF Exists
<1>7. UNCHANGED <<home, socket>>
  BY DEF MemberLeaves
<1>8. \A c \in Conns : /\ c \in removed => identity[c] = p /\ identity'[c] = NoPlayer
                       /\ c \notin removed => identity'[c] = identity[c]
  BY <1>4 DEF Unregistered, ConnectionsOf
<1>9. PresenceIsAttachment'
  <2>1. SUFFICES ASSUME NEW s \in RoomIds, Exists(s)', NEW q \in room'[s].members
                 PROVE  q \in room'[s].connected <=> ConnectionsOf(q)' # {}
    BY DEF PresenceIsAttachment
  <2>2. Exists(s) /\ q \in room[s].members /\ q \in PlayerIds
    BY <1>5, <1>6, <2>1 DEF RoomsFormed, WellFormed, RoomSessions
  <2>3. q # p
    BY <1>3, <1>5, <2>1, <2>2 DEF StoresAgree, SessionsAreMembers
  <2>4. ConnectionsOf(q)' = ConnectionsOf(q)
    BY <1>8, <2>2, <2>3, RoomsAssumption DEF ConnectionsOf
  <2> QED
    BY <1>5, <2>2, <2>3, <2>4 DEF ConnectionsAgree, PresenceIsAttachment
<1>10. NewsReachMembersOnly'
  <2>1. \A d \in Conns : socket'[d] = "open" =>
          \A s \in RoomIds : Exists(s)' => (d \in group'[s] <=> d \in RoomConnections(s)')
    <3>1. SUFFICES ASSUME NEW d \in Conns, socket[d] = "open", NEW s \in RoomIds, Exists(s)
                   PROVE  d \in group'[s] <=> d \in RoomConnections(s)'
      BY <1>6, <1>7
    <3>2. d \in group[s] <=> identity[d] # NoPlayer /\ home[identity[d]] = s
      BY <3>1 DEF ConnectionsAgree, NewsReachMembersOnly, RoomConnections
    <3>3. d \in group'[s] <=> d \in group[s] /\ ~ (s = r /\ d \in removed)
      BY <1>1, <1>4 DEF OtherTypes
    <3>4. d \in RoomConnections(s)' <=> identity'[d] # NoPlayer /\ home[identity'[d]] = s
      BY <1>7 DEF RoomConnections
    <3>5. CASE d \in removed
      BY <1>3, <1>8, <3>2, <3>3, <3>4, <3>5
    <3>6. CASE d \notin removed
      BY <1>8, <3>2, <3>3, <3>4, <3>6
    <3> QED
      BY <3>5, <3>6
  <2>2. \A d \in Conns : identity'[d] # NoPlayer /\ d \notin stranded' =>
          Member(home[identity[d]], identity[d])'
    <3>1. SUFFICES ASSUME NEW d \in Conns, identity'[d] # NoPlayer, d \notin stranded'
                   PROVE  Member(home[identity[d]], identity[d])'
      OBVIOUS
    <3>2. identity'[d] = identity[d] /\ d \notin removed
      BY <1>8, <3>1
    <3>3. d \notin stranded /\ identity[d] # p
      BY <1>4, <3>1, <3>2 DEF ConnectionsOf
    <3>4. home[identity[d]] \in RoomIds /\ Member(home[identity[d]], identity[d])
      BY <3>1, <3>2, <3>3 DEF ConnectionsAgree, NewsReachMembersOnly, AttachedAtHome
    <3>5. \A s \in RoomIds : \A q : q # p /\ Member(s, q) => Member(s, q)'
      BY <1>5, <1>6 DEF Member
    <3> QED
      BY <1>7, <3>2, <3>3, <3>4, <3>5 DEF Member, Exists
  <2> QED
    BY <2>1, <2>2 DEF NewsReachMembersOnly
<1>11. AttachedAtHome' /\ NewConnections'
  BY <1>1, <1>4, <1>7, <1>8 DEF ConnectionsAgree, AttachedAtHome, NewConnections, OtherTypes
<1>12. FirstAttachments'
  <2>1. \A b \in Callers : call[b] # Idle /\ call[b].op = "attach" => call[b].conn \in Conns
    BY RunningCall DEF Running
  <2>2. \A b \in Callers : call'[b] # Idle /\ call'[b].op = "attach" =>
          identity'[call[b].conn] = NoPlayer /\ socket'[call[b].conn] # "new"
    BY <1>1, <1>7, <1>8, <2>1 DEF ConnectionsAgree, FirstAttachments
  <2> QED
    BY <1>1, <2>2, AttachmentsStayFirst DEF ConnectionsAgree
<1>13. ClosedGroups'
  BY <1>1, <1>4, <1>6 DEF ConnectionsAgree, ClosedGroups, OtherTypes
<1> QED
  BY <1>9, <1>10, <1>11, <1>12, <1>13 DEF ConnectionsAgree

LEMMA HostClosesConnections ==
  ASSUME RoomsFormed, OtherTypes, StoresAgree, ConnectionsAgree, NEW a \in Callers,
         HostCloses(a)
  PROVE  ConnectionsAgree'
<1> DEFINE r == call[a].room
<1>1. r \in RoomIds /\ \A b \in Callers : call'[b] \in {call[b], Idle}
  BY RunningCall, FinishEndsOne DEF HostCloses
<1>2. /\ room' = [room EXCEPT ![r] = NoRoom]
      /\ identity' = Unregistered(RoomConnections(r))
      /\ group' = [group EXCEPT ![r] = {}]
      /\ UNCHANGED <<home, socket, stranded>>
  BY DEF HostCloses
<1>3. /\ room'[r] = NoRoom /\ \A s \in RoomIds \ {r} : room'[s] = room[s]
      /\ group'[r] = {} /\ \A s \in RoomIds \ {r} : group'[s] = group[s]
  BY <1>1, <1>2 DEF RoomsFormed, OtherTypes
<1>4. \A c \in Conns :
        identity'[c] = IF identity[c] # NoPlayer /\ home[identity[c]] = r
                       THEN NoPlayer ELSE identity[c]
  BY <1>2 DEF Unregistered, RoomConnections
<1>5. PresenceIsAttachment'
  <2>1. SUFFICES ASSUME NEW s \in RoomIds, Exists(s)', NEW q \in room'[s].members
                 PROVE  q \in room'[s].connected <=> ConnectionsOf(q)' # {}
    BY DEF PresenceIsAttachment
  <2>2. s # r /\ Exists(s) /\ room'[s] = room[s]
    BY <1>3, <2>1 DEF Exists
  <2>3. q \in PlayerIds /\ home[q] = s
    BY <2>1, <2>2 DEF RoomsFormed, WellFormed, RoomSessions, StoresAgree, SessionsAreMembers
  <2>4. ConnectionsOf(q)' = ConnectionsOf(q)
    BY <1>4, <2>2, <2>3, RoomsAssumption DEF ConnectionsOf
  <2> QED
    BY <2>1, <2>2, <2>4 DEF ConnectionsAgree, PresenceIsAttachment
<1>6. NewsReachMembersOnly'
  <2>1. \A d \in Conns : socket'[d] = "open" =>
          \A s \in RoomIds : Exists(s)' => (d \in group'[s] <=> d \in RoomConnections(s)')
    BY <1>2, <1>3, <1>4 DEF ConnectionsAgree, NewsReachMembersOnly, RoomConnections, Exists
  <2>2. \A d \in Conns : identity'[d] # NoPlayer /\ d \notin stranded' =>
          Member(home[identity[d]], identity[d])'
    <3>1. \A d \in Conns : identity'[d] # NoPlayer =>
            identity'[d] = identity[d] /\ home[identity[d]] \in RoomIds \ {r}
      BY <1>4 DEF ConnectionsAgree, AttachedAtHome
    <3>2. \A s \in RoomIds \ {r} : \A q : Member(s, q) => Member(s, q)'
      BY <1>3 DEF Member, Exists
    <3> QED
      BY <1>2, <3>1, <3>2 DEF ConnectionsAgree, NewsReachMembersOnly, Member, Exists
  <2> QED
    BY <2>1, <2>2 DEF NewsReachMembersOnly
<1>7. AttachedAtHome' /\ NewConnections'
  BY <1>2, <1>3, <1>4 DEF ConnectionsAgree, AttachedAtHome, NewConnections
<1>8. FirstAttachments'
  <2>1. \A b \in Callers : call[b] # Idle /\ call[b].op = "attach" => call[b].conn \in Conns
    BY RunningCall DEF Running
  <2>2. \A b \in Callers : call'[b] # Idle /\ call'[b].op = "attach" =>
          identity'[call[b].conn] = NoPlayer /\ socket'[call[b].conn] # "new"
    BY <1>1, <1>2, <1>4, <2>1 DEF ConnectionsAgree, FirstAttachments
  <2> QED
    BY <1>1, <2>2, AttachmentsStayFirst DEF ConnectionsAgree
<1>9. ClosedGroups'
  BY <1>3 DEF ConnectionsAgree, ClosedGroups, Exists
<1> QED
  BY <1>5, <1>6, <1>7, <1>8, <1>9 DEF ConnectionsAgree

\* The connection of an attachment is in no registry, and in nobody else's hands.
LEMMA AttachingConnection ==
  ASSUME OtherTypes, ConnectionsAgree, NEW a \in Callers, Running(a, {"attach"}), Finish(a)
  PROVE  /\ call[a].room \in RoomIds /\ call[a].conn \in Conns /\ call[a].player \in PlayerIds
         /\ identity[call[a].conn] = NoPlayer
         /\ socket[call[a].conn] # "new"
         /\ \A b \in Callers : call'[b] \in {call[b], Idle}
         /\ \A b \in Callers : call'[b] # Idle /\ call'[b].op = "attach" =>
              /\ call[b].conn \in Conns \ {call[a].conn}
              /\ identity[call[b].conn] = NoPlayer
              /\ socket[call[b].conn] # "new"
<1>1. /\ call[a] # Idle /\ call[a].op = "attach" /\ call[a].room \in RoomIds
      /\ call[a].conn \in Conns /\ call[a].player \in PlayerIds
  BY RunningCall
<1>2. /\ call'[a] = Idle
      /\ \A b \in Callers \ {a} : call'[b] = call[b]
      /\ \A b \in Callers : call'[b] \in {call[b], Idle}
  BY FinishEndsOne
<1>3. \A b \in Callers : call[b] # Idle /\ call[b].op = "attach" => call[b].conn \in Conns
  BY RunningCall DEF Running
<1> QED
  BY <1>1, <1>2, <1>3 DEF ConnectionsAgree, FirstAttachments

LEMMA AttachConnections ==
  ASSUME RoomsFormed, OtherTypes, StoresAgree, ConnectionsAgree, NEW a \in Callers, Attach(a)
  PROVE  ConnectionsAgree'
<1> DEFINE r == call[a].room
           p == call[a].player
           c == call[a].conn
<1>1. Running(a, {"attach"}) /\ Finish(a) /\ Member(r, p)
  BY DEF Attach
<1>2. /\ r \in RoomIds /\ c \in Conns /\ p \in PlayerIds
      /\ identity[c] = NoPlayer /\ socket[c] # "new"
  BY <1>1, AttachingConnection
<1>3. Exists(r) /\ WellFormed(room[r])
  BY <1>1, <1>2, MemberRoom
<1>4. home[p] = r
  BY <1>1, <1>2, <1>3 DEF StoresAgree, SessionsAreMembers, Member
<1>5. /\ identity'[c] = p /\ \A d \in Conns \ {c} : identity'[d] = identity[d]
      /\ group'[r] = group[r] \cup {c} /\ \A s \in RoomIds \ {r} : group'[s] = group[s]
      /\ UNCHANGED <<home, socket, stranded>>
  BY <1>2 DEF Attach, OtherTypes
<1>6. /\ \A s \in RoomIds : Exists(s)' <=> Exists(s)
      /\ \A s \in RoomIds : Exists(s) => room'[s].members = room[s].members
      /\ \A s \in RoomIds \ {r} : room'[s] = room[s]
      /\ room'[r].connected = IF ConnectionsOf(p) = {} THEN room[r].connected \cup {p}
                                                       ELSE room[r].connected
  <2>1. CASE ConnectionsOf(p) = {}
    <3>1. room' = [room EXCEPT ![r].connected = @ \cup {p}]
      BY <2>1 DEF Attach
    <3>2. /\ room'[r] \in RoomSessions /\ room'[r].members = room[r].members
          /\ room'[r].connected = room[r].connected \cup {p}
          /\ \A s \in RoomIds \ {r} : room'[s] = room[s]
      BY <1>2, <1>3, <3>1 DEF RoomsFormed, WellFormed, RoomSessions
    <3> QED
      BY <1>3, <2>1, <3>2, RoomsAssumption DEF Exists
  <2>2. CASE ConnectionsOf(p) # {}
    BY <2>2 DEF Attach, Exists
  <2> QED
    BY <2>1, <2>2
<1>7. PresenceIsAttachment'
  <2>1. SUFFICES ASSUME NEW s \in RoomIds, Exists(s)', NEW q \in room'[s].members
                 PROVE  q \in room'[s].connected <=> ConnectionsOf(q)' # {}
    BY DEF PresenceIsAttachment
  <2>2. /\ Exists(s) /\ q \in room[s].members /\ home[q] = s /\ q \in PlayerIds
        /\ q \in room[s].connected <=> ConnectionsOf(q) # {}
    BY <1>6, <2>1 DEF RoomsFormed, WellFormed, RoomSessions, StoresAgree, SessionsAreMembers,
                      ConnectionsAgree, PresenceIsAttachment
  <2>3. CASE q = p
    <3>1. s = r /\ c \in ConnectionsOf(q)'
      BY <1>2, <1>4, <1>5, <2>2, <2>3 DEF ConnectionsOf
    <3> QED
      BY <1>6, <2>2, <2>3, <3>1
  <2>4. CASE q # p
    <3>1. ConnectionsOf(q)' = ConnectionsOf(q)
      BY <1>2, <1>5, <2>2, <2>4, RoomsAssumption DEF ConnectionsOf
    <3> QED
      BY <1>6, <2>2, <2>4, <3>1
  <2> QED
    BY <2>3, <2>4
<1>8. NewsReachMembersOnly'
  <2>1. \A d \in Conns : socket'[d] = "open" =>
          \A s \in RoomIds : Exists(s)' => (d \in group'[s] <=> d \in RoomConnections(s)')
    BY <1>2, <1>4, <1>5, <1>6, RoomsAssumption
    DEF ConnectionsAgree, NewsReachMembersOnly, RoomConnections
  <2>2. \A s \in RoomIds : \A q : Member(s, q)' <=> Member(s, q)
    BY <1>6 DEF Member
  <2>3. \A d \in Conns : identity'[d] # NoPlayer /\ d \notin stranded' =>
          Member(home[identity[d]], identity[d])'
    <3>1. SUFFICES ASSUME NEW d \in Conns, identity'[d] # NoPlayer, d \notin stranded'
                   PROVE  Member(home[identity[d]], identity[d])'
      OBVIOUS
    <3>2. home[identity'[d]] \in RoomIds /\ Member(home[identity'[d]], identity'[d])
      BY <1>1, <1>2, <1>4, <1>5, <3>1
      DEF ConnectionsAgree, NewsReachMembersOnly, AttachedAtHome
    <3> QED
      BY <1>5, <2>2, <3>2 DEF Member, Exists
  <2> QED
    BY <2>1, <2>3 DEF NewsReachMembersOnly
<1>9. AttachedAtHome' /\ NewConnections' /\ ClosedGroups'
  BY <1>2, <1>3, <1>4, <1>5, <1>6 DEF ConnectionsAgree, AttachedAtHome, NewConnections, ClosedGroups
<1>10. FirstAttachments'
  <2>1. \A b \in Callers : call'[b] # Idle /\ call'[b].op = "attach" =>
          identity'[call[b].conn] = NoPlayer /\ socket'[call[b].conn] # "new"
    BY <1>1, <1>5, AttachingConnection
  <2> QED
    BY <1>1, <2>1, AttachingConnection, AttachmentsStayFirst DEF ConnectionsAgree
<1> QED
  BY <1>7, <1>8, <1>9, <1>10 DEF ConnectionsAgree

LEMMA AttachRejectedConnections ==
  ASSUME OtherTypes, ConnectionsAgree, NEW a \in Callers, AttachRejected(a)
  PROVE  ConnectionsAgree'
<1> DEFINE r == call[a].room
           c == call[a].conn
<1>1. Running(a, {"attach"}) /\ Finish(a)
  BY DEF AttachRejected
<1>2. /\ r \in RoomIds /\ c \in Conns
      /\ identity[c] = NoPlayer /\ socket[c] # "new"
  BY <1>1, AttachingConnection
<1>3. UNCHANGED <<room, home, socket, stranded, identity>>
  BY <1>2 DEF AttachRejected, storeVars, OtherTypes
<1>4. \A s \in RoomIds : /\ \A d \in Conns \ {c} : d \in group'[s] <=> d \in group[s]
                         /\ group'[s] \subseteq group[s]
  BY <1>2 DEF AttachRejected, OtherTypes
<1>5. PresenceIsAttachment' /\ AttachedAtHome'
  BY <1>3 DEF ConnectionsAgree, PresenceIsAttachment, AttachedAtHome, ConnectionsOf, Exists
<1>6. NewsReachMembersOnly'
  <2>1. \A d \in Conns : socket'[d] = "open" =>
          \A s \in RoomIds : Exists(s)' => (d \in group'[s] <=> d \in RoomConnections(s)')
    BY <1>2, <1>3, <1>4 DEF ConnectionsAgree, NewsReachMembersOnly, RoomConnections, Exists
  <2> QED
    BY <1>3, <2>1 DEF ConnectionsAgree, NewsReachMembersOnly, Member, Exists
<1>7. NewConnections' /\ ClosedGroups'
  BY <1>3, <1>4 DEF ConnectionsAgree, NewConnections, ClosedGroups, Exists
<1>8. FirstAttachments'
  <2>1. \A b \in Callers : call'[b] # Idle /\ call'[b].op = "attach" =>
          identity'[call[b].conn] = NoPlayer /\ socket'[call[b].conn] # "new"
    BY <1>1, <1>3, AttachingConnection
  <2> QED
    BY <1>1, <2>1, AttachingConnection, AttachmentsStayFirst DEF ConnectionsAgree
<1> QED
  BY <1>5, <1>6, <1>7, <1>8 DEF ConnectionsAgree

LEMMA DisconnectConnections ==
  ASSUME RoomsFormed, OtherTypes, StoresAgree, ConnectionsAgree, NEW c \in Conns, Disconnect(c)
  PROVE  ConnectionsAgree'
<1> DEFINE p == identity[c]
           r == home[p]
<1>1. /\ socket[c] = "closing" /\ socket'[c] = "gone"
      /\ \A d \in Conns \ {c} : socket'[d] = socket[d]
      /\ UNCHANGED <<home, stranded, call>>
  BY DEF Disconnect, OtherTypes
<1>2. FirstAttachments'
  <2>1. \A b \in Callers : call[b] # Idle /\ call[b].op = "attach" => call[b].conn \in Conns
    BY RunningCall DEF Running
  <2>2. \A d \in Conns : identity[d] = NoPlayer => identity'[d] = NoPlayer
    BY DEF Disconnect, OtherTypes
  <2> QED
    BY <1>1, <2>1, <2>2 DEF ConnectionsAgree, FirstAttachments
<1>3. CASE p = NoPlayer
  <2>1. UNCHANGED <<room, identity, group>>
    BY <1>3 DEF Disconnect
  <2>2. PresenceIsAttachment' /\ AttachedAtHome' /\ ClosedGroups'
    BY <1>1, <2>1 DEF ConnectionsAgree, PresenceIsAttachment, AttachedAtHome, ClosedGroups,
                      Exists, ConnectionsOf
  <2>3. NewsReachMembersOnly' /\ NewConnections'
    BY <1>1, <2>1 DEF ConnectionsAgree, NewsReachMembersOnly, NewConnections,
                      RoomConnections, Exists, Member
  <2> QED
    BY <1>2, <2>2, <2>3 DEF ConnectionsAgree
<1>4. CASE p # NoPlayer
  <2>1. r \in RoomIds /\ p \in PlayerIds
    BY <1>4 DEF ConnectionsAgree, AttachedAtHome, OtherTypes
  <2>2. /\ identity'[c] = NoPlayer /\ \A d \in Conns \ {c} : identity'[d] = identity[d]
        /\ group'[r] = group[r] \ {c} /\ \A s \in RoomIds \ {r} : group'[s] = group[s]
    BY <1>4, <2>1 DEF Disconnect, OtherTypes
  <2>3. /\ \A s \in RoomIds : Exists(s)' <=> Exists(s)
        /\ \A s \in RoomIds : Exists(s) => room'[s].members = room[s].members
        /\ \A s \in RoomIds \ {r} : room'[s] = room[s]
        /\ Exists(r) => room'[r].connected = IF IsLast(c) /\ Member(r, p)
                                             THEN room[r].connected \ {p}
                                             ELSE room[r].connected
    <3>1. CASE IsLast(c) /\ Member(r, p)
      <4>1. room' = [room EXCEPT ![r].connected = @ \ {p}]
        BY <1>4, <3>1 DEF Disconnect
      <4>2. WellFormed(room[r]) /\ Exists(r)
        BY <2>1, <3>1, MemberRoom
      <4>3. /\ room'[r] \in RoomSessions /\ room'[r].members = room[r].members
            /\ room'[r].connected = room[r].connected \ {p}
            /\ \A s \in RoomIds \ {r} : room'[s] = room[s]
        BY <2>1, <4>1, <4>2 DEF RoomsFormed, WellFormed, RoomSessions
      <4> QED
        BY <3>1, <4>2, <4>3, RoomsAssumption DEF Exists
    <3>2. CASE ~ (IsLast(c) /\ Member(r, p))
      <4>1. room' = room
        BY <1>4, <3>2 DEF Disconnect
      <4> QED
        BY <3>2, <4>1 DEF Exists
    <3> QED
      BY <3>1, <3>2
  <2>4. PresenceIsAttachment'
    <3>1. SUFFICES ASSUME NEW s \in RoomIds, Exists(s)', NEW q \in room'[s].members
                   PROVE  q \in room'[s].connected <=> ConnectionsOf(q)' # {}
      BY DEF PresenceIsAttachment
    <3>2. /\ Exists(s) /\ q \in room[s].members /\ home[q] = s /\ q \in PlayerIds
          /\ q \in room[s].connected <=> ConnectionsOf(q) # {}
      BY <2>3, <3>1 DEF RoomsFormed, WellFormed, RoomSessions, StoresAgree,
                        SessionsAreMembers, ConnectionsAgree, PresenceIsAttachment
    <3>3. CASE q = p
      <4>1. s = r /\ Member(r, p)
        BY <3>2, <3>3 DEF Member
      <4>2. ConnectionsOf(q)' = ConnectionsOf(q) \ {c} /\ c \in ConnectionsOf(q)
        BY <2>1, <2>2, <3>3, RoomsAssumption DEF ConnectionsOf
      <4>3. IsLast(c) <=> ConnectionsOf(q)' = {}
        BY <3>3, <4>2 DEF IsLast
      <4> QED
        BY <2>3, <3>2, <3>3, <4>1, <4>2, <4>3
    <3>4. CASE q # p
      <4>1. ConnectionsOf(q)' = ConnectionsOf(q)
        BY <2>2, <3>2, <3>4, RoomsAssumption DEF ConnectionsOf
      <4> QED
        BY <2>3, <3>2, <3>4, <4>1
    <3> QED
      BY <3>3, <3>4
  <2>5. NewsReachMembersOnly'
    <3>1. \A d \in Conns : socket'[d] = "open" =>
            \A s \in RoomIds : Exists(s)' => (d \in group'[s] <=> d \in RoomConnections(s)')
      BY <1>1, <2>1, <2>2, <2>3 DEF ConnectionsAgree, NewsReachMembersOnly, RoomConnections
    <3>2. \A s \in RoomIds : \A q : Member(s, q)' <=> Member(s, q)
      BY <2>3 DEF Member
    <3>3. \A d \in Conns : identity'[d] # NoPlayer /\ d \notin stranded' =>
            Member(home[identity[d]], identity[d])'
      <4>1. SUFFICES ASSUME NEW d \in Conns, identity'[d] # NoPlayer, d \notin stranded'
                     PROVE  Member(home[identity[d]], identity[d])'
        OBVIOUS
      <4>2. identity'[d] = identity[d] /\ home[identity[d]] \in RoomIds
            /\ Member(home[identity[d]], identity[d])
        BY <1>1, <2>2, <4>1 DEF ConnectionsAgree, NewsReachMembersOnly, AttachedAtHome
      <4> QED
        BY <1>1, <3>2, <4>2 DEF Member, Exists
    <3> QED
      BY <3>1, <3>3 DEF NewsReachMembersOnly
  <2>6. AttachedAtHome' /\ NewConnections' /\ ClosedGroups'
    BY <1>1, <2>2, <2>3 DEF ConnectionsAgree, AttachedAtHome, NewConnections, ClosedGroups
  <2> QED
    BY <1>2, <2>4, <2>5, <2>6 DEF ConnectionsAgree
<1> QED
  BY <1>3, <1>4

-----------------------------------------------------------------------------
(* The invariant.  No part is inductive alone: the type of a call needs    *)
(* that tokens belong to members, a member's presence that its id was      *)
(* issued for its room and that an attachment is the first of its          *)
(* connection.                                                             *)
IInv == RoomsFormed /\ OtherTypes /\ StoresAgree /\ ConnectionsAgree

LEMMA InitInvariant == Init => IInv
<1> SUFFICES ASSUME Init PROVE IInv
  OBVIOUS
<1>1. RoomsFormed /\ OtherTypes
  BY InitTyped, TypedParts
<1>2. StoresAgree
  BY RoomsAssumption
  DEF Init, StoresAgree, SessionsAreMembers, CodesLeadToOpenRooms, CredentialsAreShown,
      GameKeepsItsTable, Exists
<1>3. ConnectionsAgree
  BY DEF Init, ConnectionsAgree, PresenceIsAttachment, NewsReachMembersOnly, AttachedAtHome,
         FirstAttachments, NewConnections, ClosedGroups, Exists
<1> QED
  BY <1>1, <1>2, <1>3 DEF IInv

LEMMA HandleInvariant ==
  ASSUME IInv, NEW a \in Callers, Handle(a)
  PROVE  IInv'
<1> USE DEF IInv
<1>1. CASE Join(a)
  BY <1>1, JoinForms, JoinStores, JoinConnections
<1>2. CASE JoinRefused(a)
  BY <1>2, RefusalsForm, JoinRefusedStores, RoomChangesConnections
<1>3. CASE MemberLeaves(a)
  BY <1>3, MemberLeavesForms, MemberLeavesStores, MemberLeavesConnections
<1>4. CASE HostCloses(a)
  BY <1>4, HostClosesForms, HostClosesStores, HostClosesConnections
<1>5. CASE LeaveRefused(a)
  <2>1. StoresAgree'
    BY <1>5, SameStores DEF LeaveRefused
  <2> QED
    BY <1>5, <2>1, RefusalsForm, RoomChangesConnections
<1>6. CASE SetReady(a)
  BY <1>6, SetReadyForms, SetReadyStores, RoomChangesConnections
<1>7. CASE SetAiConfiguration(a)
  BY <1>7, SetAiConfigurationForms, SetAiConfigurationStores, RoomChangesConnections
<1>8. CASE RemoveAiCredential(a)
  BY <1>8, RemoveAiCredentialForms, RemoveAiCredentialStores, RoomChangesConnections
<1>9. CASE Initialize(a)
  BY <1>9, InitializeForms, InitializeStores, RoomChangesConnections
<1>10. CASE Attach(a)
  BY <1>10, AttachForms, AttachStores, AttachConnections
<1>11. CASE AttachRejected(a)
  <2>1. StoresAgree'
    BY <1>11, SameStores DEF AttachRejected
  <2> QED
    BY <1>11, <2>1, AttachRejectedForms, AttachRejectedConnections
<1> QED
  BY <1>1, <1>2, <1>3, <1>4, <1>5, <1>6, <1>7, <1>8, <1>9, <1>10, <1>11 DEF Handle

LEMMA NextInvariant == IInv /\ [Next]_vars => IInv'
<1> SUFFICES ASSUME IInv, [Next]_vars PROVE IInv'
  OBVIOUS
<1>1. CASE Create
  BY <1>1, CreateForms, CreateStores, CreateConnections DEF IInv
<1>2. ASSUME NEW a \in Callers, Receive(a) PROVE IInv'
  <2>1. UNCHANGED storeVars
    BY <1>2 DEF Receive, ReceiveJoin, ReceiveRequest, ReceiveAttach, Arrive
  <2>2. SessionsAreMembers
    BY DEF IInv, StoresAgree
  <2> QED
    BY <1>2, <2>1, <2>2, ReceiveForms, SameStores, ReceiveConnections DEF IInv
<1>3. ASSUME NEW a \in Callers, Handle(a) PROVE IInv'
  BY <1>3, HandleInvariant
<1>4. ASSUME NEW c \in Conns, Lose(c) \/ NoticeLoss(c) PROVE IInv'
  <2>1. UNCHANGED storeVars
    BY <1>4 DEF Lose, NoticeLoss
  <2> QED
    BY <1>4, <2>1, LosesForm, SameStores, LosesConnections DEF IInv
<1>5. ASSUME NEW c \in Conns, Disconnect(c) PROVE IInv'
  <2>1. AttachedAtHome
    BY DEF IInv, ConnectionsAgree
  <2> QED
    BY <1>5, <2>1, DisconnectForms, DisconnectStores, DisconnectConnections DEF IInv
<1>6. CASE UNCHANGED vars
  <2>1. UNCHANGED <<storeVars, identity, group, socket, stranded, call>>
    BY <1>6 DEF vars, connectionVars
  <2>2. UNCHANGED <<room, home>>
    BY <2>1 DEF storeVars
  <2>3. RoomsFormed' /\ OtherTypes'
    BY <2>1, <2>2, SameRooms DEF IInv, OtherTypes, storeVars
  <2>4. ConnectionsAgree'
    BY <2>1, <2>2, UnchangedRooms, SameConnections DEF IInv
  <2> QED
    BY <2>1, <2>3, <2>4, SameStores DEF IInv
<1> QED
  BY <1>1, <1>2, <1>3, <1>4, <1>5, <1>6 DEF Next

LEMMA InvariantHolds == Spec => []IInv
  BY InitInvariant, NextInvariant, PTL DEF Spec

(* For any number of rooms, players and calls, the stores are well formed: *)
(* no late join fills a room beyond the capacity its host asked for, and   *)
(* only members are shown as ready or connected.                           *)
THEOREM RoomsTypeCorrect == Spec => []TypeOK
<1>1. IInv => TypeOK
  BY TypedParts DEF IInv, Typed
<1> QED
  BY <1>1, InvariantHolds, PTL

(* A token is valid exactly while its player is a member of an open room,  *)
(* whatever fails when members are told of a leave or a closure.           *)
THEOREM TokensEndWithMembership == Spec => []SessionsAreMembers
<1>1. IInv => SessionsAreMembers
  BY DEF IInv, StoresAgree
<1> QED
  BY <1>1, InvariantHolds, PTL

(* Invite codes lead to open rooms only, and every open room keeps its own *)
(* code, however late the joins of closed rooms are refused.               *)
THEOREM CodesBelongToOpenRooms == Spec => []CodesLeadToOpenRooms
<1>1. IInv => CodesLeadToOpenRooms
  BY DEF IInv, StoresAgree
<1> QED
  BY <1>1, InvariantHolds, PTL

(* What a room says of its AI credential is what the credential store      *)
(* holds.                                                                  *)
THEOREM ShownCredentialIsStored == Spec => []CredentialsAreShown
<1>1. IInv => CredentialsAreShown
  BY DEF IInv, StoresAgree
<1> QED
  BY <1>1, InvariantHolds, PTL

(* Nobody who owns a character leaves a game that goes on, and no game     *)
(* outlives its room.                                                      *)
THEOREM PlayersStayAtTheTable == Spec => []GameKeepsItsTable
<1>1. IInv => GameKeepsItsTable
  BY DEF IInv, StoresAgree
<1> QED
  BY <1>1, InvariantHolds, PTL

(* A member is shown as connected exactly while the registry has one of    *)
(* its connections.                                                        *)
THEOREM ShownPresenceIsAttachment == Spec => []PresenceIsAttachment
<1>1. IInv => PresenceIsAttachment
  BY DEF IInv, ConnectionsAgree
<1> QED
  BY <1>1, InvariantHolds, PTL

(* Over an open transport, group and registry agree, and apart from the    *)
(* connections a failed leave left behind only members get any news.       *)
THEOREM OnlyMembersAreTold == Spec => []NewsReachMembersOnly
<1>1. IInv => NewsReachMembersOnly
  BY DEF IInv, ConnectionsAgree
<1> QED
  BY <1>1, InvariantHolds, PTL
=============================================================================
