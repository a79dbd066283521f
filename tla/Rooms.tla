------------------------------- MODULE Rooms -------------------------------
(***************************************************************************)
(* The rooms of the multiplayer server: Rooms/, RoomApi.cs, the lifecycle  *)
(* half of Realtime/ and the start of a game.                              *)
(*                                                                         *)
(* An operation on a room runs under the room's RoomMutationDeliveryGate,  *)
(* so it is one step.  What it knows when it queues up at the gate, it     *)
(* looked up before: the session behind the token, the room behind the     *)
(* invite code, the identity behind the connection.  A call is therefore   *)
(* two steps: it arrives with what it found (Receive...), and its handler  *)
(* runs later, when all of that may be out of date.                        *)
(***************************************************************************)
EXTENDS FiniteSets, Naturals

CONSTANTS
  RoomIds, PlayerIds, Conns, Codes,   \* identities: never used twice, but for codes
  Callers,                            \* HTTP and hub calls that can be under way at once
  Capacities,                         \* the MaxPlayers a host may ask for
  Requests,                           \* what players ask for; all of PlayerRequests in the code
  NoRoom, NoPlayer, NoConn, NoCode, Idle

PlayerRequests == {"leave", "ready", "unready", "configure", "configureKey", "forgetKey",
                   "initialize"}

RoomSessions == [host : PlayerIds, capacity : Capacities, members : SUBSET PlayerIds,
                 ready : SUBSET PlayerIds, connected : SUBSET PlayerIds,
                 ai : {"none", "bare", "keyed"}]

ASSUME RoomsAssumption ==
  /\ NoRoom \notin RoomIds \cup RoomSessions /\ NoPlayer \notin PlayerIds /\ NoConn \notin Conns
  /\ NoCode \notin Codes
  /\ Capacities \subseteq Nat \ {0}
  /\ Requests \subseteq PlayerRequests

VARIABLES
  room,        \* IRoomStore: the RoomSession of each room, or NoRoom
  sessions,    \* IPlayerSessionStore: the players whose token is valid
  home,        \* the room each player id was issued for, or NoRoom: part of the token
  codeOf,      \* IInviteCodeRegistry, codesByRoomId
  roomOf,      \* IInviteCodeRegistry, roomIdsByCode
  credentials, \* IRoomCredentialStore: the rooms with a stored credential
  game,        \* IGameStateStore: the owners of the characters, {} without a game
  identity,    \* IPlayerConnectionRegistry: the player behind each connection
  group,       \* the SignalR group of each room
  socket,      \* the life of each connection: new, open, lost, closing, gone
  call,        \* the call each caller has under way
  stranded     \* history: connections a failed leave did not remove

storeVars      == <<room, sessions, home, codeOf, roomOf, credentials, game>>
connectionVars == <<identity, group, socket, stranded>>
vars == <<storeVars, connectionVars, call>>

Exists(r) == room[r] # NoRoom
Member(r, p) == Exists(r) /\ p \in room[r].members
IsHost(r, p) == Member(r, p) /\ room[r].host = p
ConnectionsOf(p) == {c \in Conns : identity[c] = p}
RoomConnections(r) == {c \in Conns : identity[c] # NoPlayer /\ home[identity[c]] = r}

FaultyUnregistered(removed) == identity

Unregistered(removed) == [c \in Conns |-> IF c \in removed THEN NoPlayer ELSE identity[c]]

\* Is c the last connection of its player?
FaultyIsLast(c) == TRUE

IsLast(c) == ConnectionsOf(identity[c]) = {c}

Calls ==
  [op : {"join"}, room : RoomIds, player : {NoPlayer}, conn : {NoConn}]
  \cup [op : PlayerRequests, room : RoomIds, player : PlayerIds, conn : {NoConn}]
  \cup [op : {"attach"}, room : RoomIds, player : PlayerIds, conn : Conns]

Init ==
  /\ room = [r \in RoomIds |-> NoRoom]
  /\ sessions = {}
  /\ home = [p \in PlayerIds |-> NoRoom]
  /\ codeOf = [r \in RoomIds |-> NoCode]
  /\ roomOf = [k \in Codes |-> NoRoom]
  /\ credentials = {}
  /\ game = [r \in RoomIds |-> {}]
  /\ identity = [c \in Conns |-> NoPlayer]
  /\ group = [r \in RoomIds |-> {}]
  /\ socket = [c \in Conns |-> "new"]
  /\ call = [a \in Callers |-> Idle]
  /\ stranded = {}

-----------------------------------------------------------------------------
(* A room is opened outside any gate: nobody knows its id before the       *)
(* answer.  When no free invite code is found the room is taken down again *)
(* before anybody could see it, so that call is no step.                   *)
Create ==
  \E r \in RoomIds, p \in PlayerIds, code \in Codes, capacity \in Capacities :
    /\ \A q \in PlayerIds : home[q] # r
    /\ home[p] = NoRoom
    /\ roomOf[code] = NoRoom
    /\ room' = [room EXCEPT ![r] = [host |-> p, capacity |-> capacity, members |-> {p},
                                    ready |-> {}, connected |-> {}, ai |-> "none"]]
    /\ sessions' = sessions \cup {p}
    /\ home' = [home EXCEPT ![p] = r]
    /\ codeOf' = [codeOf EXCEPT ![r] = code]
    /\ roomOf' = [roomOf EXCEPT ![code] = r]
    /\ UNCHANGED <<credentials, game, connectionVars, call>>

-----------------------------------------------------------------------------
(* Arrivals: the checks that are made before the gate.                     *)
Arrive(a, new) ==
  /\ call[a] = Idle
  /\ call' = [call EXCEPT ![a] = new]
  /\ UNCHANGED storeVars

\* The invite code is turned into a room id.
ReceiveJoin(a) ==
  \E code \in Codes :
    /\ roomOf[code] # NoRoom
    /\ Arrive(a, [op |-> "join", room |-> roomOf[code], player |-> NoPlayer, conn |-> NoConn])
    /\ UNCHANGED connectionVars

\* The bearer token is turned into a player and its room.
ReceiveRequest(a) ==
  \E p \in sessions, op \in Requests :
    /\ Arrive(a, [op |-> op, room |-> home[p], player |-> p, conn |-> NoConn])
    /\ UNCHANGED connectionVars

\* The client attaches once over each connection: a reconnect has a new id.
ReceiveAttach(a) ==
  \E p \in sessions, c \in Conns :
    /\ socket[c] = "new"
    /\ Arrive(a, [op |-> "attach", room |-> home[p], player |-> p, conn |-> c])
    /\ socket' = [socket EXCEPT ![c] = "open"]
    /\ UNCHANGED <<identity, group, stranded>>

Running(a, ops) == call[a] # Idle /\ call[a].op \in ops
Finish(a) == call' = [call EXCEPT ![a] = Idle]

-----------------------------------------------------------------------------
(* Joining.                                                                *)

\* Only one of the two maps is cleared.
FaultyRemoveCode(r) ==
  /\ codeOf' = [codeOf EXCEPT ![r] = NoCode]
  /\ UNCHANGED roomOf

\* InMemoryInviteCodeRegistry.Remove
RemoveCode(r) ==
  /\ codeOf' = [codeOf EXCEPT ![r] = NoCode]
  /\ roomOf' = [k \in Codes |-> IF k = codeOf[r] THEN NoRoom ELSE roomOf[k]]

\* Off by one in the room's capacity.
FaultyJoinable(r) ==
  /\ game[r] = {}
  /\ Exists(r)
  /\ Cardinality(room[r].members) <= room[r].capacity

Joinable(r) ==
  /\ game[r] = {}
  /\ Exists(r)
  /\ Cardinality(room[r].members) < room[r].capacity

Join(a) ==
  /\ Running(a, {"join"})
  /\ LET r == call[a].room IN
       /\ Joinable(r)
       /\ \E p \in PlayerIds :
            /\ home[p] = NoRoom
            /\ room' = [room EXCEPT ![r].members = @ \cup {p}]
            /\ home' = [home EXCEPT ![p] = r]
            /\ sessions' = sessions \cup {p}
  /\ Finish(a)
  /\ UNCHANGED <<codeOf, roomOf, credentials, game, connectionVars>>

\* A join that finds its room gone clears the invite code of that room.
JoinRefused(a) ==
  /\ Running(a, {"join"})
  /\ LET r == call[a].room IN
       /\ ~ Joinable(r)
       /\ IF game[r] = {} /\ ~ Exists(r)
          THEN RemoveCode(r)
          ELSE UNCHANGED <<codeOf, roomOf>>
  /\ Finish(a)
  /\ UNCHANGED <<room, sessions, home, credentials, game, connectionVars>>

-----------------------------------------------------------------------------
(* Leaving.                                                                *)

\* Members may leave while the game goes on.
FaultyMayLeave(r, p) == Member(r, p)

MayLeave(r, p) ==
  /\ Member(r, p)
  /\ game[r] # {} => room[r].host = p

\* A member leaves: its connections are taken out of the group and the
\* registry one by one, and a failure leaves the rest where they are.  The
\* session ends in any case.
MemberLeaves(a) ==
  /\ Running(a, {"leave"})
  /\ LET r == call[a].room
         p == call[a].player
     IN  /\ MayLeave(r, p) /\ room[r].host # p
         /\ room' = [room EXCEPT ![r].members = @ \ {p},
                                 ![r].ready = @ \ {p},
                                 ![r].connected = @ \ {p}]
         /\ sessions' = sessions \ {p}
         /\ \E removed \in SUBSET ConnectionsOf(p) :
              /\ identity' = Unregistered(removed)
              /\ group' = [group EXCEPT ![r] = @ \ removed]
              /\ stranded' = stranded \cup (ConnectionsOf(p) \ removed)
  /\ Finish(a)
  /\ UNCHANGED <<home, codeOf, roomOf, credentials, game, socket>>

\* Only the host's own token ends with the room.
FaultySessionsOf(r) == {room[r].host}

\* What InMemoryPlayerSessionStore.RemoveByRoom removes.
SessionsOf(r) == {p \in sessions : home[p] = r}

\* The host leaves: the room is closed, with all that belongs to it.
HostCloses(a) ==
  /\ Running(a, {"leave"})
  /\ LET r == call[a].room IN
       /\ IsHost(r, call[a].player)
       /\ room' = [room EXCEPT ![r] = NoRoom]
       /\ credentials' = credentials \ {r}
       /\ game' = [game EXCEPT ![r] = {}]
       /\ identity' = Unregistered(RoomConnections(r))
       /\ group' = [group EXCEPT ![r] = {}]
       /\ sessions' = sessions \ SessionsOf(r)
       /\ RemoveCode(r)
  /\ Finish(a)
  /\ UNCHANGED <<home, socket, stranded>>

LeaveRefused(a) ==
  /\ Running(a, {"leave"})
  /\ ~ MayLeave(call[a].room, call[a].player)
  /\ Finish(a)
  /\ UNCHANGED <<storeVars, connectionVars>>

-----------------------------------------------------------------------------
(* Changes of a room.  A change that is refused, or changes nothing, only  *)
(* ends the call.                                                          *)

SetReady(a) ==
  /\ Running(a, {"ready", "unready"})
  /\ LET r == call[a].room
         p == call[a].player
     IN  IF Member(r, p)
         THEN room' = [room EXCEPT ![r].ready =
                         IF call[a].op = "ready" THEN @ \cup {p} ELSE @ \ {p}]
         ELSE UNCHANGED room
  /\ Finish(a)
  /\ UNCHANGED <<sessions, home, codeOf, roomOf, credentials, game, connectionVars>>

\* A stored key is forgotten when the configuration comes without one.
FaultyKeyPresent(r, provided) == provided

KeyPresent(r, provided) == provided \/ r \in credentials

\* The configuration says whether a credential is present; a key that comes
\* with it is stored after the room is replaced.
SetAiConfiguration(a) ==
  /\ Running(a, {"configure", "configureKey"})
  /\ LET r == call[a].room
         provided == call[a].op = "configureKey"
     IN  IF IsHost(r, call[a].player)
         THEN /\ room' = [room EXCEPT ![r].ai = IF KeyPresent(r, provided) THEN "keyed" ELSE "bare"]
              /\ credentials' = IF provided THEN credentials \cup {r} ELSE credentials
         ELSE UNCHANGED <<room, credentials>>
  /\ Finish(a)
  /\ UNCHANGED <<sessions, home, codeOf, roomOf, game, connectionVars>>

RemoveAiCredential(a) ==
  /\ Running(a, {"forgetKey"})
  /\ LET r == call[a].room IN
       IF IsHost(r, call[a].player) /\ room[r].ai # "none"
       THEN /\ room' = [room EXCEPT ![r].ai = "bare"]
            /\ credentials' = credentials \ {r}
       ELSE UNCHANGED <<room, credentials>>
  /\ Finish(a)
  /\ UNCHANGED <<sessions, home, codeOf, roomOf, game, connectionVars>>

\* The host starts the game with characters for some of the members.
Initialize(a) ==
  /\ Running(a, {"initialize"})
  /\ LET r == call[a].room IN
       \/ /\ IsHost(r, call[a].player)
          /\ game[r] = {}
          /\ \E owners \in SUBSET room[r].members \ {{}} : game' = [game EXCEPT ![r] = owners]
       \/ UNCHANGED game
  /\ Finish(a)
  /\ UNCHANGED <<room, sessions, home, codeOf, roomOf, credentials, connectionVars>>

-----------------------------------------------------------------------------
(* Connections.                                                            *)

\* The first connection of a player shows it as connected, in the same step.
Attach(a) ==
  /\ Running(a, {"attach"})
  /\ LET r == call[a].room
         p == call[a].player
         c == call[a].conn
     IN  /\ Member(r, p)
         /\ identity[c] \in {NoPlayer, p}
         /\ identity' = [identity EXCEPT ![c] = p]
         /\ group' = [group EXCEPT ![r] = @ \cup {c}]
         /\ room' = IF ConnectionsOf(p) = {}
                    THEN [room EXCEPT ![r].connected = @ \cup {p}]
                    ELSE room
  /\ Finish(a)
  /\ UNCHANGED <<sessions, home, codeOf, roomOf, credentials, game, socket, stranded>>

\* A player that is no member any more is turned away, and so is one whose
\* connection could not be put into the group.  The connection is cleaned up,
\* unless it is attached to another room, or to another player of this room
\* when the registry refuses it.
AttachRejected(a) ==
  /\ Running(a, {"attach"})
  /\ LET r == call[a].room
         p == call[a].player
         c == call[a].conn
         taken == identity[c] \notin {NoPlayer, p}
     IN  IF taken /\ (Member(r, p) \/ home[identity[c]] # r)
         THEN UNCHANGED <<identity, group>>
         ELSE /\ identity' = [identity EXCEPT ![c] = NoPlayer]
              /\ group' = [group EXCEPT ![r] = @ \ {c}]
  /\ Finish(a)
  /\ UNCHANGED <<storeVars, socket, stranded>>

\* The transport of a connection breaks, or the client stops it.
Lose(c) ==
  /\ socket[c] = "open"
  /\ socket' = [socket EXCEPT ![c] = "lost"]
  /\ UNCHANGED <<storeVars, identity, group, call, stranded>>

\* The loss is taken note of, and the registry is forgotten.
FaultyNoticeLoss(c) ==
  /\ socket[c] = "lost"
  /\ socket' = [socket EXCEPT ![c] = "gone"]
  /\ UNCHANGED <<storeVars, identity, group, call, stranded>>

\* RoomHub is told of the loss and looks the connection up, before the gate.
NoticeLoss(c) ==
  /\ socket[c] = "lost"
  /\ socket' = [socket EXCEPT ![c] = IF identity[c] = NoPlayer THEN "gone" ELSE "closing"]
  /\ UNCHANGED <<storeVars, identity, group, call, stranded>>

\* Under the gate: the last connection of a member shows it as disconnected.
Disconnect(c) ==
  /\ socket[c] = "closing"
  /\ socket' = [socket EXCEPT ![c] = "gone"]
  /\ IF identity[c] = NoPlayer
     THEN UNCHANGED <<room, identity, group>>
     ELSE LET p == identity[c]
              r == home[p]
          IN  /\ identity' = [identity EXCEPT ![c] = NoPlayer]
              /\ group' = [group EXCEPT ![r] = @ \ {c}]
              /\ room' = IF IsLast(c) /\ Member(r, p)
                         THEN [room EXCEPT ![r].connected = @ \ {p}]
                         ELSE room
  /\ UNCHANGED <<sessions, home, codeOf, roomOf, credentials, game, call, stranded>>

-----------------------------------------------------------------------------
Receive(a) == ReceiveJoin(a) \/ ReceiveRequest(a) \/ ReceiveAttach(a)

Handle(a) ==
  \/ Join(a) \/ JoinRefused(a)
  \/ MemberLeaves(a) \/ HostCloses(a) \/ LeaveRefused(a)
  \/ SetReady(a) \/ SetAiConfiguration(a) \/ RemoveAiCredential(a) \/ Initialize(a)
  \/ Attach(a) \/ AttachRejected(a)

Next ==
  \/ Create
  \/ \E a \in Callers : Receive(a) \/ Handle(a)
  \/ \E c \in Conns : Lose(c) \/ NoticeLoss(c) \/ Disconnect(c)

\* Every call gets through the gate: a handler always releases it.  SignalR
\* tells the hub of every connection that is lost.
Fairness ==
  /\ \A a \in Callers : WF_vars(Handle(a))
  /\ \A c \in Conns : WF_vars(NoticeLoss(c)) /\ WF_vars(Disconnect(c))

Spec == Init /\ [][Next]_vars
FairSpec == Spec /\ Fairness
=============================================================================
