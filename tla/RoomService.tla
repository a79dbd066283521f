---------------------------- MODULE RoomService ----------------------------
(* The server and the network as one browser tab sees them: the rooms the   *)
(* tab's player creates or joins, the revision of each room and of its game, *)
(* and the hub connections over which snapshots are pushed in order.  The    *)
(* server's side is the subject of Rooms; here it is only what a client can  *)
(* meet: every mutation of a room is published under the room's delivery     *)
(* gate, while the answer of the request that made it travels on its own.    *)
EXTENDS Integers, Sequences

CONSTANTS
    Rooms,            \* the rooms the tab may create or join
    MaxRoomRevision,  \* bound: a room changes this often
    MaxGameRevision,  \* bound: a game is committed this often
    Links,            \* the RoomConnection objects of the tab
    None

ASSUME NoneAssumption == None \notin Rooms \cup Links
ASSUME RevisionAssumption == MaxRoomRevision \in Nat \ {0} /\ MaxGameRevision \in Nat

VARIABLES
    srv,   \* room -> what the server holds of it
    hub    \* connection object -> its transport and its place at the server

(* The answers a request may get, beside a revision, which is at least 1. *)
Missing == 0     \* 404: the room has no game
Refused == -1    \* 401, 403 or 404: the session or the room is gone
Conflict == -2   \* 409
Answers == {Missing, Refused, Conflict}

NewRoom == [open |-> FALSE, used |-> FALSE, member |-> FALSE, host |-> FALSE,
            rev |-> 0, game |-> 0]

(* held: RoomConnection.connection is set.  asked: the invocation of         *)
(* AttachSession, "no", "sent", or "served" with its result due.  waiter:    *)
(* the handler that awaits the stop of the connection.  starting: the        *)
(* handler that started it still waits for it.                               *)
NoLink == [session |-> None, phase |-> "closed", held |-> FALSE, asked |-> "no",
           attached |-> FALSE, due |-> Missing, inbox |-> <<>>, waiter |-> None, starting |-> FALSE]

News(kind, r, rev) == [kind |-> kind, id |-> r, rev |-> rev]

Valid(r) == r # None /\ srv[r].open /\ srv[r].member

(* What the hub pushes to every attached connection of room r. *)
Pushed(h, r, news) ==
    [c \in Links |-> IF h[c].attached /\ h[c].session = r
                     THEN [h[c] EXCEPT !.inbox = Append(@, news)]
                     ELSE h[c]]

Detached(h, r) ==
    [c \in Links |-> IF h[c].session = r THEN [h[c] EXCEPT !.attached = FALSE] ELSE h[c]]

(* A mutation of room r, published before the gate is given back. *)
ChangeRoom(r) ==
    /\ srv[r].rev < MaxRoomRevision
    /\ srv' = [srv EXCEPT ![r].rev = @ + 1]
    /\ hub' = Pushed(hub, r, News("room", r, srv[r].rev + 1))

(* A committed step of the game of room r, published under the same gate. *)
ChangeGame(r) ==
    /\ srv[r].game < MaxGameRevision
    /\ srv' = [srv EXCEPT ![r].game = @ + 1]
    /\ hub' = Pushed(hub, r, News("game", r, srv[r].game + 1))

(* The host leaves: members are told, then the registry forgets the room. *)
CloseRoom(r) ==
    /\ srv' = [srv EXCEPT ![r].open = FALSE, ![r].member = FALSE]
    /\ hub' = Detached(Pushed(hub, r, News("closed", r, srv[r].rev)), r)

(* A member leaves: its connections are taken out before the others are told. *)
LoseMember(r) ==
    /\ srv' = [srv EXCEPT ![r].member = FALSE]
    /\ hub' = Detached(hub, r)

(* What happens without the tab's waiting for it: other players act, and so  *)
(* does the server for a request this tab has given up, by a reload or after *)
(* a failure of the network.                                                 *)
SomebodyActs(r) ==
    /\ Valid(r)
    /\ ChangeRoom(r) \/ ChangeGame(r) \/ CloseRoom(r) \/ (srv[r].game = 0 /\ LoseMember(r))

FaultyServeAttach(c) ==
    /\ hub[c].phase = "up" /\ hub[c].asked = "sent"
    /\ hub' = [hub EXCEPT ![c].attached = Valid(hub[c].session), ![c].asked = "served",
                          ![c].due = IF Valid(hub[c].session) THEN srv[hub[c].session].rev ELSE Refused]
    /\ UNCHANGED srv

Registered(c) == [hub EXCEPT ![c].attached = TRUE]

(* The caller's result is due, and the game pushed to this connection alone. *)
Greeted(h, c, r, rev) ==
    [h EXCEPT ![c].due = rev, ![c].asked = "served",
              ![c].inbox = IF srv[r].game > 0
                           THEN Append(@, News("game", r, srv[r].game))
                           ELSE @]

(* RoomHub.AttachSession under the gate: registered, the presence change told *)
(* when this is the player's first connection.  The room snapshot it returns  *)
(* is written later.                                                          *)
ServeAttach(c) ==
    LET r == hub[c].session
    IN  /\ hub[c].phase = "up" /\ hub[c].asked = "sent"
        /\ \/ /\ Valid(r) /\ srv[r].rev < MaxRoomRevision
              /\ srv' = [srv EXCEPT ![r].rev = @ + 1]
              /\ hub' = Greeted(Pushed(Registered(c), r, News("room", r, srv[r].rev + 1)),
                                c, r, srv[r].rev + 1)
           \/ /\ Valid(r)
              /\ srv' = srv
              /\ hub' = Greeted(Registered(c), c, r, srv[r].rev)
           \/ /\ ~ Valid(r)
              /\ srv' = srv
              /\ hub' = [hub EXCEPT ![c].due = Refused, ![c].asked = "served"]

(* The hub writes the result of AttachSession: the gate is free by then, so   *)
(* news of later changes may stand before it.                                 *)
WriteAttachResult(c) ==
    /\ hub[c].phase = "up" /\ hub[c].due # Missing
    /\ hub' = [hub EXCEPT ![c].due = Missing,
                          ![c].inbox = Append(@, News("attached", hub[c].session, hub[c].due))]
    /\ UNCHANGED srv
=============================================================================
