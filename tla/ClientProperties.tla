--------------------------- MODULE ClientProperties ---------------------------
(* What the client owes its user.                                            *)
EXTENDS Client

Revisions == 1..MaxRoomRevision \cup 1..MaxGameRevision
Snapshots == [id : Rooms, rev : Revisions] \cup {NoSnapshot}
Slots == [op : {"none", "create", "join", "restore", "restoreGame", "ready", "leave", "initialize",
                "check", "intent", "refresh", "configure", "getSnapshot"},
          at : {"none", "sent", "answered", "starting", "stopping"},
          room : Rooms \cup {None}, based : 0..MaxGameRevision, ans : Answers \cup Revisions]
Messages == [kind : {"room", "game", "attached", "closed"}, id : Rooms,
             rev : Revisions \cup {Refused}]

(* The shape of the state: in particular a room or a game shown is one the   *)
(* server sent, never the refusal of a request.                              *)
TypeOK ==
    /\ srv \in [Rooms -> [open : BOOLEAN, used : BOOLEAN, member : BOOLEAN, host : BOOLEAN,
                          rev : 0..MaxRoomRevision, game : 0..MaxGameRevision]]
    /\ \A c \in Links :
         /\ hub[c].session \in Rooms \cup {None}
         /\ hub[c].phase \in {"closed", "starting", "up", "lost", "stopping"}
         /\ hub[c].asked \in {"no", "sent", "served"}
         /\ hub[c].waiter \in {None, "closed", "leave"}
         /\ hub[c].inbox \in Seq(Messages)
    /\ app \in [session : Rooms \cup {None}, stored : Rooms \cup {None}, room : Snapshots,
                game : Snapshots, link : Links \cup {None}]
    /\ {call, gameCall, panelCall} \subseteq Slots
    /\ chooseAgain \in 0..MaxGameRevision

(* A game shown is the game of the session's room: a push or an answer that  *)
(* belongs to a room left meanwhile is never shown (gameSnapshot.ts:3-9,     *)
(* App.vue:42,60,115-119).                                                   *)
GameOfOwnRoom == app.game # NoSnapshot => app.session = app.game.id

(* The connection App.vue holds attaches the session App.vue holds: none of  *)
(* the ways out of a room leaves the one without the other (App.vue:121-173). *)
LinkServesSession == app.link # None => hub[app.link].session = app.session

(* The session, its connection and the game shown belong together, though    *)
(* the handlers that change them wait in between (App.vue:40-173).           *)
OwnRoomOnly == GameOfOwnRoom /\ LinkServesSession

HearsEverything(c) ==
    app.link = c /\ app.session # None /\ hub[c].phase = "up" /\ hub[c].attached /\ hub[c].inbox = <<>>

(* An attached client that has read its messages shows the latest game, also *)
(* when it was attached anew after a loss and while requests are under way:  *)
(* the attachment sends the game under the gate (RoomHub.cs:89-92) and older *)
(* answers are not accepted.                                                 *)
ShownGameIsLatest ==
    \A c \in Links :
        HearsEverything(c) /\ srv[app.session].game > 0
            => app.game = Snapshot(app.session, srv[app.session].game)

(* A player who is told that the combat changed chooses on a later game than *)
(* the one the refused choice was made on (LobbyView.vue:88-95).             *)
RefusedChoiceIsReplaced == chooseAgain > 0 => app.game.rev > chooseAgain

(* Unless the page is loaded again and again, a handler that keeps App.vue's *)
(* buttons disabled comes to its end, whatever is lost on its way            *)
(* (App.vue:28-38,76-103,121-141, roomConnection.ts:51-72).                  *)
BusyEnds == <>[][~ Reload]_vars => (busy ~> ~ busy)
=============================================================================
