------------------------------- MODULE Client -------------------------------
(* The multiplayer client of one browser tab: App.vue with the lobby, the    *)
(* host's AI panel, the RoomConnection objects and the copy of the session   *)
(* in sessionStorage.  A handler runs atomically between two awaits; what it *)
(* awaits is a request to the server (call, gameCall, panelCall), the start  *)
(* or the stop of a connection, or the result of AttachSession.              *)
EXTENDS RoomService

VARIABLES
    app,        \* the refs of App.vue and the browser's stored session
    call,       \* the handler that keeps App.vue busy, and what it awaits
    gameCall,   \* the handler that keeps the lobby's game controls busy
    panelCall,  \* the handler that keeps the host's AI panel busy
    chooseAgain \* 0, or the revision of the refused choice the lobby reports

vars == <<srv, hub, app, call, gameCall, panelCall, chooseAgain>>

Idle == [op |-> "none", at |-> "none", room |-> None, based |-> 0, ans |-> Missing]
Sent(op, r) == [Idle EXCEPT !.op = op, !.at = "sent", !.room = r]
busy == call.op # "none"
gameBusy == gameCall.op # "none"

NoSnapshot == [id |-> None, rev |-> 0]
Snapshot(r, rev) == [id |-> r, rev |-> rev]
AtHome == app.room = NoSnapshot

Blank == [session |-> None, stored |-> None, room |-> NoSnapshot,
          game |-> NoSnapshot, link |-> None]

Init ==
    /\ srv = [r \in Rooms |-> NewRoom]
    /\ hub = [c \in Links |-> NoLink]
    /\ app = Blank
    /\ call = Idle /\ gameCall = Idle /\ panelCall = Idle
    /\ chooseAgain = 0

-----------------------------------------------------------------------------
(* What handlers do to App.vue's state. *)

shouldAcceptGameSnapshot(current, next, roomId) ==
    next.id = roomId /\ (current = NoSnapshot \/ next.rev >= current.rev)

acceptGameSnapshot(a, next) ==
    IF a.session # None /\ shouldAcceptGameSnapshot(a.game, next, a.session)
    THEN [a EXCEPT !.game = next]
    ELSE a

(* Every answer and every push of a room replaces the one shown. *)
ShowRoom(a, snapshot) == [a EXCEPT !.room = snapshot]

SaveSession(a, r) == [a EXCEPT !.session = r, !.stored = r]

(* A request names the room shown and carries the token of the session: the  *)
(* server refuses it when the two do not belong together.                    *)
RoomAsked == IF app.room.id = app.session THEN app.session ELSE None

(* The end of leaveRoom and of handleRoomClosed. *)
FaultyGoHome == [Blank EXCEPT !.link = app.link]
GoHome == Blank

(* The lobby and the panel are unmounted when no room is shown: what their   *)
(* handlers emit later goes nowhere.                                         *)
Unmount(slot) == IF app'.room = NoSnapshot THEN Idle ELSE slot
LobbyStays ==
    /\ gameCall' = Unmount(gameCall)
    /\ panelCall' = Unmount(panelCall)
    /\ chooseAgain' = IF app'.room = NoSnapshot THEN 0 ELSE chooseAgain

LobbyUnchanged == UNCHANGED <<gameCall, panelCall, chooseAgain>>

-----------------------------------------------------------------------------
(* Connections. *)

Fresh(c) == hub[c].phase = "closed" /\ c # app.link

(* startRealtime with a new RoomConnection: the handler that called it waits *)
(* for the transport and then for AttachSession.                             *)
startRealtime(a, r) ==
    \E c \in Links :
        /\ Fresh(c)
        /\ hub' = [hub EXCEPT ![c] = [NoLink EXCEPT !.session = r, !.phase = "starting",
                                                    !.held = TRUE, !.starting = TRUE]]
        /\ app' = [a EXCEPT !.link = c]
        /\ call' = [call EXCEPT !.at = "starting", !.room = r]

(* AttachSession is over, by its result or with its transport: the handler   *)
(* that started the connection, if it still waits, is done.                  *)
AttachEnds(c) == call' = IF hub[c].starting THEN Idle ELSE call

Started(c) ==
    /\ hub[c].phase = "starting"
    /\ \/ hub' = [hub EXCEPT ![c].phase = "up", ![c].asked = "sent"] /\ call' = call
       \/ hub' = [hub EXCEPT ![c].phase = "closed", ![c].starting = FALSE] /\ AttachEnds(c)
    /\ UNCHANGED <<srv, app>> /\ LobbyUnchanged

Dropped(h) == [h EXCEPT !.phase = "lost", !.attached = FALSE, !.inbox = <<>>,
                        !.due = Missing, !.asked = "no", !.starting = FALSE]

FaultyLost(c) ==
    /\ hub[c].phase = "up"
    /\ hub' = [hub EXCEPT ![c] = Dropped(@)]
    /\ call' = call
    /\ UNCHANGED <<srv, app>> /\ LobbyUnchanged

(* The transport is lost with everything under way on it. *)
Lost(c) ==
    /\ hub[c].phase = "up"
    /\ hub' = [hub EXCEPT ![c] = Dropped(@)]
    /\ AttachEnds(c)
    /\ UNCHANGED <<srv, app>> /\ LobbyUnchanged

(* Automatic reconnection: the session is attached again, or it is given up. *)
Reconnected(c) ==
    /\ hub[c].phase = "lost"
    /\ \/ hub' = [hub EXCEPT ![c].phase = "up", ![c].asked = "sent"]
       \/ hub' = [hub EXCEPT ![c].phase = "closed"]
    /\ UNCHANGED <<srv, app, call>> /\ LobbyUnchanged

(* RoomConnection.stop, called by waiter: awaited only when a connection is  *)
(* held, because the first stop takes it away.                               *)
Stopping(h, waiter) ==
    [h EXCEPT ![app.link].phase = "stopping", ![app.link].held = FALSE, ![app.link].waiter = waiter]
MustStop == app.link # None /\ hub[app.link].held

(* It stops the connection App.vue holds now, whichever delivered the news.  *)
handleRoomClosed(h) ==
    IF MustStop
    THEN hub' = Stopping(h, "closed") /\ app' = app
    ELSE hub' = h /\ app' = GoHome

(* The stop has gone through; its waiter goes home, even when the tab has    *)
(* entered another room since.                                               *)
Stopped(c) ==
    /\ hub[c].phase = "stopping"
    /\ hub' = [hub EXCEPT ![c] = NoLink]
    /\ app' = GoHome
    /\ IF hub[c].waiter = "leave" THEN call' = Idle ELSE AttachEnds(c)
    /\ LobbyStays
    /\ UNCHANGED srv

(* One message of the hub, in the order it was sent; a connection that is    *)
(* being stopped still hands over what has arrived.                          *)
Deliver(c) ==
    LET m == Head(hub[c].inbox)
        read == [hub EXCEPT ![c].inbox = Tail(@)]
    IN  /\ hub[c].phase \in {"up", "stopping"} /\ hub[c].inbox # <<>>
        /\ \/ /\ m.kind = "room"
              /\ hub' = read /\ app' = ShowRoom(app, Snapshot(m.id, m.rev)) /\ call' = call
           \/ /\ m.kind = "game"
              /\ hub' = read /\ app' = acceptGameSnapshot(app, Snapshot(m.id, m.rev)) /\ call' = call
           \/ /\ m.kind = "attached"
              /\ hub' = [read EXCEPT ![c].asked = "no", ![c].starting = FALSE]
              /\ app' = IF m.rev = Refused THEN app ELSE ShowRoom(app, Snapshot(m.id, m.rev))
              /\ AttachEnds(c)
           \/ /\ m.kind = "closed"
              /\ handleRoomClosed(read)
              /\ call' = call
        /\ LobbyStays
        /\ UNCHANGED srv

-----------------------------------------------------------------------------
(* The page: mounted, or loaded again by its user. *)

(* Everything the tab held is gone but the stored session, which restoreRoom *)
(* takes up at once.                                                         *)
Reload ==
    /\ hub' = [c \in Links |-> NoLink]
    /\ app' = [Blank EXCEPT !.stored = app.stored, !.session = app.stored]
    /\ call' = IF app.stored = None THEN Idle ELSE Sent("restore", app.stored)
    /\ LobbyStays
    /\ UNCHANGED srv

-----------------------------------------------------------------------------
(* The handlers of App.vue, from the click to the last await. *)

(* createRoom and joinRoom, of a room nobody of this tab has been in  *)
(* (bound: there are as many rooms to enter as Rooms has).                   *)
Enter(op) ==
    /\ AtHome /\ ~ busy
    /\ \E r \in Rooms : ~ srv[r].used
    /\ app' = [app EXCEPT !.game = NoSnapshot]
    /\ call' = Sent(op, None)
    /\ UNCHANGED <<srv, hub>> /\ LobbyUnchanged

(* toggleReady and leaveRoom of the lobby's controls. *)
Ask(op) ==
    /\ ~ busy /\ app.session # None /\ ~ AtHome
    /\ call' = Sent(op, RoomAsked)
    /\ UNCHANGED <<srv, hub, app>> /\ LobbyUnchanged

(* The server answers the request of the busy handler. *)
ServeEnter ==
    /\ call.op \in {"create", "join"} /\ call.at = "sent"
    /\ \E r \in Rooms :
        /\ ~ srv[r].used
        /\ srv' = [srv EXCEPT ![r] = [open |-> TRUE, used |-> TRUE, member |-> TRUE,
                                      host |-> call.op = "create", rev |-> 1, game |-> 0]]
        /\ call' = [call EXCEPT !.at = "answered", !.room = r, !.ans = 1]
    /\ UNCHANGED <<hub, app>> /\ LobbyUnchanged

Answered(rev) == call' = [call EXCEPT !.at = "answered", !.ans = rev]

ServeCall ==
    LET r == call.room
    IN  /\ call.at = "sent" /\ call.op \notin {"create", "join"}
        /\ \/ ~ Valid(r) /\ Answered(Refused) /\ UNCHANGED <<srv, hub>>
           \/ /\ Valid(r) /\ call.op = "restore"
              /\ Answered(srv[r].rev) /\ UNCHANGED <<srv, hub>>
           \/ /\ Valid(r) /\ call.op = "restoreGame"
              /\ Answered(srv[r].game) /\ UNCHANGED <<srv, hub>>
           \/ /\ Valid(r) /\ call.op = "ready"
              /\ \/ ChangeRoom(r) /\ Answered(srv[r].rev + 1)
                 \/ Answered(srv[r].rev) /\ UNCHANGED <<srv, hub>>
           \/ /\ Valid(r) /\ call.op = "leave"
              /\ \/ srv[r].host /\ CloseRoom(r) /\ Answered(srv[r].rev)
                 \/ ~ srv[r].host /\ srv[r].game = 0 /\ LoseMember(r) /\ Answered(srv[r].rev)
                 \/ /\ ~ srv[r].host /\ srv[r].game > 0
                    /\ Answered(Conflict) /\ UNCHANGED <<srv, hub>>
        /\ UNCHANGED app /\ LobbyUnchanged

(* What a handler does when its answer has come. *)
Entered ==
    /\ call.op \in {"create", "join"} /\ call.at = "answered"
    /\ startRealtime(ShowRoom(SaveSession(app, call.room), Snapshot(call.room, call.ans)), call.room)

Restored ==
    /\ call.op = "restore" /\ call.at = "answered"
    /\ IF call.ans = Refused
       THEN app' = Blank /\ call' = Idle
       ELSE app' = ShowRoom(app, Snapshot(call.room, call.ans)) /\ call' = Sent("restoreGame", call.room)
    /\ hub' = hub

RestoredGame ==
    /\ call.op = "restoreGame" /\ call.at = "answered"
    /\ IF call.ans = Refused
       THEN app' = [app EXCEPT !.session = None, !.stored = None] /\ call' = Idle /\ hub' = hub
       ELSE startRealtime(IF call.ans = Missing THEN app
                          ELSE acceptGameSnapshot(app, Snapshot(call.room, call.ans)), call.room)

FaultyReadySet ==
    /\ call.op = "ready" /\ call.at = "answered"
    /\ app' = ShowRoom(app, Snapshot(call.room, call.ans))
    /\ call' = Idle
    /\ hub' = hub

ReadySet ==
    /\ call.op = "ready" /\ call.at = "answered"
    /\ app' = IF call.ans = Refused THEN app ELSE ShowRoom(app, Snapshot(call.room, call.ans))
    /\ call' = Idle
    /\ hub' = hub

HasLeft ==
    /\ call.op = "leave" /\ call.at = "answered"
    /\ \/ call.ans \in Answers /\ app' = app /\ hub' = hub /\ call' = Idle
       \/ /\ call.ans \notin Answers /\ MustStop
          /\ hub' = Stopping(hub, "leave") /\ app' = app
          /\ call' = [call EXCEPT !.at = "stopping"]
       \/ call.ans \notin Answers /\ ~ MustStop /\ app' = GoHome /\ hub' = hub /\ call' = Idle

Continue ==
    /\ Entered \/ Restored \/ RestoredGame \/ ReadySet \/ HasLeft
    /\ LobbyStays
    /\ UNCHANGED srv

(* The network fails: the request is lost, or its answer is.  restoreRoom    *)
(* keeps the session for a later attempt; the others only report it.         *)
CallFails ==
    /\ call.at \in {"sent", "answered"}
    /\ call' = Idle
    /\ UNCHANGED <<srv, hub, app>> /\ LobbyUnchanged

-----------------------------------------------------------------------------
(* The lobby's game controls: each handler is alone while gameBusy.          *)

Shown == app.session # None /\ ~ AtHome
HostView == Shown /\ srv[app.room.id].host
GameUnchanged == UNCHANGED <<srv, hub, app, call, panelCall>>

(* meleeAttack, passCombatTurn and respondToCombat: an intent carries the     *)
(* revision of the game it was chosen on.                                    *)
Intent == [Sent("intent", RoomAsked) EXCEPT !.based = app.game.rev]

(* initializeGame of the host, resolveCheck of a character's owner, intents. *)
StartGameCall ==
    /\ Shown /\ ~ gameBusy
    /\ \/ HostView /\ app.game = NoSnapshot /\ ~ busy /\ gameCall' = Sent("initialize", RoomAsked)
       \/ app.game # NoSnapshot /\ gameCall' = Sent("check", RoomAsked)
       \/ app.game # NoSnapshot /\ gameCall' = Intent
    /\ chooseAgain' = 0
    /\ GameUnchanged

GameAnswered(rev) == gameCall' = [gameCall EXCEPT !.at = "answered", !.ans = rev]

ServeGameCall ==
    LET r == gameCall.room
        Commits == ChangeGame(r) /\ GameAnswered(srv[r].game + 1)
        Declines(ans) == GameAnswered(ans) /\ UNCHANGED <<srv, hub>>
    IN  /\ gameCall.at = "sent"
        /\ \/ ~ Valid(r) /\ Declines(Refused)
           \/ Valid(r) /\ gameCall.op = "initialize" /\ srv[r].game = 0 /\ Commits
           \/ Valid(r) /\ gameCall.op = "check" /\ Commits
           \/ /\ Valid(r) /\ gameCall.op = "intent"
              /\ IF gameCall.based = srv[r].game THEN Commits ELSE Declines(Conflict)
           \/ Valid(r) /\ gameCall.op = "refresh" /\ Declines(srv[r].game)
        /\ UNCHANGED <<app, call, panelCall, chooseAgain>>

FaultyContinueGameCall ==
    /\ gameCall.at = "answered"
    /\ gameCall' = Idle
    /\ app' = IF gameCall.ans \in Answers THEN app
              ELSE acceptGameSnapshot(app, Snapshot(gameCall.room, gameCall.ans))
    /\ chooseAgain' = IF gameCall.ans = Conflict THEN gameCall.based ELSE chooseAgain
    /\ UNCHANGED <<srv, hub, call, panelCall>>

(* A refused intent is not sent again: the game is fetched and the player    *)
(* asked to choose again.                                                    *)
ContinueGameCall ==
    /\ gameCall.at = "answered"
    /\ IF gameCall.op = "intent" /\ gameCall.ans = Conflict
       THEN /\ gameCall' = [gameCall EXCEPT !.op = "refresh", !.at = "sent", !.ans = Missing]
            /\ UNCHANGED <<app, chooseAgain>>
       ELSE /\ gameCall' = Idle
            /\ app' = IF gameCall.ans \in Answers THEN app
                      ELSE acceptGameSnapshot(app, Snapshot(gameCall.room, gameCall.ans))
            /\ chooseAgain' = IF gameCall.op = "refresh" /\ gameCall.ans \notin Answers
                              THEN gameCall.based ELSE chooseAgain
    /\ UNCHANGED <<srv, hub, call, panelCall>>

GameCallFails ==
    /\ gameBusy
    /\ gameCall' = Idle
    /\ UNCHANGED chooseAgain /\ GameUnchanged

-----------------------------------------------------------------------------
(* The host's AI panel: a change, then the room read anew and shown.         *)

StartPanelCall ==
    /\ HostView /\ panelCall = Idle
    /\ panelCall' = Sent("configure", RoomAsked)
    /\ UNCHANGED <<srv, hub, app, call, gameCall, chooseAgain>>

ServePanelCall ==
    LET r == panelCall.room
        PanelAnswered(rev) == panelCall' = [panelCall EXCEPT !.at = "answered", !.ans = rev]
    IN  /\ panelCall.at = "sent"
        /\ \/ ~ Valid(r) /\ PanelAnswered(Refused) /\ UNCHANGED <<srv, hub>>
           \/ Valid(r) /\ panelCall.op = "configure" /\ ChangeRoom(r) /\ PanelAnswered(Missing)
           \/ Valid(r) /\ PanelAnswered(srv[r].rev) /\ UNCHANGED <<srv, hub>>
        /\ UNCHANGED <<app, call, gameCall, chooseAgain>>

ContinuePanelCall ==
    /\ panelCall.at = "answered"
    /\ \/ panelCall.ans = Refused /\ panelCall' = Idle /\ app' = app
       \/ /\ panelCall.ans # Refused /\ panelCall.op = "configure"
          /\ panelCall' = Sent("getSnapshot", panelCall.room) /\ app' = app
       \/ /\ panelCall.ans # Refused /\ panelCall.op = "getSnapshot"
          /\ panelCall' = Idle
          /\ app' = ShowRoom(app, Snapshot(panelCall.room, panelCall.ans))
    /\ UNCHANGED <<srv, hub, call, gameCall, chooseAgain>>

PanelCallFails ==
    /\ panelCall # Idle
    /\ panelCall' = Idle
    /\ UNCHANGED <<srv, hub, app, call, gameCall, chooseAgain>>

-----------------------------------------------------------------------------
TableActs ==
    /\ \E r \in Rooms : SomebodyActs(r)
    /\ UNCHANGED app /\ UNCHANGED call /\ LobbyUnchanged

Attach(c) ==
    /\ ServeAttach(c) \/ WriteAttachResult(c)
    /\ UNCHANGED app /\ UNCHANGED call /\ LobbyUnchanged

(* The server is started again: its rooms, sessions and connections are gone. *)
ServerRestarts ==
    /\ \E r \in Rooms : srv[r].open
    /\ srv' = [r \in Rooms |-> [NewRoom EXCEPT !.used = srv[r].used, !.host = srv[r].host]]
    /\ hub' = [c \in Links |-> IF hub[c].phase = "up"
                              THEN Dropped(hub[c]) ELSE hub[c]]
    /\ call' = IF \E c \in Links : hub[c].starting /\ hub[c].phase = "up" THEN Idle ELSE call
    /\ UNCHANGED app /\ LobbyUnchanged

Next ==
    \/ Reload
    \/ \E op \in {"create", "join"} : Enter(op)
    \/ \E op \in {"ready", "leave"} : Ask(op)
    \/ ServeEnter \/ ServeCall \/ Continue \/ CallFails
    \/ StartGameCall \/ ServeGameCall \/ ContinueGameCall \/ GameCallFails
    \/ StartPanelCall \/ ServePanelCall \/ ContinuePanelCall \/ PanelCallFails
    \/ \E c \in Links : Started(c) \/ Lost(c) \/ Reconnected(c) \/ Stopped(c)
                         \/ Deliver(c) \/ Attach(c)
    \/ TableActs \/ ServerRestarts

Spec == Init /\ [][Next]_vars

(* What the browser and the network owe the tab: a request that stays under  *)
(* way is answered, the code after an await runs, a transport starts, stops  *)
(* and hands over what it holds.  Nobody owes it a click, a push or luck.    *)
Progress ==
    /\ WF_vars(ServeEnter) /\ WF_vars(ServeCall) /\ WF_vars(Continue)
    /\ \A c \in Links : /\ WF_vars(Started(c)) /\ WF_vars(Stopped(c))
                        /\ WF_vars(Deliver(c)) /\ WF_vars(Attach(c))

LiveSpec == Spec /\ Progress
=============================================================================
