------------------------------ MODULE ClientProofs ------------------------------
(* The client's safety properties, for every number of rooms, revisions and  *)
(* connection objects.  Types are proved first; then that what is shown, the *)
(* session and the connection belong together; then that no revision runs    *)
(* ahead of the server and the last one is on its way to an attached client; *)
(* then that a refused choice is overtaken.                                  *)
EXTENDS ClientProperties, TLAPS

-----------------------------------------------------------------------------
(* Types *)

RoomRevisions == 1..MaxRoomRevision
GameRevisions == 1..MaxGameRevision

RoomStates == [open : BOOLEAN, used : BOOLEAN, member : BOOLEAN, host : BOOLEAN,
               rev : 0..MaxRoomRevision, game : 0..MaxGameRevision]

(* A room that is open has been entered and has a revision; a room that was  *)
(* never entered has no game.                                                *)
Srvs == {s \in [Rooms -> RoomStates] :
           \A r \in Rooms : /\ s[r].open => s[r].used /\ s[r].rev > 0
                            /\ ~ s[r].used => s[r].game = 0}

Letters == [kind : {"room", "closed"}, id : Rooms, rev : RoomRevisions]
             \cup [kind : {"game"}, id : Rooms, rev : GameRevisions]
             \cup [kind : {"attached"}, id : Rooms, rev : {Refused} \cup RoomRevisions]

LinkStates ==
  [session : Rooms \cup {None}, phase : {"closed", "starting", "up", "lost", "stopping"},
   held : BOOLEAN, asked : {"no", "sent", "served"}, attached : BOOLEAN,
   due : {Missing, Refused} \cup RoomRevisions, inbox : Seq(Letters),
   waiter : {None, "closed", "leave"}, starting : BOOLEAN]

(* A connection that was started, or is held, serves a session.              *)
Serving(h) == h.session = None => h.phase = "closed" /\ ~ h.held

Hubs == {h \in [Links -> LinkStates] : \A c \in Links : Serving(h[c])}

RoomSnapshots == [id : Rooms, rev : RoomRevisions] \cup {NoSnapshot}
GameSnapshots == [id : Rooms, rev : GameRevisions] \cup {NoSnapshot}

Apps == [session : Rooms \cup {None}, stored : Rooms \cup {None}, room : RoomSnapshots,
         game : GameSnapshots, link : Links \cup {None}]

(* What the answer of each request may be, when its handler goes on.         *)
Calls ==
  {x \in [op : {"none", "create", "join", "restore", "restoreGame", "ready", "leave"},
          at : {"none", "sent", "answered", "starting", "stopping"},
          room : Rooms \cup {None}, based : {0},
          ans : Answers \cup RoomRevisions \cup GameRevisions] :
     x.at = "answered" =>
       /\ x.op \in {"create", "join"} => x.room \in Rooms /\ x.ans = 1
       /\ x.op \in {"restore", "ready"} =>
            x.ans = Refused \/ (x.room \in Rooms /\ x.ans \in RoomRevisions)
       /\ x.op = "restoreGame" =>
            x.ans = Refused \/ (x.room \in Rooms /\ x.ans \in {Missing} \cup GameRevisions)}

GameCalls ==
  {x \in [op : {"none", "initialize", "check", "intent", "refresh"},
          at : {"none", "sent", "answered"}, room : Rooms \cup {None},
          based : 0..MaxGameRevision, ans : Answers \cup GameRevisions] :
     x.ans \notin Answers => x.room \in Rooms}

PanelCalls ==
  {x \in [op : {"none", "configure", "getSnapshot"}, at : {"none", "sent", "answered"},
          room : Rooms \cup {None}, based : {0}, ans : {Missing, Refused} \cup RoomRevisions] :
     x.at = "answered" /\ x.op = "getSnapshot" =>
       x.ans = Refused \/ (x.room \in Rooms /\ x.ans \in RoomRevisions)}

Types ==
  /\ srv \in Srvs /\ hub \in Hubs /\ app \in Apps
  /\ call \in Calls /\ gameCall \in GameCalls /\ panelCall \in PanelCalls
  /\ chooseAgain \in 0..MaxGameRevision

LEMMA RevisionTypes ==
  /\ 1 \in RoomRevisions /\ 0 \notin RoomRevisions /\ 0 \notin GameRevisions
  /\ \A rev \in RoomRevisions \cup GameRevisions : rev \in Nat \ {0} /\ rev \notin Answers
  /\ RoomRevisions \subseteq 0..MaxRoomRevision /\ GameRevisions \subseteq 0..MaxGameRevision
  /\ 0 \in 0..MaxGameRevision
  BY RevisionAssumption DEF RoomRevisions, GameRevisions, Answers, Missing, Refused, Conflict

LEMMA LetterTypes ==
  ASSUME NEW m \in Letters
  PROVE  /\ m.kind \in {"room", "game", "attached", "closed"} /\ m.id \in Rooms
         /\ m.kind = "room" => m.rev \in RoomRevisions
         /\ m.kind = "game" => m.rev \in GameRevisions
         /\ m.kind = "attached" /\ m.rev # Refused => m.rev \in RoomRevisions
         /\ m.rev \in Revisions \cup {Refused}
         /\ m = [kind |-> m.kind, id |-> m.id, rev |-> m.rev]
  BY DEF Letters, Revisions, RoomRevisions, GameRevisions

LEMMA NewsType ==
  ASSUME NEW r \in Rooms
  PROVE  /\ \A rev \in RoomRevisions : News("room", r, rev) \in Letters
         /\ \A rev \in RoomRevisions : News("closed", r, rev) \in Letters
         /\ \A rev \in GameRevisions : News("game", r, rev) \in Letters
         /\ \A rev \in {Refused} \cup RoomRevisions : News("attached", r, rev) \in Letters
  BY DEF News, Letters

LEMMA NoLinkType == NoLink \in LinkStates /\ Serving(NoLink)
  BY DEF NoLink, LinkStates, Serving

(* One connection changes.                                                   *)
LEMMA OneLink ==
  ASSUME NEW h \in Hubs, NEW c \in Links, NEW new \in LinkStates, Serving(new)
  PROVE  [h EXCEPT ![c] = new] \in Hubs
  BY DEF Hubs

LEMMA PushedType ==
  ASSUME NEW h \in Hubs, NEW r, NEW news \in Letters
  PROVE  Pushed(h, r, news) \in Hubs
<1>1. ASSUME NEW c \in Links PROVE [h[c] EXCEPT !.inbox = Append(@, news)] \in LinkStates
  <2>1. h[c] \in LinkStates
    BY DEF Hubs
  <2>2. Append(h[c].inbox, news) \in Seq(Letters)
    BY <2>1 DEF LinkStates
  <2> QED
    BY <2>1, <2>2 DEF LinkStates
<1>2. ASSUME NEW c \in Links
      PROVE  /\ Pushed(h, r, news)[c] \in LinkStates
             /\ Pushed(h, r, news)[c].session = h[c].session
             /\ Pushed(h, r, news)[c].phase = h[c].phase
             /\ Pushed(h, r, news)[c].held = h[c].held
  <2>1. h[c] \in LinkStates
    BY DEF Hubs
  <2> QED
    BY <1>1, <2>1 DEF Pushed, LinkStates
<1>3. Pushed(h, r, news) \in [Links -> LinkStates]
  BY <1>2 DEF Pushed
<1> QED
  BY <1>2, <1>3 DEF Hubs, Serving

LEMMA DetachedType ==
  ASSUME NEW h \in Hubs, NEW r
  PROVE  Detached(h, r) \in Hubs
<1>1. ASSUME NEW c \in Links
      PROVE  /\ Detached(h, r)[c] \in LinkStates
             /\ Detached(h, r)[c].session = h[c].session
             /\ Detached(h, r)[c].phase = h[c].phase
             /\ Detached(h, r)[c].held = h[c].held
  <2>1. h[c] \in LinkStates
    BY DEF Hubs
  <2> QED
    BY <2>1 DEF Detached, LinkStates
<1>2. Detached(h, r) \in [Links -> LinkStates]
  BY <1>1 DEF Detached
<1> QED
  BY <1>1, <1>2 DEF Hubs, Serving

-----------------------------------------------------------------------------
(* The server's steps *)

LEMMA ValidRoom ==
  ASSUME Types, NEW r \in Rooms \cup {None}, Valid(r)
  PROVE  r \in Rooms /\ srv[r].rev \in RoomRevisions /\ srv[r].open /\ srv[r].used
<1>1. r \in Rooms /\ srv[r] \in RoomStates /\ srv[r].open /\ srv[r].used /\ srv[r].rev > 0
  BY DEF Valid, Types, Srvs
<1> QED
  BY <1>1, RevisionAssumption DEF RoomStates, RoomRevisions

LEMMA ChangeRoomTypes ==
  ASSUME Types, NEW r \in Rooms, ChangeRoom(r)
  PROVE  srv' \in Srvs /\ hub' \in Hubs /\ srv[r].rev + 1 \in RoomRevisions
<1>1. srv[r] \in RoomStates /\ srv \in [Rooms -> RoomStates]
  BY DEF Types, Srvs
<1>2. srv[r].rev + 1 \in RoomRevisions
  BY <1>1, RevisionAssumption DEF ChangeRoom, RoomStates, RoomRevisions
<1>3. srv' = [srv EXCEPT ![r] = [@ EXCEPT !.rev = srv[r].rev + 1]]
  BY <1>1 DEF ChangeRoom
<1>4. srv' \in Srvs
  BY <1>1, <1>2, <1>3, RevisionTypes DEF Types, Srvs, RoomStates
<1>5. hub' \in Hubs
  BY <1>2, NewsType, PushedType DEF ChangeRoom, Types
<1> QED
  BY <1>2, <1>4, <1>5

LEMMA ChangeGameTypes ==
  ASSUME Types, NEW r \in Rooms, srv[r].used, ChangeGame(r)
  PROVE  srv' \in Srvs /\ hub' \in Hubs /\ srv[r].game + 1 \in GameRevisions
<1>1. srv[r] \in RoomStates /\ srv \in [Rooms -> RoomStates]
  BY DEF Types, Srvs
<1>2. srv[r].game + 1 \in GameRevisions
  BY <1>1, RevisionAssumption DEF ChangeGame, RoomStates, GameRevisions
<1>3. srv' = [srv EXCEPT ![r] = [@ EXCEPT !.game = srv[r].game + 1]]
  BY <1>1 DEF ChangeGame
<1>4. srv' \in Srvs
  BY <1>1, <1>2, <1>3, RevisionTypes DEF Types, Srvs, RoomStates
<1>5. hub' \in Hubs
  BY <1>2, NewsType, PushedType DEF ChangeGame, Types
<1> QED
  BY <1>2, <1>4, <1>5

LEMMA CloseRoomTypes ==
  ASSUME Types, NEW r \in Rooms, Valid(r), CloseRoom(r)
  PROVE  srv' \in Srvs /\ hub' \in Hubs
<1>1. srv[r] \in RoomStates /\ srv \in [Rooms -> RoomStates]
  BY DEF Types, Srvs
<1>2. srv' = [srv EXCEPT ![r] = [@ EXCEPT !.open = FALSE, !.member = FALSE]]
  BY <1>1 DEF CloseRoom
<1>3. srv' \in Srvs
  BY <1>1, <1>2 DEF Types, Srvs, RoomStates
<1>4. News("closed", r, srv[r].rev) \in Letters
  BY ValidRoom, NewsType
<1>5. hub' \in Hubs
  BY <1>4, PushedType, DetachedType DEF CloseRoom, Types
<1> QED
  BY <1>3, <1>5

LEMMA LoseMemberTypes ==
  ASSUME Types, NEW r \in Rooms, LoseMember(r)
  PROVE  srv' \in Srvs /\ hub' \in Hubs
<1>1. srv[r] \in RoomStates /\ srv \in [Rooms -> RoomStates]
  BY DEF Types, Srvs
<1>2. srv' = [srv EXCEPT ![r] = [@ EXCEPT !.member = FALSE]]
  BY <1>1 DEF LoseMember
<1>3. srv' \in Srvs
  BY <1>1, <1>2 DEF Types, Srvs, RoomStates
<1> QED
  BY <1>3, DetachedType DEF LoseMember, Types

LEMMA RegisteredType ==
  ASSUME Types, NEW c \in Links
  PROVE  Registered(c) \in Hubs
<1> DEFINE new == [hub[c] EXCEPT !.attached = TRUE]
<1>1. hub[c] \in LinkStates /\ Serving(hub[c])
  BY DEF Types, Hubs
<1>2. new \in LinkStates /\ Serving(new)
  BY <1>1 DEF LinkStates, Serving
<1>3. Registered(c) = [hub EXCEPT ![c] = new]
  BY DEF Registered, Types, Hubs
<1> HIDE DEF new
<1> QED
  BY <1>2, <1>3, OneLink DEF Types

LEMMA GreetedType ==
  ASSUME Types, NEW h \in Hubs, NEW c \in Links, NEW r \in Rooms, NEW rev \in RoomRevisions
  PROVE  Greeted(h, c, r, rev) \in Hubs
<1> DEFINE note == News("game", r, srv[r].game)
           box == IF srv[r].game > 0 THEN Append(h[c].inbox, note) ELSE h[c].inbox
           new == [h[c] EXCEPT !.due = rev, !.asked = "served", !.inbox = box]
<1>1. h[c] \in LinkStates /\ Serving(h[c])
  BY DEF Hubs
<1>2. box \in Seq(Letters)
  <2>1. srv[r].game \in 0..MaxGameRevision
    BY DEF Types, Srvs, RoomStates
  <2>2. srv[r].game > 0 => note \in Letters
    BY <2>1, NewsType, RevisionAssumption DEF GameRevisions
  <2>3. h[c].inbox \in Seq(Letters)
    BY <1>1 DEF LinkStates
  <2> QED
    BY <2>2, <2>3
<1>3. Greeted(h, c, r, rev) = [h EXCEPT ![c] = new]
  BY DEF Greeted, Hubs
<1> HIDE DEF box
<1>4. new \in LinkStates /\ Serving(new)
  BY <1>1, <1>2 DEF LinkStates, Serving
<1> HIDE DEF new
<1> QED
  BY <1>3, <1>4, OneLink

LEMMA AttachTypes ==
  ASSUME Types, NEW c \in Links, Attach(c)
  PROVE  srv' \in Srvs /\ hub' \in Hubs
<1> DEFINE r == hub[c].session
<1>1. hub \in Hubs /\ hub \in [Links -> LinkStates] /\ hub[c] \in LinkStates /\ Serving(hub[c])
  BY DEF Types, Hubs
<1>2. r \in Rooms \cup {None}
  BY <1>1 DEF LinkStates
<1>6. ASSUME ServeAttach(c) PROVE srv' \in Srvs /\ hub' \in Hubs
  <2>1. CASE Valid(r) /\ srv[r].rev < MaxRoomRevision /\ srv' = [srv EXCEPT ![r].rev = @ + 1]
             /\ hub' = Greeted(Pushed(Registered(c), r, News("room", r, srv[r].rev + 1)),
                               c, r, srv[r].rev + 1)
    <3>1. r \in Rooms /\ srv[r] \in RoomStates /\ srv \in [Rooms -> RoomStates]
      BY <1>2, <2>1, ValidRoom DEF Types, Srvs
    <3>2. srv[r].rev + 1 \in RoomRevisions
      BY <2>1, <3>1, RevisionAssumption DEF RoomStates, RoomRevisions
    <3>3. srv' \in Srvs
      <4>1. srv' = [srv EXCEPT ![r] = [@ EXCEPT !.rev = srv[r].rev + 1]]
        BY <2>1, <3>1
      <4> QED
        BY <3>1, <3>2, <4>1, RevisionTypes DEF Types, Srvs, RoomStates
    <3>4. Pushed(Registered(c), r, News("room", r, srv[r].rev + 1)) \in Hubs
      BY <3>1, <3>2, NewsType, PushedType, RegisteredType
    <3> QED
      BY <2>1, <3>1, <3>2, <3>3, <3>4, GreetedType
  <2>2. CASE Valid(r) /\ srv' = srv /\ hub' = Greeted(Registered(c), c, r, srv[r].rev)
    <3>1. r \in Rooms /\ srv[r].rev \in RoomRevisions
      BY <1>2, <2>2, ValidRoom
    <3> QED
      BY <2>2, <3>1, RegisteredType, GreetedType DEF Types
  <2>3. CASE srv' = srv /\ hub' = [hub EXCEPT ![c].due = Refused, ![c].asked = "served"]
    <3> DEFINE new == [hub[c] EXCEPT !.due = Refused, !.asked = "served"]
    <3>1. new \in LinkStates /\ Serving(new)
      BY <1>1 DEF LinkStates, Serving
    <3>2. hub' = [hub EXCEPT ![c] = new]
      BY <1>1, <2>3
    <3> HIDE DEF new
    <3>3. hub' \in Hubs
      BY <1>1, <3>1, <3>2, OneLink
    <3> QED
      BY <2>3, <3>3 DEF Types
  <2> QED
    BY <1>6, <2>1, <2>2, <2>3 DEF ServeAttach
<1>7. ASSUME WriteAttachResult(c) PROVE srv' \in Srvs /\ hub' \in Hubs
  <2> DEFINE box == Append(hub[c].inbox, News("attached", r, hub[c].due))
             new == [hub[c] EXCEPT !.due = Missing, !.inbox = box]
  <2>1. r \in Rooms /\ hub[c].due \in {Refused} \cup RoomRevisions
    BY <1>1, <1>7 DEF WriteAttachResult, Serving, LinkStates
  <2>2. box \in Seq(Letters)
    BY <1>1, <2>1, NewsType DEF LinkStates
  <2> HIDE DEF box
  <2>3. new \in LinkStates /\ Serving(new)
    BY <1>1, <2>2 DEF LinkStates, Serving
  <2>4. hub' = [hub EXCEPT ![c] = new] /\ srv' = srv
    BY <1>7 DEF WriteAttachResult, box
  <2> QED
    BY <1>1, <2>3, <2>4, OneLink DEF Types
<1> QED
  BY <1>6, <1>7 DEF Attach

-----------------------------------------------------------------------------
(* What the handlers set *)

LEMMA IdleType == Idle \in Calls /\ Idle \in GameCalls /\ Idle \in PanelCalls
  BY RevisionTypes DEF Idle, Calls, GameCalls, PanelCalls, Answers

LEMMA BlankType == Blank \in Apps
  BY DEF Blank, Apps, RoomSnapshots, GameSnapshots

LEMMA ShowRoomType ==
  ASSUME NEW a \in Apps, NEW r \in Rooms, NEW rev \in RoomRevisions
  PROVE  ShowRoom(a, Snapshot(r, rev)) \in Apps
<1>1. Snapshot(r, rev) \in RoomSnapshots
  BY DEF Snapshot, RoomSnapshots
<1> QED
  BY <1>1 DEF ShowRoom, Apps

LEMMA AcceptType ==
  ASSUME NEW a \in Apps, NEW r \in Rooms, NEW rev \in GameRevisions
  PROVE  acceptGameSnapshot(a, Snapshot(r, rev)) \in Apps
<1>1. Snapshot(r, rev) \in GameSnapshots
  BY DEF Snapshot, GameSnapshots
<1> QED
  BY <1>1 DEF acceptGameSnapshot, Apps

LEMMA StartRealtimeTypes ==
  ASSUME Types, NEW a \in Apps, NEW r \in Rooms, startRealtime(a, r)
  PROVE  hub' \in Hubs /\ app' \in Apps /\ call' \in Calls
<1> DEFINE new == [NoLink EXCEPT !.session = r, !.phase = "starting", !.held = TRUE, !.starting = TRUE]
<1>1. PICK c \in Links : /\ hub' = [hub EXCEPT ![c] = new]
                         /\ app' = [a EXCEPT !.link = c]
                         /\ call' = [call EXCEPT !.at = "starting", !.room = r]
  BY DEF startRealtime
<1>2. new \in LinkStates /\ Serving(new)
  BY NoLinkType, NoneAssumption DEF LinkStates, Serving
<1> HIDE DEF new
<1>3. hub' \in Hubs
  BY <1>1, <1>2, OneLink DEF Types
<1>4. app' \in Apps
  BY <1>1 DEF Apps
<1>5. call' \in Calls
  BY <1>1 DEF Types, Calls
<1> QED
  BY <1>3, <1>4, <1>5

LEMMA LobbyTypes ==
  ASSUME Types, LobbyStays \/ LobbyUnchanged
  PROVE  gameCall' \in GameCalls /\ panelCall' \in PanelCalls /\ chooseAgain' \in 0..MaxGameRevision
  BY IdleType, RevisionTypes DEF Types, LobbyStays, LobbyUnchanged, Unmount

LEMMA DroppedType ==
  ASSUME NEW h \in LinkStates, h.session \in Rooms
  PROVE  Dropped(h) \in LinkStates /\ Serving(Dropped(h)) /\ Dropped(h).session = h.session
<1>1. << >> \in Seq(Letters)
  OBVIOUS
<1> QED
  BY <1>1, NoneAssumption DEF Dropped, LinkStates, Serving

LEMMA StoppingType ==
  ASSUME NEW h \in Hubs, app.link \in Links, h[app.link].session \in Rooms,
         NEW waiter \in {"closed", "leave"}
  PROVE  Stopping(h, waiter) \in Hubs
<1> DEFINE new == [h[app.link] EXCEPT !.phase = "stopping", !.held = FALSE, !.waiter = waiter]
<1>1. h[app.link] \in LinkStates
  BY DEF Hubs
<1>2. new \in LinkStates /\ Serving(new)
  BY <1>1, NoneAssumption DEF LinkStates, Serving
<1>3. Stopping(h, waiter) = [h EXCEPT ![app.link] = new]
  BY <1>1 DEF Stopping, Hubs
<1> HIDE DEF new
<1> QED
  BY <1>2, <1>3, OneLink

LEMMA SentType ==
  ASSUME NEW r \in Rooms \cup {None}
  PROVE  /\ \A op \in {"create", "join", "restore", "restoreGame", "ready", "leave"} :
              Sent(op, r) \in Calls
         /\ \A op \in {"initialize", "check", "intent"} : Sent(op, r) \in GameCalls
         /\ \A op \in {"configure", "getSnapshot"} : Sent(op, r) \in PanelCalls
  BY RevisionTypes DEF Sent, Idle, Calls, GameCalls, PanelCalls, Answers

LEMMA RoomAskedType ==
  ASSUME Types
  PROVE  RoomAsked \in Rooms \cup {None}
  BY DEF Types, Apps, RoomAsked

-----------------------------------------------------------------------------
(* Every action keeps the types. *)

LEMMA InitTypes == ASSUME Init PROVE Types
<1>1. srv \in Srvs
  BY RevisionAssumption DEF Init, Srvs, RoomStates, NewRoom
<1>2. hub \in Hubs
  BY NoLinkType DEF Init, Hubs
<1> QED
  BY <1>1, <1>2, BlankType, IdleType, RevisionTypes DEF Init, Types

LEMMA ReloadTypes == ASSUME Types, Reload PROVE Types'
<1>1. hub' \in Hubs
  BY NoLinkType DEF Reload, Hubs
<1>2. app' \in Apps /\ app.stored \in Rooms \cup {None}
  BY DEF Reload, Types, Apps, Blank, RoomSnapshots, GameSnapshots
<1>3. call' \in Calls
  BY <1>2, SentType, IdleType DEF Reload
<1> QED
  BY <1>1, <1>2, <1>3, LobbyTypes DEF Reload, Types

LEMMA EnterTypes == ASSUME Types, NEW op \in {"create", "join"}, Enter(op) PROVE Types'
<1>1. app' \in Apps
  BY DEF Enter, Types, Apps, GameSnapshots
<1>2. call' \in Calls
  BY SentType DEF Enter
<1> QED
  BY <1>1, <1>2, LobbyTypes DEF Enter, Types

LEMMA AskTypes == ASSUME Types, NEW op \in {"ready", "leave"}, Ask(op) PROVE Types'
<1>1. call' \in Calls
  BY SentType, RoomAskedType DEF Ask
<1> QED
  BY <1>1, LobbyTypes DEF Ask, Types

LEMMA ServeEnterTypes == ASSUME Types, ServeEnter PROVE Types'
<1>1. PICK r \in Rooms :
        /\ srv' = [srv EXCEPT ![r] = [open |-> TRUE, used |-> TRUE, member |-> TRUE,
                                      host |-> call.op = "create", rev |-> 1, game |-> 0]]
        /\ call' = [call EXCEPT !.at = "answered", !.room = r, !.ans = 1]
  BY DEF ServeEnter
<1>2. srv' \in Srvs
  BY <1>1, RevisionAssumption DEF Types, Srvs, RoomStates
<1>3. call' \in Calls
  BY <1>1, RevisionTypes DEF ServeEnter, Types, Calls
<1> QED
  BY <1>2, <1>3, LobbyTypes DEF ServeEnter, Types

LEMMA ServeCallTypes == ASSUME Types, ServeCall PROVE Types'
<1> DEFINE r == call.room
<1>1. call \in Calls /\ r \in Rooms \cup {None} /\ call.at = "sent"
       /\ call.op \in {"none", "restore", "restoreGame", "ready", "leave"}
  BY DEF ServeCall, Types, Calls
<1>2. ASSUME NEW ans \in Answers \cup RoomRevisions \cup GameRevisions, Answered(ans),
             call.op \in {"restore", "ready"} => ans = Refused \/ (r \in Rooms /\ ans \in RoomRevisions),
             call.op = "restoreGame" =>
               ans = Refused \/ (r \in Rooms /\ ans \in {Missing} \cup GameRevisions)
      PROVE  call' \in Calls
  BY <1>1, <1>2 DEF Answered, Calls
<1>3. CASE Answered(Refused) /\ UNCHANGED <<srv, hub>>
  BY <1>2, <1>3, LobbyTypes DEF Types, ServeCall, Answers
<1>4. CASE Valid(r)
  <2>1. r \in Rooms /\ srv[r].rev \in RoomRevisions
    BY <1>1, <1>4, ValidRoom
  <2>2. srv[r].game \in {Missing} \cup GameRevisions
    <3>1. srv[r].game \in 0..MaxGameRevision
      BY <2>1 DEF Types, Srvs, RoomStates
    <3> QED
      BY <3>1, RevisionAssumption DEF Missing, GameRevisions
  <2>3. CASE call.op = "restore" /\ Answered(srv[r].rev) /\ UNCHANGED <<srv, hub>>
    BY <1>2, <2>1, <2>3, LobbyTypes DEF Types, ServeCall
  <2>4. CASE call.op = "restoreGame" /\ Answered(srv[r].game) /\ UNCHANGED <<srv, hub>>
    BY <1>2, <2>1, <2>2, <2>4, LobbyTypes DEF Types, ServeCall, Answers
  <2>5. CASE call.op = "ready" /\ ChangeRoom(r) /\ Answered(srv[r].rev + 1)
    BY <1>2, <2>1, <2>5, ChangeRoomTypes, LobbyTypes DEF Types, ServeCall
  <2>6. CASE call.op = "ready" /\ Answered(srv[r].rev) /\ UNCHANGED <<srv, hub>>
    BY <1>2, <2>1, <2>6, LobbyTypes DEF Types, ServeCall
  <2>7. CASE call.op = "leave" /\ CloseRoom(r) /\ Answered(srv[r].rev)
    BY <1>2, <1>4, <2>1, <2>7, CloseRoomTypes, LobbyTypes DEF Types, ServeCall
  <2>8. CASE call.op = "leave" /\ LoseMember(r) /\ Answered(srv[r].rev)
    BY <1>2, <2>1, <2>8, LoseMemberTypes, LobbyTypes DEF Types, ServeCall
  <2>9. CASE call.op = "leave" /\ Answered(Conflict) /\ UNCHANGED <<srv, hub>>
    BY <1>2, <2>9, LobbyTypes DEF Types, ServeCall, Answers
  <2> QED
    BY <1>4, <2>3, <2>4, <2>5, <2>6, <2>7, <2>8, <2>9 DEF ServeCall
<1> QED
  BY <1>3, <1>4 DEF ServeCall

LEMMA ContinueTypes == ASSUME Types, Continue PROVE Types'
<1>0. /\ srv \in Srvs /\ hub \in Hubs /\ app \in Apps /\ call \in Calls /\ srv' = srv
      /\ LobbyStays
  BY DEF Types, Continue
<1>1. ASSUME hub' \in Hubs, app' \in Apps, call' \in Calls PROVE Types'
  BY <1>0, <1>1, LobbyTypes DEF Types
<1>2. CASE Entered
  <2>1. call.room \in Rooms /\ call.ans \in RoomRevisions
    BY <1>0, <1>2, RevisionTypes DEF Entered, Calls
  <2>2. SaveSession(app, call.room) \in Apps
    BY <1>0, <2>1 DEF SaveSession, Apps
  <2>3. ShowRoom(SaveSession(app, call.room), Snapshot(call.room, call.ans)) \in Apps
    BY <2>1, <2>2, ShowRoomType
  <2> QED
    BY <1>1, <1>2, <2>1, <2>3, StartRealtimeTypes DEF Entered
<1>3. CASE Restored
  <2>1. CASE call.ans = Refused
    BY <1>0, <1>1, <1>3, <2>1, BlankType, IdleType DEF Restored
  <2>2. CASE call.ans # Refused
    <3>1. call.room \in Rooms /\ call.ans \in RoomRevisions
      BY <1>0, <1>3, <2>2 DEF Restored, Calls
    <3> QED
      BY <1>0, <1>1, <1>3, <2>2, <3>1, ShowRoomType, SentType DEF Restored
  <2> QED
    BY <2>1, <2>2
<1>4. CASE RestoredGame
  <2>1. CASE call.ans = Refused
    <3>1. app' \in Apps
      BY <1>0, <1>4, <2>1 DEF RestoredGame, Apps
    <3> QED
      BY <1>0, <1>1, <1>4, <2>1, <3>1, IdleType DEF RestoredGame
  <2>2. CASE call.ans # Refused
    <3>1. call.room \in Rooms /\ call.ans \in {Missing} \cup GameRevisions
      BY <1>0, <1>4, <2>2 DEF RestoredGame, Calls
    <3>2. (IF call.ans = Missing THEN app
           ELSE acceptGameSnapshot(app, Snapshot(call.room, call.ans))) \in Apps
      BY <1>0, <3>1, AcceptType
    <3> QED
      BY <1>1, <1>4, <2>2, <3>1, <3>2, StartRealtimeTypes DEF RestoredGame
  <2> QED
    BY <2>1, <2>2
<1>5. CASE ReadySet
  <2>1. call.ans # Refused => call.room \in Rooms /\ call.ans \in RoomRevisions
    BY <1>0, <1>5 DEF ReadySet, Calls
  <2> QED
    BY <1>0, <1>1, <1>5, <2>1, ShowRoomType, IdleType DEF ReadySet
<1>6. CASE HasLeft
  <2>1. CASE MustStop /\ hub' = Stopping(hub, "leave") /\ app' = app
             /\ call' = [call EXCEPT !.at = "stopping"]
    <3>1. call' \in Calls
      BY <1>0, <2>1 DEF Calls
    <3>2. app.link \in Links /\ hub[app.link] \in LinkStates
      BY <1>0, <2>1 DEF MustStop, Apps, Hubs
    <3>3. hub[app.link].session \in Rooms
      BY <1>0, <2>1, <3>2 DEF MustStop, Hubs, Serving, LinkStates
    <3>4. hub' \in Hubs
      BY <1>0, <2>1, <3>2, <3>3, StoppingType
    <3> QED
      BY <1>0, <1>1, <2>1, <3>1, <3>4
  <2> QED
    BY <1>0, <1>1, <1>6, <2>1, BlankType, IdleType DEF HasLeft, GoHome
<1> QED
  BY <1>2, <1>3, <1>4, <1>5, <1>6 DEF Continue

LEMMA CallFailsTypes == ASSUME Types, CallFails PROVE Types'
  BY IdleType, LobbyTypes DEF CallFails, Types

LEMMA StartGameCallTypes == ASSUME Types, StartGameCall PROVE Types'
<1>1. RoomAsked \in Rooms \cup {None} /\ app.game.rev \in 0..MaxGameRevision
  <2>1. app.game \in GameSnapshots
    BY DEF Types, Apps
  <2>2. app.game.rev \in {0} \cup GameRevisions
    BY <2>1 DEF GameSnapshots, NoSnapshot
  <2> QED
    BY <2>2, RoomAskedType, RevisionTypes
<1>2. Intent \in GameCalls
  BY <1>1, RevisionTypes DEF Intent, Sent, Idle, GameCalls, Answers
<1>3. gameCall' \in GameCalls
  BY <1>1, <1>2, SentType DEF StartGameCall
<1> QED
  BY <1>3, RevisionTypes DEF StartGameCall, GameUnchanged, Types

LEMMA ServeGameCallTypes == ASSUME Types, ServeGameCall PROVE Types'
<1> DEFINE r == gameCall.room
<1>1. gameCall \in GameCalls /\ r \in Rooms \cup {None}
  BY DEF Types, GameCalls
<1>2. ASSUME NEW ans \in Answers \cup GameRevisions, GameAnswered(ans),
             ans \notin Answers => r \in Rooms
      PROVE  gameCall' \in GameCalls
  BY <1>1, <1>2 DEF GameAnswered, GameCalls
<1>3. CASE Valid(r) /\ ChangeGame(r) /\ GameAnswered(srv[r].game + 1)
  <2>1. r \in Rooms /\ srv[r].used
    BY <1>1, <1>3, ValidRoom
  <2>2. srv' \in Srvs /\ hub' \in Hubs /\ srv[r].game + 1 \in GameRevisions
    BY <1>3, <2>1, ChangeGameTypes
  <2>3. gameCall' \in GameCalls
    BY <1>2, <1>3, <2>1, <2>2
  <2> QED
    BY <2>2, <2>3 DEF Types, ServeGameCall
<1>4. CASE \E ans \in {Refused, Conflict} : GameAnswered(ans) /\ UNCHANGED <<srv, hub>>
  <2>1. gameCall' \in GameCalls
    BY <1>2, <1>4 DEF Answers
  <2> QED
    BY <1>4, <2>1 DEF Types, ServeGameCall
<1>5. CASE Valid(r) /\ GameAnswered(srv[r].game) /\ UNCHANGED <<srv, hub>>
  <2>1. r \in Rooms
    BY <1>1, <1>5, ValidRoom
  <2>2. srv[r].game \in 0..MaxGameRevision
    BY <2>1 DEF Types, Srvs, RoomStates
  <2>3. srv[r].game \in Answers \cup GameRevisions
    BY <2>2, RevisionAssumption DEF Answers, Missing, GameRevisions
  <2>4. gameCall' \in GameCalls
    BY <1>2, <1>5, <2>1, <2>3
  <2> QED
    BY <1>5, <2>4 DEF Types, ServeGameCall
<1> QED
  BY <1>3, <1>4, <1>5 DEF ServeGameCall

LEMMA ContinueGameCallTypes == ASSUME Types, ContinueGameCall PROVE Types'
<1>1. gameCall \in GameCalls /\ app \in Apps
  BY DEF Types
<1>2. CASE gameCall.op = "intent" /\ gameCall.ans = Conflict
  <2>1. gameCall' = [gameCall EXCEPT !.op = "refresh", !.at = "sent", !.ans = Missing]
        /\ UNCHANGED <<app, chooseAgain, srv, hub, call, panelCall>>
    BY <1>2 DEF ContinueGameCall
  <2>2. gameCall' \in GameCalls
    BY <1>1, <2>1 DEF GameCalls, Answers
  <2> QED
    BY <2>1, <2>2 DEF Types
<1>3. CASE ~ (gameCall.op = "intent" /\ gameCall.ans = Conflict)
  <2>1. gameCall.ans \notin Answers => gameCall.ans \in GameRevisions /\ gameCall.room \in Rooms
    BY <1>1 DEF GameCalls
  <2>2. app' \in Apps
    BY <1>1, <1>3, <2>1, AcceptType DEF ContinueGameCall
  <2>3. gameCall.based \in 0..MaxGameRevision
    BY <1>1 DEF GameCalls
  <2> QED
    BY <1>3, <2>2, <2>3, IdleType DEF ContinueGameCall, Types
<1> QED
  BY <1>2, <1>3

LEMMA GameCallFailsTypes == ASSUME Types, GameCallFails PROVE Types'
  BY IdleType DEF GameCallFails, GameUnchanged, Types

LEMMA StartPanelCallTypes == ASSUME Types, StartPanelCall PROVE Types'
  BY SentType, RoomAskedType DEF StartPanelCall, Types

LEMMA ServePanelCallTypes == ASSUME Types, ServePanelCall PROVE Types'
<1> DEFINE r == panelCall.room
<1>1. panelCall \in PanelCalls /\ r \in Rooms \cup {None}
  BY DEF Types, PanelCalls
<1>2. ASSUME NEW ans \in {Missing, Refused} \cup RoomRevisions,
             panelCall' = [panelCall EXCEPT !.at = "answered", !.ans = ans],
             panelCall.op = "getSnapshot" => ans = Refused \/ (r \in Rooms /\ ans \in RoomRevisions)
      PROVE  panelCall' \in PanelCalls
  BY <1>1, <1>2 DEF PanelCalls
<1>3. CASE panelCall' = [panelCall EXCEPT !.at = "answered", !.ans = Refused]
           /\ UNCHANGED <<srv, hub>>
  BY <1>2, <1>3 DEF ServePanelCall, Types
<1>4. CASE Valid(r)
  <2>1. r \in Rooms /\ srv[r].rev \in RoomRevisions
    BY <1>1, <1>4, ValidRoom
  <2>2. CASE panelCall.op = "configure" /\ ChangeRoom(r)
             /\ panelCall' = [panelCall EXCEPT !.at = "answered", !.ans = Missing]
    BY <1>2, <2>1, <2>2, ChangeRoomTypes DEF ServePanelCall, Types
  <2>3. CASE panelCall' = [panelCall EXCEPT !.at = "answered", !.ans = srv[r].rev]
             /\ UNCHANGED <<srv, hub>>
    BY <1>2, <2>1, <2>3 DEF ServePanelCall, Types
  <2> QED
    BY <1>4, <2>2, <2>3 DEF ServePanelCall
<1> QED
  BY <1>3, <1>4 DEF ServePanelCall

LEMMA ContinuePanelCallTypes == ASSUME Types, ContinuePanelCall PROVE Types'
<1>1. panelCall \in PanelCalls /\ app \in Apps /\ panelCall.room \in Rooms \cup {None}
  BY DEF Types, PanelCalls
<1>2. panelCall' \in PanelCalls
  BY <1>1, SentType, IdleType DEF ContinuePanelCall
<1>3. app' \in Apps
  BY <1>1, ShowRoomType DEF ContinuePanelCall, PanelCalls
<1> QED
  BY <1>2, <1>3 DEF ContinuePanelCall, Types

LEMMA PanelCallFailsTypes == ASSUME Types, PanelCallFails PROVE Types'
  BY IdleType DEF PanelCallFails, Types

LEMMA StartedTypes == ASSUME Types, NEW c \in Links, Started(c) PROVE Types'
<1>1. hub \in Hubs /\ hub[c] \in LinkStates /\ hub[c].session # None
  BY DEF Types, Hubs, Serving, Started
<1>2. call' \in Calls
  BY IdleType DEF Started, AttachEnds, Types
<1>3. hub' \in Hubs
  <2> DEFINE up == [hub[c] EXCEPT !.phase = "up", !.asked = "sent"]
             failed == [hub[c] EXCEPT !.phase = "closed", !.starting = FALSE]
  <2>1. up \in LinkStates /\ Serving(up) /\ failed \in LinkStates /\ Serving(failed)
    BY <1>1 DEF LinkStates, Serving
  <2>2. hub' = [hub EXCEPT ![c] = up] \/ hub' = [hub EXCEPT ![c] = failed]
    BY <1>1 DEF Started, Hubs
  <2> HIDE DEF up, failed
  <2> QED
    BY <1>1, <2>1, <2>2, OneLink
<1> QED
  BY <1>2, <1>3, LobbyTypes DEF Started, Types

LEMMA LostTypes == ASSUME Types, NEW c \in Links, Lost(c) PROVE Types'
<1>1. hub \in Hubs /\ hub[c] \in LinkStates /\ hub[c].session \in Rooms
  BY DEF Types, Hubs, Serving, Lost, LinkStates
<1>2. call' \in Calls
  BY IdleType DEF Lost, AttachEnds, Types
<1>3. hub' = [hub EXCEPT ![c] = Dropped(hub[c])]
  BY DEF Lost
<1>4. hub' \in Hubs
  BY <1>1, <1>3, DroppedType, OneLink
<1> QED
  BY <1>2, <1>4, LobbyTypes DEF Lost, Types

LEMMA ReconnectedTypes == ASSUME Types, NEW c \in Links, Reconnected(c) PROVE Types'
<1>1. hub \in Hubs /\ hub[c] \in LinkStates /\ hub[c].session # None
  BY DEF Types, Hubs, Serving, Reconnected
<1>2. hub' \in Hubs
  <2> DEFINE up == [hub[c] EXCEPT !.phase = "up", !.asked = "sent"]
             failed == [hub[c] EXCEPT !.phase = "closed"]
  <2>1. up \in LinkStates /\ Serving(up) /\ failed \in LinkStates /\ Serving(failed)
    BY <1>1 DEF LinkStates, Serving
  <2>2. hub' = [hub EXCEPT ![c] = up] \/ hub' = [hub EXCEPT ![c] = failed]
    BY <1>1 DEF Reconnected, Hubs
  <2> HIDE DEF up, failed
  <2> QED
    BY <1>1, <2>1, <2>2, OneLink
<1> QED
  BY <1>2, LobbyTypes DEF Reconnected, Types

LEMMA StoppedTypes == ASSUME Types, NEW c \in Links, Stopped(c) PROVE Types'
<1>1. hub' \in Hubs
  BY NoLinkType, OneLink DEF Stopped, Types
<1>2. call' \in Calls
  BY IdleType DEF Stopped, AttachEnds, Types
<1> QED
  BY <1>1, <1>2, BlankType, LobbyTypes DEF Stopped, GoHome, Types

(* A connection whose first message has been taken.                          *)
Read(c) == [hub EXCEPT ![c].inbox = Tail(@)]

LEMMA ReadType ==
  ASSUME Types, NEW c \in Links, hub[c].inbox # << >>
  PROVE  /\ Read(c) \in Hubs /\ Head(hub[c].inbox) \in Letters
         /\ Tail(hub[c].inbox) \in Seq(Letters)
         /\ Read(c) = [hub EXCEPT ![c] = [hub[c] EXCEPT !.inbox = Tail(hub[c].inbox)]]
<1>1. hub \in Hubs /\ hub[c] \in LinkStates /\ Serving(hub[c]) /\ hub[c].inbox \in Seq(Letters)
  BY DEF Types, Hubs, LinkStates
<1> DEFINE box == Tail(hub[c].inbox)
           new == [hub[c] EXCEPT !.inbox = box]
<1>2. Head(hub[c].inbox) \in Letters /\ box \in Seq(Letters)
  BY <1>1
<1> HIDE DEF box
<1>3. new \in LinkStates /\ Serving(new)
  BY <1>1, <1>2 DEF LinkStates, Serving
<1>4. Read(c) = [hub EXCEPT ![c] = new]
  BY <1>1 DEF Read, Hubs, box
<1> HIDE DEF new
<1>5. Read(c) \in Hubs
  BY <1>1, <1>3, <1>4, OneLink
<1> QED
  BY <1>2, <1>4, <1>5 DEF new, box

LEMMA HandleRoomClosedTypes ==
  ASSUME Types, NEW h \in Hubs, handleRoomClosed(h),
         \A c \in Links : hub[c].held => h[c].session = hub[c].session
  PROVE  hub' \in Hubs /\ app' \in Apps
<1>1. CASE MustStop
  <2>1. app.link \in Links /\ hub[app.link].held /\ hub[app.link].session \in Rooms
    BY <1>1 DEF MustStop, Types, Apps, Hubs, Serving, LinkStates
  <2>2. h[app.link].session \in Rooms
    BY <2>1
  <2> QED
    BY <1>1, <2>1, <2>2, StoppingType DEF handleRoomClosed, Types
<1>2. CASE ~ MustStop
  BY <1>2, BlankType DEF handleRoomClosed, GoHome
<1> QED
  BY <1>1, <1>2

LEMMA DeliverTypes == ASSUME Types, NEW c \in Links, Deliver(c) PROVE Types'
<1> DEFINE m == Head(hub[c].inbox)
<1>1. hub \in Hubs /\ app \in Apps /\ call \in Calls /\ hub[c].inbox # << >>
  BY DEF Types, Deliver
<1>2. Read(c) \in Hubs /\ m \in Letters
  BY <1>1, ReadType
<1>3. /\ m.kind \in {"room", "game", "attached", "closed"} /\ m.id \in Rooms
      /\ m.kind = "room" => m.rev \in RoomRevisions
      /\ m.kind = "game" => m.rev \in GameRevisions
      /\ m.kind = "attached" /\ m.rev # Refused => m.rev \in RoomRevisions
  BY <1>2, LetterTypes
<1> HIDE DEF m
<1>4. ASSUME hub' \in Hubs, app' \in Apps, call' \in Calls PROVE Types'
  BY <1>4, LobbyTypes DEF Types, Deliver
<1>5. CASE m.kind = "room" /\ hub' = Read(c) /\ call' = call
           /\ app' = ShowRoom(app, Snapshot(m.id, m.rev))
  BY <1>1, <1>2, <1>3, <1>4, <1>5, ShowRoomType
<1>6. CASE m.kind = "game" /\ hub' = Read(c) /\ call' = call
           /\ app' = acceptGameSnapshot(app, Snapshot(m.id, m.rev))
  BY <1>1, <1>2, <1>3, <1>4, <1>6, AcceptType
<1>7. CASE m.kind = "attached" /\ AttachEnds(c)
           /\ hub' = [Read(c) EXCEPT ![c].asked = "no", ![c].starting = FALSE]
           /\ app' = IF m.rev = Refused THEN app ELSE ShowRoom(app, Snapshot(m.id, m.rev))
  <2>1. app' \in Apps /\ call' \in Calls
    BY <1>1, <1>3, <1>7, ShowRoomType, IdleType DEF AttachEnds
  <2> DEFINE new == [Read(c)[c] EXCEPT !.asked = "no", !.starting = FALSE]
  <2>2. new \in LinkStates /\ Serving(new)
    BY <1>2 DEF Hubs, LinkStates, Serving
  <2>3. hub' = [Read(c) EXCEPT ![c] = new]
    BY <1>2, <1>7 DEF Hubs
  <2> HIDE DEF new
  <2>4. hub' \in Hubs
    BY <1>2, <2>2, <2>3, OneLink
  <2> QED
    BY <1>4, <2>1, <2>4
<1>8. CASE m.kind = "closed" /\ handleRoomClosed(Read(c)) /\ call' = call
  <2>1. \A d \in Links : Read(c)[d].session = hub[d].session
    BY <1>1 DEF Read, Hubs, LinkStates
  <2> QED
    BY <1>1, <1>2, <1>4, <1>8, <2>1, HandleRoomClosedTypes
<1> QED
  BY <1>3, <1>5, <1>6, <1>7, <1>8 DEF Deliver, Read, m

LEMMA TableActsTypes == ASSUME Types, TableActs PROVE Types'
<1>1. PICK r \in Rooms : SomebodyActs(r)
  BY DEF TableActs
<1>2. srv' \in Srvs /\ hub' \in Hubs
  BY <1>1, ValidRoom, ChangeRoomTypes, ChangeGameTypes, CloseRoomTypes, LoseMemberTypes
     DEF SomebodyActs
<1> QED
  BY <1>2, LobbyTypes DEF TableActs, Types

LEMMA AttachActionTypes == ASSUME Types, NEW c \in Links, Attach(c) PROVE Types'
  BY AttachTypes, LobbyTypes DEF Attach, Types

LEMMA ServerRestartsTypes == ASSUME Types, ServerRestarts PROVE Types'
<1>1. srv \in Srvs /\ hub \in Hubs
  BY DEF Types
<1>2. srv' \in Srvs
  <2>1. ASSUME NEW r \in Rooms
        PROVE  /\ srv'[r] \in RoomStates /\ srv'[r].open = FALSE /\ srv'[r].game = 0
    <3>1. srv[r].used \in BOOLEAN /\ srv[r].host \in BOOLEAN
      BY <1>1 DEF Srvs, RoomStates
    <3>2. srv'[r] = [NewRoom EXCEPT !.used = srv[r].used, !.host = srv[r].host]
      BY DEF ServerRestarts
    <3>3. srv'[r] = [open |-> FALSE, used |-> srv[r].used, member |-> FALSE, host |-> srv[r].host,
                     rev |-> 0, game |-> 0]
      BY <3>2 DEF NewRoom
    <3>4. 0 \in 0..MaxRoomRevision /\ 0 \in 0..MaxGameRevision
      BY RevisionAssumption
    <3> QED
      BY <3>1, <3>3, <3>4 DEF RoomStates
  <2>2. srv' \in [Rooms -> RoomStates]
    BY <2>1 DEF ServerRestarts
  <2> QED
    BY <2>1, <2>2 DEF Srvs
<1>3. ASSUME NEW c \in Links PROVE hub'[c] \in LinkStates /\ Serving(hub'[c])
  <2>1. CASE hub[c].phase = "up"
    <3>1. hub[c] \in LinkStates /\ hub[c].session \in Rooms
      BY <1>1, <2>1 DEF Hubs, Serving, LinkStates
    <3> QED
      BY <2>1, <3>1, DroppedType DEF ServerRestarts
  <2>2. CASE hub[c].phase # "up"
    BY <1>1, <2>2 DEF ServerRestarts, Hubs
  <2> QED
    BY <2>1, <2>2
<1>4. hub' \in Hubs
  BY <1>3 DEF ServerRestarts, Hubs
<1>5. call' \in Calls
  BY IdleType DEF ServerRestarts, Types
<1> QED
  BY <1>2, <1>4, <1>5, LobbyTypes DEF ServerRestarts, Types

LEMMA NextTypes == ASSUME Types, [Next]_vars PROVE Types'
<1>1. CASE UNCHANGED vars
  BY <1>1 DEF vars, Types
<1>2. CASE Next
  BY <1>2, ReloadTypes, EnterTypes, AskTypes, ServeEnterTypes, ServeCallTypes, ContinueTypes,
     CallFailsTypes, StartGameCallTypes, ServeGameCallTypes, ContinueGameCallTypes,
     GameCallFailsTypes, StartPanelCallTypes, ServePanelCallTypes, ContinuePanelCallTypes,
     PanelCallFailsTypes, StartedTypes, LostTypes, ReconnectedTypes, StoppedTypes, DeliverTypes,
     AttachActionTypes, TableActsTypes, ServerRestartsTypes DEF Next
<1> QED
  BY <1>1, <1>2

LEMMA TypesHold == Spec => []Types
  BY InitTypes, NextTypes, PTL DEF Spec

(* The shape of the client's state (App.vue, LobbyView.vue, RoomConnection): *)
(* in particular a room or a game shown is one the server sent, never the    *)
(* refusal of a request.                                                     *)
THEOREM ClientTypes == Spec => []TypeOK
<1>1. ASSUME Types PROVE TypeOK
  <2>1. Letters \subseteq Messages
    BY DEF Letters, Messages, Revisions, RoomRevisions, GameRevisions
  <2>2. Seq(Letters) \subseteq Seq(Messages)
    BY <2>1
  <2>3. app \in [session : Rooms \cup {None}, stored : Rooms \cup {None}, room : Snapshots,
                 game : Snapshots, link : Links \cup {None}]
    BY <1>1 DEF Types, Apps, RoomSnapshots, GameSnapshots, Snapshots, Revisions, RoomRevisions,
                GameRevisions
  <2>4. call \in Slots /\ panelCall \in Slots
    BY <1>1, RevisionTypes DEF Types, Calls, PanelCalls, Slots, Revisions, RoomRevisions, GameRevisions,
                               Answers
  <2>5. gameCall \in Slots
    BY <1>1 DEF Types, GameCalls, Slots, Revisions, RoomRevisions, GameRevisions
  <2>6. srv \in [Rooms -> RoomStates] /\ hub \in [Links -> LinkStates]
        /\ chooseAgain \in 0..MaxGameRevision
    BY <1>1 DEF Types, Srvs, Hubs
  <2>7. \A c \in Links :
         /\ hub[c].session \in Rooms \cup {None}
         /\ hub[c].phase \in {"closed", "starting", "up", "lost", "stopping"}
         /\ hub[c].asked \in {"no", "sent", "served"}
         /\ hub[c].waiter \in {None, "closed", "leave"}
         /\ hub[c].inbox \in Seq(Messages)
    BY <2>2, <2>6 DEF LinkStates
  <2> QED
    BY <2>3, <2>4, <2>5, <2>6, <2>7 DEF TypeOK, RoomStates
<1> QED
  BY <1>1, TypesHold, PTL

-----------------------------------------------------------------------------
(* The session, its connection and the game belong together. *)

LinksQuiet == \A c \in Links : hub[c].phase = "closed"
Asking == call.at \in {"sent", "answered"}

(* Where no room is shown, nothing of a room is under way: a session there   *)
(* is one that restoreRoom has not taken up yet.                             *)
HomeIsQuiet ==
  AtHome => /\ app.link = None /\ gameCall = Idle /\ panelCall = Idle /\ chooseAgain = 0
            /\ app.session = None \/ LinksQuiet
            /\ app.game = NoSnapshot

GameCallOfSession ==
  /\ gameCall.room \in {None, app.session}
  /\ app.session = None => gameCall = Idle

(* What the handlers that take up a room find when their answer comes.       *)
EnteringFromHome ==
  Asking /\ call.op \in {"create", "join"} =>
    app.game = NoSnapshot /\ (app.session = None \/ AtHome)

RestoringAtHome ==
  Asking /\ call.op = "restore" => AtHome /\ app.session = call.room /\ call.room \in Rooms

RestoringGameAlone ==
  Asking /\ call.op = "restoreGame" =>
    /\ ~ AtHome /\ app.session = call.room /\ call.room \in Rooms /\ LinksQuiet
    /\ app.link = None /\ gameCall = Idle /\ app.game = NoSnapshot

HomeInv ==
  /\ OwnRoomOnly /\ HomeIsQuiet /\ GameCallOfSession
  /\ EnteringFromHome /\ RestoringAtHome /\ RestoringGameAlone

(* Most steps keep what every connection serves, and never start one.        *)
KeepsLinks ==
  \A c \in Links : /\ hub'[c].session = hub[c].session
                   /\ hub[c].phase = "closed" => hub'[c].phase = "closed"

(* The busy handler goes on with the same room, or ends.                     *)
CallGoesOn ==
  Asking' => Asking /\ call'.op = call.op
             /\ (call.op \in {"restore", "restoreGame"} => call'.room = call.room)

LEMMA KeepsLinksTypes ==
  ASSUME Types, hub' = hub
  PROVE  KeepsLinks
  BY DEF KeepsLinks

LEMMA PushedKeeps ==
  ASSUME NEW h, NEW r, NEW news, NEW c \in Links, h[c] \in LinkStates
  PROVE  /\ Pushed(h, r, news)[c].session = h[c].session
         /\ Pushed(h, r, news)[c].phase = h[c].phase
         /\ Pushed(h, r, news)[c].attached = h[c].attached
         /\ Pushed(h, r, news)[c].inbox = IF h[c].attached /\ h[c].session = r
                                          THEN Append(h[c].inbox, news) ELSE h[c].inbox
  BY DEF Pushed, LinkStates

LEMMA DetachedKeeps ==
  ASSUME NEW h, NEW r, NEW c \in Links, h[c] \in LinkStates
  PROVE  /\ Detached(h, r)[c].session = h[c].session
         /\ Detached(h, r)[c].phase = h[c].phase
         /\ Detached(h, r)[c].attached = (h[c].attached /\ h[c].session # r)
         /\ Detached(h, r)[c].inbox = h[c].inbox
  BY DEF Detached, LinkStates

LEMMA ServerKeepsLinks ==
  ASSUME Types, NEW r \in Rooms, Valid(r),
         ChangeRoom(r) \/ ChangeGame(r) \/ CloseRoom(r) \/ LoseMember(r)
  PROVE  KeepsLinks
<1>1. hub \in Hubs /\ \A c \in Links : hub[c] \in LinkStates
  BY DEF Types, Hubs
<1>2. CASE ChangeRoom(r)
  BY <1>1, <1>2, PushedKeeps DEF KeepsLinks, ChangeRoom
<1>3. CASE ChangeGame(r)
  BY <1>1, <1>3, PushedKeeps DEF KeepsLinks, ChangeGame
<1>4. CASE CloseRoom(r)
  <2> DEFINE h == Pushed(hub, r, News("closed", r, srv[r].rev))
  <2>1. h \in Hubs
    BY <1>1, ValidRoom, NewsType, PushedType
  <2>2. \A c \in Links : h[c] \in LinkStates
    BY <2>1 DEF Hubs
  <2>3. \A c \in Links : h[c].session = hub[c].session /\ h[c].phase = hub[c].phase
    BY <1>1, PushedKeeps
  <2>4. hub' = Detached(h, r)
    BY <1>4 DEF CloseRoom
  <2> HIDE DEF h
  <2> QED
    BY <2>2, <2>3, <2>4, DetachedKeeps DEF KeepsLinks
<1>5. CASE LoseMember(r)
  BY <1>1, <1>5, DetachedKeeps DEF KeepsLinks, LoseMember
<1> QED
  BY <1>2, <1>3, <1>4, <1>5

LEMMA AttachKeepsLinks ==
  ASSUME Types, NEW c \in Links, Attach(c)
  PROVE  KeepsLinks
<1> DEFINE r == hub[c].session
<1>1. hub \in [Links -> LinkStates]
  BY DEF Types, Hubs
<1>2. Registered(c) \in Hubs
        /\ \A d \in Links : /\ Registered(c)[d].session = hub[d].session
                            /\ Registered(c)[d].phase = hub[d].phase
  <2>1. \A d \in Links : /\ Registered(c)[d].session = hub[d].session
                         /\ Registered(c)[d].phase = hub[d].phase
    BY <1>1 DEF Registered, LinkStates
  <2> QED
    BY <2>1, RegisteredType
<1>3. ASSUME NEW h \in Hubs, NEW rev, hub' = Greeted(h, c, r, rev),
             \A d \in Links : h[d].session = hub[d].session /\ h[d].phase = hub[d].phase
      PROVE  KeepsLinks
  <2>1. h \in [Links -> LinkStates]
    BY DEF Hubs
  <2>2. \A d \in Links : hub'[d].session = h[d].session /\ hub'[d].phase = h[d].phase
    BY <1>3, <2>1 DEF Greeted, LinkStates
  <2> QED
    BY <1>3, <2>2 DEF KeepsLinks
<1>4. CASE Valid(r) /\ hub' = Greeted(Registered(c), c, r, srv[r].rev)
  BY <1>2, <1>3, <1>4
<1>5. CASE Valid(r) /\ srv[r].rev < MaxRoomRevision
           /\ hub' = Greeted(Pushed(Registered(c), r, News("room", r, srv[r].rev + 1)),
                             c, r, srv[r].rev + 1)
  <2> DEFINE h == Pushed(Registered(c), r, News("room", r, srv[r].rev + 1))
  <2>1. r \in Rooms /\ srv[r].rev \in RoomRevisions
    BY <1>1, <1>5, ValidRoom DEF LinkStates
  <2>2. srv[r].rev + 1 \in RoomRevisions
    BY <1>5, <2>1, RevisionAssumption DEF RoomRevisions
  <2>3. h \in Hubs
    BY <1>2, <2>1, <2>2, NewsType, PushedType
  <2>4. \A d \in Links : Registered(c)[d] \in LinkStates
    BY <1>2 DEF Hubs
  <2>5. \A d \in Links : h[d].session = hub[d].session /\ h[d].phase = hub[d].phase
    BY <1>2, <2>4, PushedKeeps
  <2>6. hub' = Greeted(h, c, r, srv[r].rev + 1)
    BY <1>5
  <2> HIDE DEF h
  <2> QED
    BY <1>3, <2>3, <2>5, <2>6
<1>6. CASE hub' = [hub EXCEPT ![c].due = Refused, ![c].asked = "served"]
  BY <1>1, <1>6 DEF KeepsLinks, LinkStates
<1>7. CASE WriteAttachResult(c)
  BY <1>1, <1>7 DEF KeepsLinks, LinkStates, WriteAttachResult
<1> QED
  BY <1>4, <1>5, <1>6, <1>7 DEF Attach, ServeAttach

LEMMA InitHome == ASSUME Init PROVE HomeInv
  BY DEF Init, HomeInv, OwnRoomOnly, GameOfOwnRoom, LinkServesSession, HomeIsQuiet, AtHome, LinksQuiet,
         NoLink, GameCallOfSession, EnteringFromHome, RestoringAtHome, RestoringGameAlone, Asking,
         Blank, Idle

LEMMA HomeKept ==
  ASSUME Types, HomeInv, KeepsLinks, app' = app, LobbyUnchanged, CallGoesOn
  PROVE  HomeInv'
<1>1. (AtHome' <=> AtHome) /\ (LinksQuiet => LinksQuiet')
  BY DEF AtHome, LinksQuiet, KeepsLinks
<1>2. OwnRoomOnly'
  BY DEF HomeInv, OwnRoomOnly, GameOfOwnRoom, LinkServesSession, KeepsLinks, Types, Apps
<1>3. HomeIsQuiet' /\ GameCallOfSession'
  BY <1>1 DEF HomeInv, HomeIsQuiet, GameCallOfSession, LobbyUnchanged
<1>4. EnteringFromHome' /\ RestoringAtHome' /\ RestoringGameAlone'
  BY <1>1 DEF HomeInv, CallGoesOn, EnteringFromHome, RestoringAtHome, RestoringGameAlone,
              LobbyUnchanged
<1> QED
  BY <1>2, <1>3, <1>4 DEF HomeInv

(* As long as the room shown does not go away, the lobby's handlers go on.   *)
LEMMA LobbyStaysOn ==
  ASSUME HomeInv, LobbyStays, app'.room = app.room \/ app'.room # NoSnapshot
  PROVE  LobbyUnchanged
  BY DEF HomeInv, HomeIsQuiet, AtHome, LobbyStays, LobbyUnchanged, Unmount

(* A room is shown while a connection works, or no handler waits, or one is  *)
(* shown already.                                                            *)
LEMMA ShownHome ==
  ASSUME Types, HomeInv, KeepsLinks, NEW r \in Rooms, NEW rev \in RoomRevisions,
         app' = ShowRoom(app, Snapshot(r, rev)), gameCall' = gameCall, CallGoesOn,
         ~ LinksQuiet \/ ~ Asking' \/ ~ AtHome
  PROVE  HomeInv'
<1>1. ~ AtHome' /\ (LinksQuiet => LinksQuiet')
  BY NoneAssumption DEF AtHome, LinksQuiet, KeepsLinks, ShowRoom, Snapshot, NoSnapshot, Types, Apps
<1>2. /\ app'.session = app.session /\ app'.game = app.game /\ app'.link = app.link
  BY DEF ShowRoom, Types, Apps
<1>3. OwnRoomOnly'
  BY <1>2 DEF HomeInv, OwnRoomOnly, GameOfOwnRoom, LinkServesSession, KeepsLinks, Types, Apps
<1>4. HomeIsQuiet' /\ GameCallOfSession'
  BY <1>1, <1>2 DEF HomeInv, HomeIsQuiet, GameCallOfSession
<1>5. Asking' => ~ (AtHome /\ app.session # None)
  BY DEF HomeInv, HomeIsQuiet
<1>6. EnteringFromHome'
  BY <1>2, <1>5 DEF HomeInv, CallGoesOn, EnteringFromHome
<1>7. RestoringAtHome'
  BY <1>5, NoneAssumption DEF HomeInv, CallGoesOn, RestoringAtHome
<1>8. RestoringGameAlone'
  BY <1>1, <1>2 DEF HomeInv, CallGoesOn, RestoringGameAlone
<1> QED
  BY <1>3, <1>4, <1>6, <1>7, <1>8 DEF HomeInv

(* A game is accepted where a connection or a handler of the lobby works.    *)
LEMMA AcceptedHome ==
  ASSUME Types, HomeInv, KeepsLinks, NEW r \in Rooms, NEW rev \in GameRevisions,
         app' = acceptGameSnapshot(app, Snapshot(r, rev)), CallGoesOn,
         gameCall' \in {gameCall, Idle}, panelCall' = panelCall,
         ~ LinksQuiet \/ gameCall # Idle, AtHome => chooseAgain' = chooseAgain
  PROVE  HomeInv'
<1>1. /\ app'.session = app.session /\ app'.room = app.room /\ app'.link = app.link
      /\ app'.game = app.game \/ (app.session # None /\ app'.game.id = app.session)
  BY DEF acceptGameSnapshot, shouldAcceptGameSnapshot, Snapshot, Types, Apps
<1>2. (AtHome' <=> AtHome) /\ (LinksQuiet => LinksQuiet')
  BY <1>1 DEF AtHome, LinksQuiet, KeepsLinks
<1>3. AtHome => app.session = None
  BY DEF HomeInv, HomeIsQuiet, GameCallOfSession
<1>4. ~ (Asking /\ call.op \in {"restore", "restoreGame"})
  BY <1>3, NoneAssumption DEF HomeInv, RestoringAtHome, RestoringGameAlone
<1>5. OwnRoomOnly'
  BY <1>1 DEF HomeInv, OwnRoomOnly, GameOfOwnRoom, LinkServesSession, KeepsLinks, Types, Apps
<1>6. HomeIsQuiet'
  BY <1>1, <1>2, <1>3 DEF HomeInv, HomeIsQuiet
<1>7. GameCallOfSession'
  BY <1>1 DEF HomeInv, GameCallOfSession, Idle
<1>8. EnteringFromHome'
  BY <1>1, <1>2, <1>3 DEF HomeInv, CallGoesOn, EnteringFromHome
<1>9. RestoringAtHome' /\ RestoringGameAlone'
  BY <1>4 DEF CallGoesOn, RestoringAtHome, RestoringGameAlone
<1> QED
  BY <1>5, <1>6, <1>7, <1>8, <1>9 DEF HomeInv

(* The tab goes home with its connections as they are.                       *)
LEMMA GoneHome ==
  ASSUME HomeInv, app' = Blank, LobbyStays, CallGoesOn, ~ LinksQuiet \/ ~ Asking'
  PROVE  HomeInv'
<1>1. /\ app'.session = None /\ app'.link = None /\ app'.game = NoSnapshot /\ AtHome'
  BY DEF Blank, AtHome
<1>2. gameCall' = Idle /\ panelCall' = Idle /\ chooseAgain' = 0
  BY <1>1 DEF LobbyStays, Unmount, AtHome
<1>3. ~ (Asking' /\ call'.op \in {"restore", "restoreGame"})
  BY NoneAssumption DEF HomeInv, HomeIsQuiet, CallGoesOn, RestoringAtHome, RestoringGameAlone
<1> QED
  BY <1>1, <1>2, <1>3 DEF HomeInv, OwnRoomOnly, GameOfOwnRoom, LinkServesSession, HomeIsQuiet,
     GameCallOfSession, EnteringFromHome, RestoringAtHome, RestoringGameAlone, Idle

LEMMA ReloadHome == ASSUME Types, HomeInv, Reload PROVE HomeInv'
<1>1. /\ AtHome' /\ LinksQuiet' /\ app'.link = None /\ app'.game = NoSnapshot
      /\ app'.session = app.stored /\ app.stored \in Rooms \cup {None}
  BY DEF Reload, AtHome, LinksQuiet, Blank, NoLink, Types, Apps
<1>2. gameCall' = Idle /\ panelCall' = Idle /\ chooseAgain' = 0
  BY <1>1 DEF Reload, LobbyStays, Unmount, AtHome
<1>3. call' = IF app.stored = None THEN Idle ELSE Sent("restore", app.stored)
  BY DEF Reload
<1>4. RestoringAtHome' /\ RestoringGameAlone' /\ EnteringFromHome'
  BY <1>1, <1>3 DEF RestoringAtHome, RestoringGameAlone, EnteringFromHome, Asking, Idle, Sent
<1> QED
  BY <1>1, <1>2, <1>4 DEF HomeInv, OwnRoomOnly, GameOfOwnRoom, LinkServesSession, HomeIsQuiet,
     GameCallOfSession, Idle

LEMMA EnterHome ==
  ASSUME Types, HomeInv, NEW op \in {"create", "join"}, Enter(op)
  PROVE  HomeInv'
<1>1. /\ AtHome /\ AtHome' /\ app'.session = app.session /\ app'.link = app.link
      /\ app'.game = NoSnapshot /\ app.game = NoSnapshot
  BY DEF Enter, AtHome, Types, Apps, HomeInv, HomeIsQuiet
<1>2. call'.op = op /\ op \notin {"restore", "restoreGame"} /\ (LinksQuiet => LinksQuiet')
  BY DEF Enter, Sent, Idle, LinksQuiet
<1>3. EnteringFromHome' /\ RestoringAtHome' /\ RestoringGameAlone'
  BY <1>1, <1>2 DEF EnteringFromHome, RestoringAtHome, RestoringGameAlone
<1> QED
  BY <1>1, <1>2, <1>3 DEF Enter, LobbyUnchanged, HomeInv, OwnRoomOnly, GameOfOwnRoom,
     LinkServesSession, HomeIsQuiet, GameCallOfSession

LEMMA AskHome ==
  ASSUME Types, HomeInv, NEW op \in {"ready", "leave"}, Ask(op)
  PROVE  HomeInv'
<1>1. ~ (call'.op \in {"create", "join", "restore", "restoreGame"})
  BY DEF Ask, Sent, Idle
<1>2. (LinksQuiet => LinksQuiet') /\ (AtHome' <=> AtHome)
  BY DEF Ask, LinksQuiet, AtHome
<1> QED
  BY <1>1, <1>2 DEF Ask, LobbyUnchanged, HomeInv, OwnRoomOnly, GameOfOwnRoom, LinkServesSession,
     HomeIsQuiet, GameCallOfSession, EnteringFromHome, RestoringAtHome, RestoringGameAlone

LEMMA ServeEnterHome == ASSUME Types, HomeInv, ServeEnter PROVE HomeInv'
<1>1. CallGoesOn
  BY DEF ServeEnter, CallGoesOn, Asking, Types, Calls
<1> QED
  BY <1>1, HomeKept, KeepsLinksTypes DEF ServeEnter

LEMMA ServeCallHome == ASSUME Types, HomeInv, ServeCall PROVE HomeInv'
<1> DEFINE r == call.room
<1>1. call.at = "sent" /\ \E rev : Answered(rev)
  BY DEF ServeCall
<1>2. CallGoesOn
  BY <1>1 DEF CallGoesOn, Answered, Asking, Types, Calls
<1>3. KeepsLinks
  <2>1. CASE hub' = hub
    BY <2>1, KeepsLinksTypes
  <2>2. CASE Valid(r) /\ (ChangeRoom(r) \/ CloseRoom(r) \/ LoseMember(r))
    <3>1. r \in Rooms
      BY <2>2, ValidRoom DEF Types, Calls
    <3> QED
      BY <2>2, <3>1, ServerKeepsLinks
  <2> QED
    BY <2>1, <2>2 DEF ServeCall
<1> QED
  BY <1>2, <1>3, HomeKept DEF ServeCall

LEMMA CallFailsHome == ASSUME Types, HomeInv, CallFails PROVE HomeInv'
<1>1. CallGoesOn
  BY DEF CallFails, CallGoesOn, Asking, Idle
<1> QED
  BY <1>1, HomeKept, KeepsLinksTypes DEF CallFails

(* A handler that has taken up a room starts the connection of its session.  *)
LEMMA StartedHome ==
  ASSUME Types, HomeInv, NEW a \in Apps, startRealtime(a, a.session), a.session \in Rooms,
         a.game # NoSnapshot => a.game.id = a.session, a.room # NoSnapshot,
         LobbyStays, gameCall = Idle
  PROVE  HomeInv'
<1> DEFINE new == [NoLink EXCEPT !.session = a.session, !.phase = "starting", !.held = TRUE,
                                 !.starting = TRUE]
<1>1. PICK c \in Links : /\ hub' = [hub EXCEPT ![c] = new]
                         /\ app' = [a EXCEPT !.link = c]
                         /\ call' = [call EXCEPT !.at = "starting", !.room = a.session]
  BY DEF startRealtime
<1>2. /\ app'.session = a.session /\ app'.game = a.game /\ app'.room = a.room /\ app'.link = c
      /\ ~ AtHome'
  BY <1>1 DEF Apps, AtHome
<1>3. hub'[c].session = a.session
  BY <1>1 DEF Types, Hubs, NoLink
<1>4. ~ Asking'
  BY <1>1 DEF Asking, Types, Calls
<1>5. gameCall' = Idle
  BY <1>2 DEF LobbyStays, Unmount, AtHome
<1>6. OwnRoomOnly'
  BY <1>2, <1>3 DEF OwnRoomOnly, GameOfOwnRoom, LinkServesSession
<1> QED
  BY <1>2, <1>4, <1>5, <1>6 DEF HomeInv, HomeIsQuiet, GameCallOfSession,
     EnteringFromHome, RestoringAtHome, RestoringGameAlone, Idle

LEMMA ContinueHome == ASSUME Types, HomeInv, Continue PROVE HomeInv'
<1>0. app \in Apps /\ call \in Calls /\ LobbyStays /\ (Asking <=> call.at \in {"sent", "answered"})
  BY DEF Types, Continue, Asking
<1>1. CASE Entered
  <2> DEFINE a == ShowRoom(SaveSession(app, call.room), Snapshot(call.room, call.ans))
  <2>1. call.room \in Rooms /\ call.ans \in RoomRevisions
    BY <1>0, <1>1, RevisionTypes DEF Entered, Calls
  <2>2. SaveSession(app, call.room) \in Apps
    BY <1>0, <2>1 DEF SaveSession, Apps
  <2>3. a \in Apps
    BY <2>1, <2>2, ShowRoomType
  <2>4. a.session = call.room /\ a.game = app.game /\ a.room # NoSnapshot
    BY <1>0, <2>1, NoneAssumption DEF ShowRoom, SaveSession, Snapshot, NoSnapshot, Apps
  <2>5. app.game = NoSnapshot /\ gameCall = Idle
    BY <1>1 DEF Entered, HomeInv, EnteringFromHome, Asking, HomeIsQuiet, GameCallOfSession
  <2>6. startRealtime(a, a.session)
    BY <1>1, <2>4 DEF Entered
  <2> HIDE DEF a
  <2> QED
    BY <1>0, <2>1, <2>3, <2>4, <2>5, <2>6, StartedHome
<1>2. CASE Restored
  <2>1. CASE call.ans = Refused
    <3>1. app' = Blank /\ ~ Asking'
      BY <1>2, <2>1 DEF Restored, Asking, Idle
    <3>2. CallGoesOn
      BY <3>1 DEF CallGoesOn
    <3> QED
      BY <1>0, <3>1, <3>2, GoneHome
  <2>2. CASE call.ans # Refused
    <3>1. call.room \in Rooms /\ call.ans \in RoomRevisions
      BY <1>0, <1>2, <2>2 DEF Restored, Calls
    <3>2. AtHome /\ app.session = call.room /\ app.link = None /\ gameCall = Idle /\ LinksQuiet
          /\ app.game = NoSnapshot
      BY <1>2, <3>1, NoneAssumption DEF Restored, HomeInv, RestoringAtHome, HomeIsQuiet, Asking
    <3>3. app' = ShowRoom(app, Snapshot(call.room, call.ans)) /\ hub' = hub
          /\ call' = Sent("restoreGame", call.room)
      BY <1>2, <2>2 DEF Restored
    <3>4. /\ app'.session = call.room /\ app'.link = None /\ app'.game = NoSnapshot
          /\ ~ AtHome' /\ LinksQuiet'
      BY <1>0, <3>1, <3>2, <3>3, NoneAssumption
         DEF ShowRoom, Snapshot, NoSnapshot, AtHome, LinksQuiet, Apps
    <3>5. gameCall' = Idle
      BY <1>0, <3>2, <3>4 DEF LobbyStays, Unmount, AtHome
    <3>6. call'.op = "restoreGame" /\ call'.room = call.room
      BY <3>3 DEF Sent, Idle
    <3> QED
      BY <3>1, <3>4, <3>5, <3>6 DEF HomeInv, OwnRoomOnly, GameOfOwnRoom, LinkServesSession,
         HomeIsQuiet, GameCallOfSession, EnteringFromHome, RestoringAtHome, RestoringGameAlone, Idle
  <2> QED
    BY <2>1, <2>2
<1>3. CASE RestoredGame
  <2>1. ~ AtHome /\ app.session = call.room /\ call.room \in Rooms /\ app.link = None
        /\ gameCall = Idle /\ app.game = NoSnapshot
    BY <1>3 DEF RestoredGame, HomeInv, RestoringGameAlone, Asking
  <2>2. CASE call.ans = Refused
    <3>1. app' = [app EXCEPT !.session = None, !.stored = None] /\ ~ Asking'
      BY <1>3, <2>2 DEF RestoredGame, Asking, Idle
    <3>2. app'.session = None /\ app'.link = None /\ app'.game = NoSnapshot /\ ~ AtHome'
      BY <1>0, <2>1, <3>1 DEF Apps, AtHome
    <3>3. gameCall' = Idle
      BY <1>0, <2>1, <3>2 DEF LobbyStays, Unmount, AtHome
    <3> QED
      BY <3>1, <3>2, <3>3 DEF HomeInv, OwnRoomOnly, GameOfOwnRoom, LinkServesSession,
         HomeIsQuiet, GameCallOfSession, EnteringFromHome, RestoringAtHome, RestoringGameAlone, Idle
  <2>3. CASE call.ans # Refused
    <3> DEFINE a == IF call.ans = Missing THEN app
                    ELSE acceptGameSnapshot(app, Snapshot(call.room, call.ans))
    <3>1. call.ans \in {Missing} \cup GameRevisions
      BY <1>0, <1>3, <2>3 DEF RestoredGame, Calls
    <3>2. a \in Apps
      BY <1>0, <2>1, <3>1, AcceptType
    <3>3. a.session = call.room /\ a.room # NoSnapshot
          /\ (a.game # NoSnapshot => a.game.id = a.session)
      BY <1>0, <2>1 DEF acceptGameSnapshot, Snapshot, Apps, AtHome
    <3>4. startRealtime(a, a.session)
      BY <1>3, <2>3, <3>3 DEF RestoredGame
    <3> HIDE DEF a
    <3> QED
      BY <1>0, <2>1, <3>2, <3>3, <3>4, StartedHome
  <2> QED
    BY <2>2, <2>3
<1>4. CASE ReadySet
  <2>1. ~ Asking' /\ CallGoesOn /\ KeepsLinks
    BY <1>4, KeepsLinksTypes DEF ReadySet, CallGoesOn, Asking, Idle
  <2>2. CASE app' = app
    BY <1>0, <2>1, <2>2, LobbyStaysOn, HomeKept
  <2>3. CASE call.ans # Refused
    <3>1. call.room \in Rooms /\ call.ans \in RoomRevisions
      BY <1>0, <1>4, <2>3 DEF ReadySet, Calls
    <3>2. app' = ShowRoom(app, Snapshot(call.room, call.ans))
      BY <1>4, <2>3 DEF ReadySet
    <3>3. app'.room # NoSnapshot
      BY <1>0, <3>1, <3>2, NoneAssumption DEF ShowRoom, Snapshot, NoSnapshot, Apps
    <3> QED
      BY <1>0, <2>1, <3>1, <3>2, <3>3, LobbyStaysOn, ShownHome DEF LobbyUnchanged
  <2> QED
    BY <1>4, <2>2, <2>3 DEF ReadySet
<1>5. CASE HasLeft
  <2>1. ~ Asking' /\ CallGoesOn
    BY <1>0, <1>5 DEF HasLeft, CallGoesOn, Asking, Idle, Calls
  <2>2. CASE app' = app /\ hub' = hub
    BY <1>0, <2>1, <2>2, LobbyStaysOn, HomeKept, KeepsLinksTypes
  <2>3. CASE MustStop /\ hub' = Stopping(hub, "leave") /\ app' = app
    <3>1. app.link \in Links /\ hub \in [Links -> LinkStates]
      BY <1>0, <2>3 DEF MustStop, Apps, Types, Hubs
    <3>2. /\ \A c \in Links : hub'[c].session = hub[c].session
          /\ \A c \in Links : c # app.link => hub'[c].phase = hub[c].phase
      BY <2>3, <3>1 DEF Stopping, LinkStates
    <3>3. ~ AtHome /\ LobbyUnchanged
      BY <1>0, <2>3, <3>1, LobbyStaysOn, NoneAssumption DEF HomeInv, HomeIsQuiet
    <3> QED
      BY <2>1, <2>3, <3>1, <3>2, <3>3 DEF HomeInv, OwnRoomOnly, GameOfOwnRoom, LinkServesSession,
         HomeIsQuiet, GameCallOfSession, EnteringFromHome, RestoringAtHome, RestoringGameAlone,
         LobbyUnchanged, AtHome
  <2>4. CASE app' = GoHome
    BY <1>0, <2>1, <2>4, GoneHome DEF GoHome
  <2> QED
    BY <1>5, <2>2, <2>3, <2>4 DEF HasLeft
<1> QED
  BY <1>1, <1>2, <1>3, <1>4, <1>5 DEF Continue

(* A handler of the lobby starts or ends, or its request is served.          *)
LEMMA GameCallHome ==
  ASSUME Types, HomeInv, KeepsLinks, UNCHANGED <<app, call, panelCall>>, ~ AtHome,
         gameCall'.room \in {None, app.session}, app.session # None \/ gameCall' = Idle,
         gameCall # Idle \/ app.game # NoSnapshot \/ ~ busy \/ gameCall' = Idle
  PROVE  HomeInv'
<1>1. ~ AtHome' /\ (LinksQuiet => LinksQuiet')
  BY DEF AtHome, LinksQuiet, KeepsLinks
<1>2. OwnRoomOnly'
  BY DEF HomeInv, OwnRoomOnly, GameOfOwnRoom, LinkServesSession, KeepsLinks, Types, Apps
<1>3. HomeIsQuiet' /\ GameCallOfSession'
  BY <1>1 DEF HomeIsQuiet, GameCallOfSession
<1>4. EnteringFromHome' /\ RestoringAtHome'
  BY <1>1 DEF HomeInv, EnteringFromHome, RestoringAtHome, Asking, AtHome
<1>5. RestoringGameAlone'
  BY <1>1 DEF HomeInv, RestoringGameAlone, Asking, busy
<1> QED
  BY <1>2, <1>3, <1>4, <1>5 DEF HomeInv

(* While one of the lobby's handlers is under way, the room is shown.        *)
LEMMA LobbyAtWork ==
  ASSUME HomeInv
  PROVE  /\ gameCall # Idle => ~ AtHome /\ app.session # None
         /\ panelCall # Idle => ~ AtHome
  BY DEF HomeInv, HomeIsQuiet, GameCallOfSession

LEMMA StartGameCallHome == ASSUME Types, HomeInv, StartGameCall PROVE HomeInv'
<1>1. ~ AtHome /\ app.session # None
  BY DEF StartGameCall, Shown
<1>2. gameCall'.room = RoomAsked /\ RoomAsked \in {None, app.session}
  BY DEF StartGameCall, Sent, Idle, Intent, RoomAsked
<1> QED
  BY <1>1, <1>2, GameCallHome, KeepsLinksTypes DEF StartGameCall, GameUnchanged

LEMMA ServeGameCallHome == ASSUME Types, HomeInv, ServeGameCall PROVE HomeInv'
<1> DEFINE r == gameCall.room
<1>1. gameCall # Idle /\ \E rev : GameAnswered(rev)
  BY DEF ServeGameCall, Idle
<1>2. gameCall'.room = r
  BY <1>1 DEF GameAnswered, Types, GameCalls
<1>3. KeepsLinks
  <2>1. CASE hub' = hub
    BY <2>1, KeepsLinksTypes
  <2>2. CASE Valid(r) /\ ChangeGame(r)
    <3>1. r \in Rooms
      BY <2>2, ValidRoom DEF Types, GameCalls
    <3> QED
      BY <2>2, <3>1, ServerKeepsLinks
  <2> QED
    BY <2>1, <2>2 DEF ServeGameCall
<1> QED
  BY <1>1, <1>2, <1>3, LobbyAtWork, GameCallHome DEF ServeGameCall, HomeInv, GameCallOfSession

LEMMA ContinueGameCallHome == ASSUME Types, HomeInv, ContinueGameCall PROVE HomeInv'
<1>1. gameCall # Idle /\ ~ AtHome /\ app.session # None /\ gameCall \in GameCalls
  BY LobbyAtWork DEF ContinueGameCall, Idle, Types
<1>2. KeepsLinks /\ CallGoesOn
  BY KeepsLinksTypes DEF ContinueGameCall, CallGoesOn, Asking
<1>3. CASE app' = app
  <2>1. gameCall'.room \in {None, app.session}
    <3>1. gameCall'.room = gameCall.room \/ gameCall' = Idle
      BY <1>1 DEF ContinueGameCall, GameCalls
    <3> QED
      BY <3>1 DEF HomeInv, GameCallOfSession, Idle
  <2> QED
    BY <1>1, <1>2, <1>3, <2>1, GameCallHome DEF ContinueGameCall
<1>4. CASE gameCall.ans \notin Answers /\ gameCall' = Idle
           /\ app' = acceptGameSnapshot(app, Snapshot(gameCall.room, gameCall.ans))
  <2>1. gameCall.ans \in GameRevisions /\ gameCall.room \in Rooms
    BY <1>1, <1>4 DEF GameCalls
  <2> QED
    BY <1>1, <1>2, <1>4, <2>1, AcceptedHome DEF ContinueGameCall
<1> QED
  BY <1>3, <1>4 DEF ContinueGameCall

LEMMA GameCallFailsHome == ASSUME Types, HomeInv, GameCallFails PROVE HomeInv'
<1>1. gameCall # Idle /\ ~ AtHome
  BY LobbyAtWork DEF GameCallFails, gameBusy, Idle
<1>2. gameCall' = Idle /\ gameCall'.room = None
  BY DEF GameCallFails, Idle
<1> QED
  BY <1>1, <1>2, GameCallHome, KeepsLinksTypes DEF GameCallFails, GameUnchanged

(* The host's panel changes nothing that this is about, while it is there.   *)
LEMMA PanelHome ==
  ASSUME Types, HomeInv, KeepsLinks, UNCHANGED <<app, call, gameCall, chooseAgain>>, ~ AtHome
  PROVE  HomeInv'
<1>1. ~ AtHome' /\ (LinksQuiet => LinksQuiet')
  BY DEF AtHome, LinksQuiet, KeepsLinks
<1>2. OwnRoomOnly'
  BY DEF HomeInv, OwnRoomOnly, GameOfOwnRoom, LinkServesSession, KeepsLinks, Types, Apps
<1> QED
  BY <1>1, <1>2 DEF HomeInv, HomeIsQuiet, GameCallOfSession, EnteringFromHome, RestoringAtHome,
     RestoringGameAlone, Asking

LEMMA StartPanelCallHome == ASSUME Types, HomeInv, StartPanelCall PROVE HomeInv'
  BY PanelHome, KeepsLinksTypes DEF StartPanelCall, HostView, Shown

LEMMA ServePanelCallHome == ASSUME Types, HomeInv, ServePanelCall PROVE HomeInv'
<1> DEFINE r == panelCall.room
<1>1. panelCall # Idle
  BY DEF ServePanelCall, Idle
<1>2. KeepsLinks
  <2>1. CASE hub' = hub
    BY <2>1, KeepsLinksTypes
  <2>2. CASE Valid(r) /\ ChangeRoom(r)
    <3>1. r \in Rooms
      BY <2>2, ValidRoom DEF Types, PanelCalls
    <3> QED
      BY <2>2, <3>1, ServerKeepsLinks
  <2> QED
    BY <2>1, <2>2 DEF ServePanelCall
<1> QED
  BY <1>1, <1>2, LobbyAtWork, PanelHome DEF ServePanelCall

LEMMA ContinuePanelCallHome == ASSUME Types, HomeInv, ContinuePanelCall PROVE HomeInv'
<1>1. panelCall # Idle /\ ~ AtHome /\ panelCall \in PanelCalls
  BY LobbyAtWork DEF ContinuePanelCall, Idle, Types
<1>2. CASE app' = app
  BY <1>1, <1>2, PanelHome, KeepsLinksTypes DEF ContinuePanelCall
<1>3. CASE panelCall.ans # Refused /\ panelCall.op = "getSnapshot"
           /\ app' = ShowRoom(app, Snapshot(panelCall.room, panelCall.ans))
  <2>1. panelCall.room \in Rooms /\ panelCall.ans \in RoomRevisions
    BY <1>1, <1>3 DEF ContinuePanelCall, PanelCalls
  <2>2. CallGoesOn
    BY DEF ContinuePanelCall, CallGoesOn, Asking
  <2> QED
    BY <1>1, <1>3, <2>1, <2>2, ShownHome, KeepsLinksTypes DEF ContinuePanelCall
<1> QED
  BY <1>2, <1>3 DEF ContinuePanelCall

LEMMA PanelCallFailsHome == ASSUME Types, HomeInv, PanelCallFails PROVE HomeInv'
<1>1. ~ AtHome
  BY LobbyAtWork DEF PanelCallFails
<1> QED
  BY <1>1, PanelHome, KeepsLinksTypes DEF PanelCallFails

(* The steps of the connections.                                             *)
LEMMA AttachEndsGoesOn ==
  ASSUME NEW c, AttachEnds(c) \/ call' = call
  PROVE  CallGoesOn
  BY DEF AttachEnds, CallGoesOn, Asking, Idle

LEMMA StartedLinkHome ==
  ASSUME Types, HomeInv, NEW c \in Links, Started(c) \/ Lost(c) \/ Reconnected(c)
  PROVE  HomeInv'
<1>1. hub \in [Links -> LinkStates] /\ hub[c].phase # "closed"
  BY DEF Types, Hubs, Started, Lost, Reconnected
<1>2. KeepsLinks
  <2>1. \A d \in Links : hub[d] \in LinkStates
    BY <1>1
  <2>2. ASSUME NEW new, hub' = [hub EXCEPT ![c] = new], new.session = hub[c].session
        PROVE  KeepsLinks
    BY <1>1, <2>2 DEF KeepsLinks
  <2>3. CASE Started(c) \/ Reconnected(c)
    <3> DEFINE up == [hub[c] EXCEPT !.phase = "up", !.asked = "sent"]
               failed == [hub[c] EXCEPT !.phase = "closed", !.starting = FALSE]
               closed == [hub[c] EXCEPT !.phase = "closed"]
    <3>1. /\ up.session = hub[c].session /\ failed.session = hub[c].session
          /\ closed.session = hub[c].session
      BY <2>1 DEF LinkStates
    <3>2. \/ hub' = [hub EXCEPT ![c] = up] \/ hub' = [hub EXCEPT ![c] = failed]
          \/ hub' = [hub EXCEPT ![c] = closed]
      BY <1>1, <2>3 DEF Started, Reconnected
    <3> HIDE DEF up, failed, closed
    <3> QED
      BY <2>2, <3>1, <3>2
  <2>4. CASE Lost(c)
    <3>1. Dropped(hub[c]).session = hub[c].session
      BY <2>1 DEF Dropped, LinkStates
    <3> QED
      BY <2>2, <2>4, <3>1 DEF Lost
  <2> QED
    BY <2>3, <2>4
<1>3. CallGoesOn
  BY AttachEndsGoesOn DEF Started, Lost, Reconnected
<1> QED
  BY <1>2, <1>3, HomeKept DEF Started, Lost, Reconnected

LEMMA StoppedHome == ASSUME Types, HomeInv, NEW c \in Links, Stopped(c) PROVE HomeInv'
<1>1. ~ LinksQuiet
  BY DEF Stopped, LinksQuiet
<1>2. CallGoesOn
  BY DEF Stopped, AttachEnds, CallGoesOn, Asking, Idle
<1> QED
  BY <1>1, <1>2, GoneHome DEF Stopped, GoHome

LEMMA ReadKeepsLinks ==
  ASSUME Types, NEW c \in Links, hub[c].inbox # << >>
  PROVE  \A d \in Links : Read(c)[d].session = hub[d].session /\ Read(c)[d].phase = hub[d].phase
<1> DEFINE box == Tail(hub[c].inbox)
<1>1. hub \in [Links -> LinkStates] /\ Read(c) = [hub EXCEPT ![c] = [hub[c] EXCEPT !.inbox = box]]
  BY ReadType DEF Types, Hubs
<1> HIDE DEF box
<1>2. hub[c] \in LinkStates
  BY <1>1
<1> QED
  BY <1>1, <1>2 DEF LinkStates

LEMMA DeliverHome == ASSUME Types, HomeInv, NEW c \in Links, Deliver(c) PROVE HomeInv'
<1> DEFINE m == Head(hub[c].inbox)
<1>1. /\ hub[c].inbox # << >> /\ ~ LinksQuiet /\ LobbyStays
      /\ app \in Apps /\ hub \in [Links -> LinkStates]
  BY DEF Deliver, LinksQuiet, Types, Hubs
<1>2. m \in Letters /\ Read(c) \in [Links -> LinkStates]
  BY <1>1, ReadType DEF Hubs
<1>3. /\ m.kind \in {"room", "game", "attached", "closed"} /\ m.id \in Rooms
      /\ m.kind = "room" => m.rev \in RoomRevisions
      /\ m.kind = "game" => m.rev \in GameRevisions
      /\ m.kind = "attached" /\ m.rev # Refused => m.rev \in RoomRevisions
  BY <1>2, LetterTypes
<1> HIDE DEF m
<1>4. CallGoesOn
  BY AttachEndsGoesOn DEF Deliver
<1>5. hub' = Read(c) => KeepsLinks
  BY <1>1, ReadKeepsLinks DEF KeepsLinks
<1>6. ASSUME KeepsLinks, app' = ShowRoom(app, Snapshot(m.id, m.rev)), m.rev \in RoomRevisions
      PROVE  HomeInv'
  <2>1. app'.room # NoSnapshot
    BY <1>1, <1>3, <1>6, NoneAssumption DEF ShowRoom, Snapshot, NoSnapshot, Apps
  <2> QED
    BY <1>1, <1>3, <1>4, <1>6, <2>1, LobbyStaysOn, ShownHome DEF LobbyUnchanged
<1>7. CASE m.kind = "room" /\ hub' = Read(c) /\ app' = ShowRoom(app, Snapshot(m.id, m.rev))
  BY <1>3, <1>5, <1>6, <1>7
<1>8. CASE m.kind = "game" /\ hub' = Read(c) /\ app' = acceptGameSnapshot(app, Snapshot(m.id, m.rev))
  <2>1. app'.room = app.room
    BY <1>1, <1>8 DEF acceptGameSnapshot, Apps
  <2>2. LobbyUnchanged
    BY <1>1, <2>1, LobbyStaysOn
  <2> QED
    BY <1>1, <1>3, <1>4, <1>5, <1>8, <2>2, AcceptedHome DEF LobbyUnchanged
<1>9. CASE m.kind = "attached"
           /\ hub' = [Read(c) EXCEPT ![c].asked = "no", ![c].starting = FALSE]
           /\ app' = IF m.rev = Refused THEN app ELSE ShowRoom(app, Snapshot(m.id, m.rev))
  <2>1. KeepsLinks
    BY <1>1, <1>2, <1>9, ReadKeepsLinks DEF KeepsLinks, LinkStates
  <2>2. CASE m.rev = Refused
    BY <1>1, <1>4, <1>9, <2>1, <2>2, LobbyStaysOn, HomeKept
  <2> QED
    BY <1>3, <1>6, <1>9, <2>1, <2>2
<1>10. CASE m.kind = "closed" /\ handleRoomClosed(Read(c))
  <2>1. CASE MustStop
    <3>1. app.link \in Links /\ app' = app /\ hub' = Stopping(Read(c), "closed")
      BY <1>1, <1>10, <2>1 DEF MustStop, Apps, handleRoomClosed
    <3>2. \A d \in Links : hub'[d].session = hub[d].session
      BY <1>1, <1>2, <3>1, ReadKeepsLinks DEF Stopping, LinkStates
    <3>3. ~ AtHome /\ ~ AtHome' /\ LobbyUnchanged
      BY <1>1, <3>1, LobbyStaysOn, NoneAssumption DEF HomeInv, HomeIsQuiet, AtHome
    <3>4. ~ (Asking /\ call.op = "restoreGame")
      BY <1>1 DEF HomeInv, RestoringGameAlone
    <3>5. OwnRoomOnly'
      BY <3>1, <3>2 DEF HomeInv, OwnRoomOnly, GameOfOwnRoom, LinkServesSession
    <3> QED
      BY <1>4, <3>1, <3>3, <3>4, <3>5 DEF HomeInv, HomeIsQuiet, GameCallOfSession,
         EnteringFromHome, RestoringAtHome, RestoringGameAlone, LobbyUnchanged, CallGoesOn
  <2>2. CASE ~ MustStop
    BY <1>1, <1>4, <1>10, <2>2, GoneHome DEF handleRoomClosed, GoHome
  <2> QED
    BY <2>1, <2>2
<1> QED
  BY <1>3, <1>7, <1>8, <1>9, <1>10 DEF Deliver, Read, m

LEMMA AttachHome == ASSUME Types, HomeInv, NEW c \in Links, Attach(c) PROVE HomeInv'
<1>1. CallGoesOn
  BY DEF Attach, CallGoesOn, Asking
<1> QED
  BY <1>1, AttachKeepsLinks, HomeKept DEF Attach

LEMMA TableActsHome == ASSUME Types, HomeInv, TableActs PROVE HomeInv'
<1>1. KeepsLinks
  BY ServerKeepsLinks DEF TableActs, SomebodyActs
<1>2. CallGoesOn
  BY DEF TableActs, CallGoesOn, Asking
<1> QED
  BY <1>1, <1>2, HomeKept DEF TableActs

LEMMA ServerRestartsHome == ASSUME Types, HomeInv, ServerRestarts PROVE HomeInv'
<1>1. hub \in [Links -> LinkStates]
  BY DEF Types, Hubs
<1>2. KeepsLinks
  BY <1>1 DEF ServerRestarts, KeepsLinks, Dropped, LinkStates
<1>3. CallGoesOn
  BY DEF ServerRestarts, CallGoesOn, Asking, Idle
<1> QED
  BY <1>2, <1>3, HomeKept DEF ServerRestarts

LEMMA NextHome == ASSUME Types, HomeInv, [Next]_vars PROVE HomeInv'
<1>1. CASE UNCHANGED vars
  BY <1>1 DEF vars, HomeInv, OwnRoomOnly, GameOfOwnRoom, LinkServesSession, HomeIsQuiet, AtHome,
     LinksQuiet, GameCallOfSession, EnteringFromHome, RestoringAtHome, RestoringGameAlone, Asking
<1>2. CASE Next
  BY <1>2, ReloadHome, EnterHome, AskHome, ServeEnterHome, ServeCallHome, ContinueHome,
     CallFailsHome, StartGameCallHome, ServeGameCallHome, ContinueGameCallHome,
     GameCallFailsHome, StartPanelCallHome, ServePanelCallHome, ContinuePanelCallHome,
     PanelCallFailsHome, StartedLinkHome, StoppedHome, DeliverHome,
     AttachHome, TableActsHome, ServerRestartsHome DEF Next
<1> QED
  BY <1>1, <1>2

LEMMA HomeHolds == Spec => []HomeInv
<1>1. Init => HomeInv
  BY InitHome
<1>2. Types /\ HomeInv /\ [Next]_vars => HomeInv'
  BY NextHome
<1> QED
  BY <1>1, <1>2, TypesHold, PTL DEF Spec

(* The session, its connection and the game shown belong together, though    *)
(* the handlers that change them wait in between (App.vue:40-173): what      *)
(* makes it so is that no room is shown while one is being taken up, that a  *)
(* session without a room has no connection, and that a handler of the lobby *)
(* names the session's room or none.                                         *)
THEOREM OnlyOwnRoomIsShown == Spec => []OwnRoomOnly
<1>1. HomeInv => OwnRoomOnly
  BY DEF HomeInv
<1> QED
  BY <1>1, HomeHolds, PTL

-----------------------------------------------------------------------------
(* No revision runs ahead of the server, and the last one is on its way. *)

(* A room that is gone never comes back; what a client knows of it is final. *)
Gone(s, r) == s[r].used /\ ~ s[r].open
Reached(s, r, rev) == Gone(s, r) \/ rev <= s[r].game
Overtaken(s, r, rev) == Gone(s, r) \/ rev < s[r].game

(* The messages that wait at a connection.                                   *)
Held(box) == {box[i] : i \in 1..Len(box)}

Hears(h, c) == h[c].phase = "up" /\ h[c].attached

ShownReached == app.game # NoSnapshot => Reached(srv, app.game.id, app.game.rev)

LettersReached ==
  \A c \in Links : \A m \in Held(hub[c].inbox) : m.kind = "game" => Reached(srv, m.id, m.rev)

AnswersReached ==
  /\ call.op = "restoreGame" /\ call.at = "answered" /\ call.ans \notin Answers =>
       Reached(srv, call.room, call.ans)
  /\ gameCall.ans \notin Answers => Reached(srv, gameCall.room, gameCall.ans)

(* A connection stays attached while its transport works and its room is     *)
(* open.                                                                     *)
AttachedToOpen ==
  \A c \in Links : hub[c].attached => /\ hub[c].phase \in {"up", "stopping"}
                                      /\ hub[c].phase = "up" => srv[hub[c].session].open

LatestNews == News("game", app.session, srv[app.session].game)

(* An attached client has the latest game, or a message that brings it.      *)
LatestOnItsWay ==
  app.link # None /\ Hears(hub, app.link) /\ srv[app.session].game > 0 =>
    \/ app.game = Snapshot(app.session, srv[app.session].game)
    \/ LatestNews \in Held(hub[app.link].inbox)

LatestInv ==
  ShownReached /\ LettersReached /\ AnswersReached /\ AttachedToOpen /\ LatestOnItsWay

(* What a step does to the rooms and to the connections.                     *)
GamesGrow ==
  \A r \in Rooms : /\ Gone(srv, r) => Gone(srv', r)
                   /\ Gone(srv', r) \/ srv[r].game <= srv'[r].game

LinksHold ==
  \A c \in Links :
    /\ hub'[c].attached => /\ hub[c].attached /\ hub'[c].session = hub[c].session
                           /\ hub'[c].phase \in {hub[c].phase, "stopping"}
    /\ Hears(hub', c) /\ srv[hub[c].session].open => srv'[hub[c].session].open
    /\ \A m \in Held(hub'[c].inbox) :
         m \in Held(hub[c].inbox) \/ m.kind # "game" \/ Reached(srv', m.id, m.rev)

LinksGoOn ==
  /\ LinksHold
  /\ \A c \in Links : Hears(hub', c) => Held(hub[c].inbox) \subseteq Held(hub'[c].inbox)

LEMMA HeldAppend ==
  ASSUME NEW s \in Seq(Letters), NEW m \in Letters
  PROVE  Held(Append(s, m)) = Held(s) \cup {m}
<1> DEFINE t == Append(s, m)
<1>1. Len(t) = Len(s) + 1 /\ Len(s) \in Nat /\ t[Len(s) + 1] = m
      /\ \A i \in 1..Len(s) : t[i] = s[i]
  OBVIOUS
<1> HIDE DEF t
<1>2. Held(t) \subseteq Held(s) \cup {m}
  BY <1>1 DEF Held
<1>3. Held(s) \subseteq Held(t)
  BY <1>1 DEF Held
<1>4. m \in Held(t)
  BY <1>1 DEF Held
<1> QED
  BY <1>2, <1>3, <1>4 DEF t

LEMMA HeldTail ==
  ASSUME NEW s \in Seq(Letters), s # << >>
  PROVE  Held(s) = {Head(s)} \cup Held(Tail(s))
<1> DEFINE t == Tail(s)
           h == Head(s)
<1>1. /\ Len(s) \in Nat \ {0} /\ Len(t) = Len(s) - 1 /\ h = s[1]
      /\ \A i \in 1..Len(t) : t[i] = s[i + 1]
  OBVIOUS
<1> HIDE DEF t, h
<1>2. ASSUME NEW i \in 1..Len(s) PROVE s[i] \in {h} \cup Held(t)
  <2>1. CASE i = 1
    BY <1>1, <2>1
  <2>2. CASE i # 1
    <3>1. i - 1 \in 1..Len(t) /\ t[i - 1] = s[i]
      BY <1>1, <2>2
    <3> QED
      BY <3>1 DEF Held
  <2> QED
    BY <2>1, <2>2
<1>3. Held(s) \subseteq {h} \cup Held(t)
  BY <1>2 DEF Held
<1>4. h \in Held(s)
  BY <1>1 DEF Held
<1>5. Held(t) \subseteq Held(s)
  <2>1. ASSUME NEW i \in 1..Len(t) PROVE t[i] \in Held(s)
    BY <1>1 DEF Held
  <2> QED
    BY <2>1 DEF Held
<1> QED
  BY <1>3, <1>4, <1>5 DEF t, h

LEMMA HeldNone == Held(<< >>) = {}
  BY DEF Held

LEMMA HeldTypes ==
  ASSUME NEW s \in Seq(Letters), NEW m \in Held(s)
  PROVE  m \in Letters /\ (m.kind = "game" => m.rev \in GameRevisions) /\ m.id \in Rooms
<1>1. m \in Letters
  BY DEF Held
<1> QED
  BY <1>1, LetterTypes

(* What is reached, or overtaken, stays so.                                  *)
LEMMA GrowReached ==
  ASSUME Types, Types', GamesGrow, NEW r \in Rooms, NEW rev \in 0..MaxGameRevision
  PROVE  /\ Reached(srv, r, rev) => Reached(srv', r, rev)
         /\ Overtaken(srv, r, rev) => Overtaken(srv', r, rev)
<1>1. srv[r].game \in Nat /\ srv'[r].game \in Nat /\ rev \in Nat
  BY RevisionAssumption DEF Types, Srvs, RoomStates
<1> QED
  BY <1>1 DEF GamesGrow, Reached, Overtaken

LEMMA SameServer ==
  ASSUME Types, srv' = srv
  PROVE  GamesGrow
<1>1. \A r \in Rooms : srv[r].game \in Nat
  BY RevisionAssumption DEF Types, Srvs, RoomStates
<1> QED
  BY <1>1 DEF GamesGrow

LEMMA SameHub ==
  ASSUME Types, hub' = hub, srv' = srv
  PROVE  LinksGoOn
  BY DEF LinksGoOn, LinksHold

(* The answers that have come stay reached.                                  *)
LEMMA KeptAnswers ==
  ASSUME Types, Types', AnswersReached, GamesGrow,
         \/ call' = call \/ call'.at # "answered" \/ call'.op # "restoreGame"
         \/ call'.ans \in Answers,
         \/ gameCall' = gameCall \/ gameCall'.ans \in Answers
  PROVE  AnswersReached'
<1>1. ASSUME call' = call, call.op = "restoreGame", call.at = "answered", call.ans \notin Answers
      PROVE  Reached(srv', call.room, call.ans)
  <2>1. call.room \in Rooms /\ call.ans \in GameRevisions
    BY <1>1 DEF Types, Calls, Answers
  <2> QED
    BY <1>1, <2>1, GrowReached, RevisionTypes DEF AnswersReached
<1>2. ASSUME gameCall' = gameCall, gameCall.ans \notin Answers
      PROVE  Reached(srv', gameCall.room, gameCall.ans)
  <2>1. gameCall.room \in Rooms /\ gameCall.ans \in GameRevisions
    BY <1>2 DEF Types, GameCalls
  <2> QED
    BY <1>2, <2>1, GrowReached, RevisionTypes DEF AnswersReached
<1> QED
  BY <1>1, <1>2 DEF AnswersReached

(* The connections go on, and what they hold is reached.                     *)
LEMMA KeptLetters ==
  ASSUME Types, Types', LettersReached, AttachedToOpen, GamesGrow, LinksHold
  PROVE  LettersReached' /\ AttachedToOpen'
<1>1. ASSUME NEW c \in Links, NEW m \in Held(hub'[c].inbox), m.kind = "game"
      PROVE  Reached(srv', m.id, m.rev)
  <2>1. hub'[c].inbox \in Seq(Letters)
    BY DEF Types, Hubs, LinkStates
  <2>2. m.id \in Rooms /\ m.rev \in GameRevisions
    BY <1>1, <2>1, HeldTypes
  <2> QED
    BY <1>1, <2>2, GrowReached, RevisionTypes DEF LinksHold, LettersReached
<1>2. ASSUME NEW c \in Links, hub'[c].attached
      PROVE  /\ hub'[c].phase \in {"up", "stopping"}
             /\ hub'[c].phase = "up" => srv'[hub'[c].session].open
  BY <1>2 DEF LinksHold, AttachedToOpen, Hears
<1> QED
  BY <1>1, <1>2 DEF LettersReached, AttachedToOpen

(* A step that shows no other game keeps what is shown reached.              *)
LEMMA KeptGame ==
  ASSUME Types, Types', ShownReached, GamesGrow, app'.game \in {NoSnapshot, app.game}
  PROVE  ShownReached'
<1>1. CASE app'.game = app.game /\ app.game # NoSnapshot
  <2>1. app.game.id \in Rooms /\ app.game.rev \in GameRevisions
    BY <1>1 DEF Types, Apps, GameSnapshots
  <2> QED
    BY <1>1, <2>1, GrowReached, RevisionTypes DEF ShownReached
<1> QED
  BY <1>1 DEF ShownReached

(* ... and the latest game on its way.                                       *)
LEMMA KeptLatest ==
  ASSUME Types, Types', LatestOnItsWay, LinksGoOn,
         app'.link = None \/ ~ Hears(hub', app'.link)
           \/ /\ app'.link = app.link /\ app'.session = app.session /\ app'.game = app.game
              /\ app.link # None => srv'[app.session].game = srv[app.session].game
  PROVE  LatestOnItsWay'
<1>1. CASE /\ app'.link = app.link /\ app'.session = app.session /\ app'.game = app.game
           /\ app.link # None /\ Hears(hub', app.link)
           /\ srv'[app.session].game = srv[app.session].game
  <2>1. app.link \in Links
    BY <1>1 DEF Types, Apps
  <2>2. hub'[app.link].attached /\ hub'[app.link].phase = "up"
    BY <1>1 DEF Hears
  <2>3. Hears(hub, app.link)
    BY <2>1, <2>2 DEF LinksGoOn, LinksHold, Hears
  <2>4. Held(hub[app.link].inbox) \subseteq Held(hub'[app.link].inbox)
    BY <1>1, <2>1 DEF LinksGoOn, LinksHold
  <2>5. LatestNews' = LatestNews
    BY <1>1 DEF LatestNews, News
  <2> QED
    BY <1>1, <2>3, <2>4, <2>5 DEF LatestOnItsWay
<1> QED
  BY <1>1 DEF LatestOnItsWay

(* What the server pushes for a room that changes.                           *)
LEMMA PushedGoesOn ==
  ASSUME Types, NEW r, NEW news \in Letters, NEW h, h = Pushed(hub, r, news)
  PROVE  \A c \in Links :
           /\ h[c].attached = hub[c].attached /\ h[c].session = hub[c].session
           /\ h[c].phase = hub[c].phase
           /\ Held(h[c].inbox) = IF hub[c].attached /\ hub[c].session = r
                                 THEN Held(hub[c].inbox) \cup {news} ELSE Held(hub[c].inbox)
<1> SUFFICES ASSUME NEW c \in Links
             PROVE  /\ h[c].attached = hub[c].attached /\ h[c].session = hub[c].session
                    /\ h[c].phase = hub[c].phase
                    /\ Held(h[c].inbox) = IF hub[c].attached /\ hub[c].session = r
                                          THEN Held(hub[c].inbox) \cup {news}
                                          ELSE Held(hub[c].inbox)
  OBVIOUS
<1> DEFINE box == hub[c].inbox
           longer == Append(box, news)
<1>1. hub[c] \in LinkStates /\ box \in Seq(Letters)
  BY DEF Types, Hubs, LinkStates
<1>2. Held(longer) = Held(box) \cup {news}
  BY <1>1, HeldAppend
<1>3. /\ h[c].attached = hub[c].attached /\ h[c].session = hub[c].session
      /\ h[c].phase = hub[c].phase
      /\ h[c].inbox = IF hub[c].attached /\ hub[c].session = r THEN longer ELSE box
  BY <1>1, PushedKeeps
<1> HIDE DEF longer
<1> QED
  BY <1>2, <1>3

LEMMA ChangeRoomGoesOn ==
  ASSUME Types, NEW r \in Rooms, ChangeRoom(r)
  PROVE  /\ GamesGrow /\ LinksGoOn
         /\ \A q \in Rooms : srv'[q].game = srv[q].game
<1> DEFINE news == News("room", r, srv[r].rev + 1)
<1>1. srv \in [Rooms -> RoomStates] /\ \A q \in Rooms : srv[q] \in RoomStates /\ srv[q].game \in Nat
  BY RevisionAssumption DEF Types, Srvs, RoomStates
<1>2. \A q \in Rooms : /\ srv'[q].open = srv[q].open /\ srv'[q].used = srv[q].used
                       /\ srv'[q].game = srv[q].game
  BY <1>1 DEF ChangeRoom, RoomStates
<1>3. news \in Letters /\ news.kind = "room"
  BY ChangeRoomTypes, NewsType DEF News
<1>4. hub' = Pushed(hub, r, news)
  BY DEF ChangeRoom
<1> HIDE DEF news
<1>5. \A c \in Links :
        /\ hub'[c].attached = hub[c].attached /\ hub'[c].session = hub[c].session
        /\ hub'[c].phase = hub[c].phase
        /\ Held(hub'[c].inbox) = IF hub[c].attached /\ hub[c].session = r
                              THEN Held(hub[c].inbox) \cup {news} ELSE Held(hub[c].inbox)
  BY <1>3, <1>4, PushedGoesOn
<1>6. LinksGoOn
  <2>1. ASSUME NEW c \in Links, Hears(hub', c), srv[hub[c].session].open
        PROVE  srv'[hub[c].session].open
    <3>1. hub[c].session \in Rooms
      BY <1>5, <2>1 DEF Hears, Types, Hubs, Serving, LinkStates
    <3> QED
      BY <1>2, <2>1, <3>1
  <2> QED
    BY <1>3, <1>5, <2>1 DEF LinksGoOn, LinksHold
<1> QED
  BY <1>1, <1>2, <1>6 DEF GamesGrow, Gone

LEMMA ChangeGameGoesOn ==
  ASSUME Types, NEW r \in Rooms, srv[r].used, ChangeGame(r)
  PROVE  /\ GamesGrow /\ LinksGoOn
         /\ srv'[r].game = srv[r].game + 1
         /\ \A q \in Rooms : q # r => srv'[q].game = srv[q].game
         /\ \A c \in Links : Hears(hub', c) /\ hub[c].session = r
                               => News("game", r, srv[r].game + 1) \in Held(hub'[c].inbox)
<1> DEFINE news == News("game", r, srv[r].game + 1)
<1>1. srv \in [Rooms -> RoomStates] /\ \A q \in Rooms : srv[q] \in RoomStates /\ srv[q].game \in Nat
  BY RevisionAssumption DEF Types, Srvs, RoomStates
<1>2. /\ \A q \in Rooms : srv'[q].open = srv[q].open /\ srv'[q].used = srv[q].used
      /\ srv'[r].game = srv[r].game + 1
      /\ \A q \in Rooms : q # r => srv'[q].game = srv[q].game
  BY <1>1 DEF ChangeGame, RoomStates
<1>3. news \in Letters /\ news.id = r /\ news.rev = srv'[r].game
  BY <1>2, ChangeGameTypes, NewsType DEF News
<1>4. hub' = Pushed(hub, r, news)
  BY DEF ChangeGame
<1> HIDE DEF news
<1>5. \A c \in Links :
        /\ hub'[c].attached = hub[c].attached /\ hub'[c].session = hub[c].session
        /\ hub'[c].phase = hub[c].phase
        /\ Held(hub'[c].inbox) = IF hub[c].attached /\ hub[c].session = r
                              THEN Held(hub[c].inbox) \cup {news} ELSE Held(hub[c].inbox)
  BY <1>3, <1>4, PushedGoesOn
<1>6. Reached(srv', news.id, news.rev)
  <2>1. srv'[r].game \in Nat
    BY <1>1, <1>2
  <2> QED
    BY <1>3, <2>1 DEF Reached
<1>7. LinksGoOn
  <2>1. ASSUME NEW c \in Links, Hears(hub', c), srv[hub[c].session].open
        PROVE  srv'[hub[c].session].open
    <3>1. hub[c].session \in Rooms
      BY <1>5, <2>1 DEF Hears, Types, Hubs, Serving, LinkStates
    <3> QED
      BY <1>2, <2>1, <3>1
  <2>2. ASSUME NEW c \in Links, NEW m \in Held(hub'[c].inbox), m \notin Held(hub[c].inbox)
        PROVE  Reached(srv', m.id, m.rev)
    <3>1. m = news
      BY <1>5, <2>2
    <3> QED
      BY <1>6, <3>1
  <2> QED
    BY <1>5, <2>1, <2>2 DEF LinksGoOn, LinksHold
<1>8. GamesGrow
  BY <1>1, <1>2 DEF GamesGrow, Gone
<1>9. \A c \in Links : Hears(hub', c) /\ hub[c].session = r => news \in Held(hub'[c].inbox)
  BY <1>5 DEF Hears
<1> QED
  BY <1>2, <1>7, <1>8, <1>9 DEF news

(* A room is closed, or its member taken out: nobody hears of it any more.   *)
LEMMA DetachedGoesOn ==
  ASSUME Types, NEW r \in Rooms, Valid(r), CloseRoom(r) \/ LoseMember(r)
  PROVE  /\ GamesGrow /\ LinksGoOn
         /\ \A q \in Rooms : srv'[q].game = srv[q].game
<1> DEFINE news == News("closed", r, srv[r].rev)
           h == Pushed(hub, r, news)
<1>1. srv \in [Rooms -> RoomStates] /\ \A q \in Rooms : srv[q] \in RoomStates /\ srv[q].game \in Nat
  BY RevisionAssumption DEF Types, Srvs, RoomStates
<1>2. \A q \in Rooms : /\ q # r => srv'[q].open = srv[q].open
                       /\ srv'[q].open => srv[q].open
                       /\ srv'[q].used = srv[q].used /\ srv'[q].game = srv[q].game
  BY <1>1 DEF CloseRoom, LoseMember, RoomStates
<1>3. news \in Letters /\ news.kind = "closed"
  BY ValidRoom, NewsType DEF News
<1>4. h \in Hubs
  BY <1>3, PushedType DEF Types
<1> HIDE DEF news
<1>5. \A c \in Links :
        /\ h[c].attached = hub[c].attached /\ h[c].session = hub[c].session
        /\ h[c].phase = hub[c].phase
        /\ Held(h[c].inbox) = IF hub[c].attached /\ hub[c].session = r
                              THEN Held(hub[c].inbox) \cup {news} ELSE Held(hub[c].inbox)
  BY <1>3, PushedGoesOn
<1>6. hub' = Detached(h, r) \/ hub' = Detached(hub, r)
  BY DEF CloseRoom, LoseMember, news
<1>7. \A c \in Links : h[c] \in LinkStates /\ hub[c] \in LinkStates
  BY <1>4 DEF Types, Hubs
<1> HIDE DEF h
<1>8. ASSUME NEW c \in Links
      PROVE  /\ hub'[c].attached = (hub[c].attached /\ hub[c].session # r)
             /\ hub'[c].session = hub[c].session /\ hub'[c].phase = hub[c].phase
             /\ Held(hub[c].inbox) \subseteq Held(hub'[c].inbox)
             /\ Held(hub'[c].inbox) \subseteq Held(hub[c].inbox) \cup {news}
  <2>1. CASE hub' = Detached(h, r)
    <3>1. /\ hub'[c].session = h[c].session /\ hub'[c].phase = h[c].phase
          /\ hub'[c].attached = (h[c].attached /\ h[c].session # r)
          /\ hub'[c].inbox = h[c].inbox
      BY <1>7, <2>1, DetachedKeeps
    <3> QED
      BY <1>5, <3>1
  <2>2. CASE hub' = Detached(hub, r)
    BY <1>7, <2>2, DetachedKeeps
  <2> QED
    BY <1>6, <2>1, <2>2
<1>9. LinksGoOn
  <2>1. ASSUME NEW c \in Links, Hears(hub', c), srv[hub[c].session].open
        PROVE  srv'[hub[c].session].open
    <3>1. hub[c].session \in Rooms /\ hub[c].session # r
      BY <1>8, <2>1 DEF Hears, Types, Hubs, Serving, LinkStates
    <3> QED
      BY <1>2, <2>1, <3>1
  <2> QED
    BY <1>3, <1>8, <2>1 DEF LinksGoOn, LinksHold
<1> QED
  BY <1>1, <1>2, <1>9 DEF GamesGrow, Gone

(* What an attachment of connection c to room r writes to connection d.      *)
Greetings(d, c, r) == IF d = c /\ srv[r].game > 0 THEN {News("game", r, srv[r].game)} ELSE {}

(* ... and what else it does: others may be told that the player is there.   *)
AttachedNow(c, r, note) ==
  \A d \in Links :
    /\ hub'[d].attached = (d = c \/ hub[d].attached)
    /\ hub'[d].session = hub[d].session /\ hub'[d].phase = hub[d].phase
    /\ Held(hub[d].inbox) \subseteq Held(hub'[d].inbox)
    /\ Held(hub'[d].inbox) \subseteq Held(hub[d].inbox) \cup {note} \cup Greetings(d, c, r)

LEMMA GreetedHolds ==
  ASSUME Types, NEW h \in Hubs, NEW c \in Links, NEW r \in Rooms, NEW rev, NEW d \in Links
  PROVE  /\ Greeted(h, c, r, rev)[d].attached = h[d].attached
         /\ Greeted(h, c, r, rev)[d].session = h[d].session
         /\ Greeted(h, c, r, rev)[d].phase = h[d].phase
         /\ Held(Greeted(h, c, r, rev)[d].inbox)
              = Held(h[d].inbox) \cup Greetings(d, c, r)
<1> DEFINE note == News("game", r, srv[r].game)
           box == h[d].inbox
           longer == Append(box, note)
           g == Greeted(h, c, r, rev)
<1>1. h[d] \in LinkStates /\ box \in Seq(Letters)
  BY DEF Hubs, LinkStates
<1>2. srv[r].game > 0 => Held(longer) = Held(box) \cup {note}
  <2>1. srv[r].game \in 0..MaxGameRevision
    BY DEF Types, Srvs, RoomStates
  <2>2. srv[r].game > 0 => note \in Letters
    BY <2>1, NewsType, RevisionAssumption DEF GameRevisions
  <2> HIDE DEF note
  <2> QED
    BY <1>1, <2>2, HeldAppend
<1>3. /\ g[d].attached = h[d].attached /\ g[d].session = h[d].session /\ g[d].phase = h[d].phase
      /\ g[d].inbox = IF d = c /\ srv[r].game > 0 THEN longer ELSE box
  BY <1>1 DEF Greeted, Hubs, LinkStates
<1> HIDE DEF longer, g
<1> QED
  BY <1>2, <1>3 DEF g, Greetings

LEMMA ServeAttachHolds ==
  ASSUME Types, NEW c \in Links, ServeAttach(c), NEW r, r = hub[c].session, Valid(r)
  PROVE  /\ r \in Rooms /\ hub[c].phase = "up"
         /\ \A q \in Rooms : /\ srv'[q].open = srv[q].open /\ srv'[q].used = srv[q].used
                             /\ srv'[q].game = srv[q].game
         /\ \E note \in Letters : note.kind = "room" /\ AttachedNow(c, r, note)
         /\ srv[r].game > 0 => News("game", r, srv[r].game) \in Held(hub'[c].inbox)
<1>1. r \in Rooms /\ hub[c].phase = "up" /\ hub \in [Links -> LinkStates]
      /\ srv[r].rev \in RoomRevisions
  BY ValidRoom DEF Types, Hubs, LinkStates, ServeAttach
<1>2. ASSUME NEW d \in Links
      PROVE  /\ Registered(c)[d].attached = (d = c \/ hub[d].attached)
             /\ Registered(c)[d].session = hub[d].session /\ Registered(c)[d].phase = hub[d].phase
             /\ Registered(c)[d].inbox = hub[d].inbox
  <2>1. hub[d] \in LinkStates /\ hub[c] \in LinkStates
    BY <1>1
  <2> QED
    BY <1>1, <2>1 DEF Registered, LinkStates
<1>3. Registered(c) \in Hubs
  BY RegisteredType
<1>4. CASE srv' = srv /\ hub' = Greeted(Registered(c), c, r, srv[r].rev)
  <2> DEFINE h == Registered(c)
  <2> HIDE DEF h
  <2>1. h \in Hubs /\ hub' = Greeted(h, c, r, srv[r].rev)
    BY <1>3, <1>4 DEF h
  <2>2. News("room", r, srv[r].rev) \in Letters /\ News("room", r, srv[r].rev).kind = "room"
    BY <1>1, NewsType DEF News
  <2>3. ASSUME NEW d \in Links
        PROVE  /\ hub'[d].attached = (d = c \/ hub[d].attached)
               /\ hub'[d].session = hub[d].session /\ hub'[d].phase = hub[d].phase
               /\ Held(hub'[d].inbox) = Held(hub[d].inbox) \cup Greetings(d, c, r)
    <3>1. /\ h[d].attached = (d = c \/ hub[d].attached)
          /\ h[d].session = hub[d].session /\ h[d].phase = hub[d].phase
          /\ h[d].inbox = hub[d].inbox
      BY <1>2 DEF h
    <3> QED
      BY <1>1, <2>1, <3>1, GreetedHolds
  <2>4. AttachedNow(c, r, News("room", r, srv[r].rev))
    BY <2>3 DEF AttachedNow
  <2>5. srv[r].game > 0 => News("game", r, srv[r].game) \in Held(hub'[c].inbox)
    BY <2>3 DEF Greetings
  <2> QED
    BY <1>1, <1>4, <2>2, <2>4, <2>5
<1>5. CASE /\ srv[r].rev < MaxRoomRevision /\ srv' = [srv EXCEPT ![r].rev = @ + 1]
           /\ hub' = Greeted(Pushed(Registered(c), r, News("room", r, srv[r].rev + 1)),
                             c, r, srv[r].rev + 1)
  <2> DEFINE note == News("room", r, srv[r].rev + 1)
             h == Pushed(Registered(c), r, note)
  <2>1. srv[r].rev + 1 \in RoomRevisions
    BY <1>1, <1>5, RevisionAssumption DEF RoomRevisions
  <2>2. note \in Letters /\ note.kind = "room"
    BY <1>1, <2>1, NewsType DEF News
  <2> HIDE DEF note
  <2>3. h \in Hubs
    BY <1>3, <2>2, PushedType
  <2>4. ASSUME NEW d \in Links
        PROVE  /\ h[d].attached = (d = c \/ hub[d].attached)
               /\ h[d].session = hub[d].session /\ h[d].phase = hub[d].phase
               /\ Held(hub[d].inbox) \subseteq Held(h[d].inbox)
               /\ Held(h[d].inbox) \subseteq Held(hub[d].inbox) \cup {note}
    <3> DEFINE box == hub[d].inbox
               longer == Append(box, note)
    <3>1. Registered(c)[d] \in LinkStates /\ box \in Seq(Letters)
      BY <1>1, <1>3 DEF Hubs, LinkStates
    <3>2. Held(longer) = Held(box) \cup {note}
      BY <2>2, <3>1, HeldAppend
    <3> DEFINE on == Registered(c)
    <3> HIDE DEF on
    <3>3. on[d] \in LinkStates /\ h = Pushed(on, r, note)
      BY <3>1 DEF on
    <3>4. /\ on[d].attached = (d = c \/ hub[d].attached) /\ on[d].inbox = box
          /\ on[d].session = hub[d].session /\ on[d].phase = hub[d].phase
      BY <1>2 DEF on
    <3> HIDE DEF h, box
    <3>5. /\ h[d].attached = on[d].attached
          /\ h[d].session = on[d].session /\ h[d].phase = on[d].phase
          /\ h[d].inbox = IF on[d].attached /\ on[d].session = r
                          THEN Append(on[d].inbox, note) ELSE on[d].inbox
      BY <3>3, PushedKeeps
    <3>6. h[d].inbox \in {box, longer}
      BY <3>4, <3>5
    <3> USE DEF box
    <3> HIDE DEF longer
    <3> QED
      BY <3>2, <3>4, <3>5, <3>6
  <2>5. hub' = Greeted(h, c, r, srv[r].rev + 1)
    BY <1>5 DEF note
  <2> HIDE DEF h
  <2>6. ASSUME NEW d \in Links
        PROVE  /\ hub'[d].attached = (d = c \/ hub[d].attached)
               /\ hub'[d].session = hub[d].session /\ hub'[d].phase = hub[d].phase
               /\ Held(hub'[d].inbox) = Held(h[d].inbox) \cup Greetings(d, c, r)
    BY <1>1, <2>3, <2>4, <2>5, GreetedHolds
  <2>7. \A q \in Rooms : /\ srv'[q].open = srv[q].open /\ srv'[q].used = srv[q].used
                         /\ srv'[q].game = srv[q].game
    <3>1. srv \in [Rooms -> RoomStates] /\ \A q \in Rooms : srv[q] \in RoomStates
      BY DEF Types, Srvs
    <3> QED
      BY <1>5, <3>1 DEF RoomStates
  <2>8. AttachedNow(c, r, note)
    BY <2>4, <2>6 DEF AttachedNow
  <2>9. srv[r].game > 0 => News("game", r, srv[r].game) \in Held(hub'[c].inbox)
    BY <2>6 DEF Greetings
  <2> QED
    BY <1>1, <2>2, <2>7, <2>8, <2>9
<1> QED
  BY <1>4, <1>5 DEF ServeAttach

LEMMA AttachLatest ==
  ASSUME Types, Types', HomeInv, LatestInv, NEW c \in Links, Attach(c)
  PROVE  LatestInv'
<1>0. /\ app' = app /\ call' = call /\ gameCall' = gameCall
      /\ \A q \in Rooms : srv[q].game \in Nat
  BY RevisionAssumption DEF Attach, LobbyUnchanged, Types, Srvs, RoomStates
<1> DEFINE r == hub[c].session
<1>1. CASE ServeAttach(c) /\ Valid(r)
  <2>1. /\ r \in Rooms /\ hub[c].phase = "up"
        /\ \A q \in Rooms : /\ srv'[q].open = srv[q].open /\ srv'[q].used = srv[q].used
                            /\ srv'[q].game = srv[q].game
        /\ srv[r].game > 0 => News("game", r, srv[r].game) \in Held(hub'[c].inbox)
    BY <1>1, ServeAttachHolds
  <2>2. PICK note \in Letters : note.kind = "room" /\ AttachedNow(c, r, note)
    BY <1>1, ServeAttachHolds
  <2>3. GamesGrow
    BY <1>0, <2>1 DEF GamesGrow, Gone
  <2>4. ShownReached' /\ AnswersReached'
    BY <1>0, <2>3, KeptGame, KeptAnswers DEF LatestInv
  <2>5. LettersReached'
    <3>1. ASSUME NEW d \in Links, NEW m \in Held(hub'[d].inbox), m.kind = "game"
          PROVE  Reached(srv', m.id, m.rev)
      <4>1. CASE m \in Held(hub[d].inbox)
        <5>1. hub[d].inbox \in Seq(Letters)
          BY DEF Types, Hubs, LinkStates
        <5>2. m.id \in Rooms /\ m.rev \in GameRevisions
          BY <3>1, <4>1, <5>1, HeldTypes
        <5> QED
          BY <2>3, <3>1, <4>1, <5>2, GrowReached, RevisionTypes DEF LatestInv, LettersReached
      <4>2. CASE m \notin Held(hub[d].inbox)
        <5>1. m = News("game", r, srv[r].game)
          BY <2>2, <3>1, <4>2 DEF AttachedNow, Greetings
        <5>2. m.id = r /\ m.rev = srv'[r].game /\ srv'[r].game \in Nat
          BY <1>0, <2>1, <5>1 DEF News
        <5> QED
          BY <5>2 DEF Reached
      <4> QED
        BY <4>1, <4>2
    <3> QED
      BY <3>1 DEF LettersReached
  <2>6. AttachedToOpen'
    <3>1. ASSUME NEW d \in Links, hub'[d].attached
          PROVE  /\ hub'[d].phase \in {"up", "stopping"}
                 /\ hub'[d].phase = "up" => srv'[hub'[d].session].open
      <4>1. CASE d = c
        BY <1>1, <2>1, <2>2, <4>1 DEF Valid, AttachedNow
      <4>2. CASE d # c
        <5>1. hub[d].phase = "up" => hub[d].session \in Rooms
          BY DEF Types, Hubs, Serving, LinkStates
        <5> QED
          BY <2>1, <2>2, <3>1, <4>2, <5>1 DEF LatestInv, AttachedToOpen, AttachedNow
      <4> QED
        BY <4>1, <4>2
    <3> QED
      BY <3>1 DEF AttachedToOpen
  <2>7. LatestOnItsWay'
    <3> SUFFICES ASSUME app.link # None, Hears(hub', app.link), srv'[app.session].game > 0
                 PROVE  \/ app.game = Snapshot(app.session, srv'[app.session].game)
                        \/ News("game", app.session, srv'[app.session].game)
                             \in Held(hub'[app.link].inbox)
      BY <1>0 DEF LatestOnItsWay, LatestNews
    <3>1. app.link \in Links /\ hub[app.link].session = app.session
      BY DEF Types, Apps, HomeInv, OwnRoomOnly, LinkServesSession
    <3>2. app.session \in Rooms /\ srv'[app.session].game = srv[app.session].game
      <4>1. hub[app.link].phase = "up"
        BY <2>2, <3>1 DEF Hears, AttachedNow
      <4>2. hub[app.link].session \in Rooms
        BY <3>1, <4>1 DEF Types, Hubs, Serving, LinkStates
      <4> QED
        BY <2>1, <3>1, <4>2
    <3>3. CASE app.link = c
      BY <2>1, <3>1, <3>2, <3>3
    <3>4. CASE app.link # c
      <4>1. Hears(hub, app.link)
        BY <2>2, <3>1, <3>4 DEF Hears, AttachedNow
      <4> QED
        BY <2>2, <3>1, <3>2, <4>1 DEF LatestInv, LatestOnItsWay, LatestNews, AttachedNow
    <3> QED
      BY <3>3, <3>4
  <2> QED
    BY <2>4, <2>5, <2>6, <2>7 DEF LatestInv
<1>2. CASE srv' = srv /\ LinksGoOn
  <2>1. GamesGrow
    BY <1>2, SameServer
  <2> QED
    BY <1>0, <1>2, <2>1, KeptGame, KeptAnswers, KeptLetters, KeptLatest DEF LatestInv, LinksGoOn
<1>3. CASE srv' = srv /\ hub' = [hub EXCEPT ![c].due = Refused, ![c].asked = "served"]
  <2>1. \A d \in Links : /\ hub'[d].attached = hub[d].attached /\ hub'[d].session = hub[d].session
                         /\ hub'[d].phase = hub[d].phase /\ hub'[d].inbox = hub[d].inbox
    <3>1. hub \in [Links -> LinkStates] /\ hub[c] \in LinkStates
      BY DEF Types, Hubs
    <3> QED
      BY <1>3, <3>1 DEF LinkStates
  <2> QED
    BY <1>2, <1>3, <2>1 DEF LinksGoOn, LinksHold
<1>4. CASE WriteAttachResult(c)
  <2> DEFINE note == News("attached", r, hub[c].due)
             box == hub[c].inbox
             longer == Append(box, note)
  <2>1. hub \in [Links -> LinkStates] /\ hub[c] \in LinkStates /\ box \in Seq(Letters)
    BY DEF Types, Hubs, LinkStates
  <2>2. note \in Letters /\ note.kind = "attached"
    <3>1. r \in Rooms /\ hub[c].due \in {Refused} \cup RoomRevisions
      BY <1>4, <2>1 DEF WriteAttachResult, Serving, LinkStates, Types, Hubs
    <3> QED
      BY <3>1, NewsType DEF News
  <2> HIDE DEF note
  <2>3. Held(longer) = Held(box) \cup {note}
    BY <2>1, <2>2, HeldAppend
  <2>4. hub' = [hub EXCEPT ![c] = [hub[c] EXCEPT !.due = Missing, !.inbox = longer]]
    BY <1>4, <2>1 DEF WriteAttachResult, note
  <2> HIDE DEF longer
  <2>5. \A d \in Links : /\ hub'[d].attached = hub[d].attached /\ hub'[d].session = hub[d].session
                         /\ hub'[d].phase = hub[d].phase
                         /\ hub'[d].inbox = IF d = c THEN longer ELSE hub[d].inbox
    BY <2>1, <2>4 DEF LinkStates
  <2>6. srv' = srv
    BY <1>4 DEF WriteAttachResult
  <2> QED
    BY <1>2, <2>2, <2>3, <2>5, <2>6 DEF LinksGoOn, LinksHold
<1> QED
  BY <1>1, <1>3, <1>4 DEF Attach, ServeAttach

(* A step that shows no other game and starts no connection.                 *)
LEMMA KeptAll ==
  ASSUME Types, Types', LatestInv, GamesGrow, LinksGoOn, app'.game \in {NoSnapshot, app.game},
         \/ call' = call \/ call'.at # "answered" \/ call'.op # "restoreGame"
         \/ call'.ans \in Answers,
         \/ gameCall' = gameCall \/ gameCall'.ans \in Answers,
         app'.link = None \/ ~ Hears(hub', app'.link)
           \/ /\ app'.link = app.link /\ app'.session = app.session /\ app'.game = app.game
              /\ app.link # None => srv'[app.session].game = srv[app.session].game
  PROVE  LatestInv'
  BY KeptGame, KeptAnswers, KeptLetters, KeptLatest DEF LatestInv, LinksGoOn

(* A game that was reached is accepted, from a message or from an answer.    *)
LEMMA AcceptedLatest ==
  ASSUME Types, Types', HomeInv, LatestInv, NEW r \in Rooms, NEW rev \in GameRevisions,
         Reached(srv, r, rev), app' = acceptGameSnapshot(app, Snapshot(r, rev)),
         srv' = srv,
         \A c \in Links : Hears(hub', c) => /\ Hears(hub, c)
                                            /\ Held(hub[c].inbox)
                                                 \subseteq Held(hub'[c].inbox) \cup {News("game", r, rev)}
  PROVE  ShownReached' /\ LatestOnItsWay'
<1>1. /\ app'.session = app.session /\ app'.link = app.link
      /\ \/ app'.game = app.game
         \/ /\ app'.game = Snapshot(r, rev) /\ r = app.session
            /\ app.game = NoSnapshot \/ rev >= app.game.rev
  BY DEF acceptGameSnapshot, shouldAcceptGameSnapshot, Snapshot, Types, Apps
<1>2. GamesGrow
  BY SameServer
<1>3. ShownReached'
  <2>1. CASE app'.game = app.game
    BY <1>2, <2>1, KeptGame DEF LatestInv
  <2>2. CASE app'.game = Snapshot(r, rev)
    BY <2>2 DEF ShownReached, Snapshot
  <2> QED
    BY <1>1, <2>1, <2>2
<1>4. LatestOnItsWay'
  <2> DEFINE s == app.session
             latest == srv[s].game
  <2> SUFFICES ASSUME app.link # None, Hears(hub', app.link), latest > 0
               PROVE  app'.game = Snapshot(s, latest)
                      \/ News("game", s, latest) \in Held(hub'[app.link].inbox)
    BY <1>1 DEF LatestOnItsWay, LatestNews
  <2>1. app.link \in Links /\ hub[app.link].session = s
    BY DEF Types, Apps, HomeInv, OwnRoomOnly, LinkServesSession
  <2>2. Hears(hub, app.link)
    BY <2>1
  <2>3. s \in Rooms /\ srv[s].open
    <3>1. hub[app.link].session \in Rooms
      BY <2>1, <2>2 DEF Hears, Types, Hubs, Serving, LinkStates
    <3> QED
      BY <2>1, <2>2, <3>1 DEF LatestInv, AttachedToOpen, Hears
  <2>4. latest \in Nat /\ ~ Gone(srv, s)
    BY <2>3, RevisionAssumption DEF Types, Srvs, RoomStates, Gone
  <2>5. rev \in Nat /\ (r = s => rev <= latest)
    BY <2>4, RevisionTypes DEF Reached
  <2>6. CASE app.game = Snapshot(s, latest)
    <3>1. app.game.rev = latest /\ app.game # NoSnapshot
      BY <2>3, <2>6, NoneAssumption DEF Snapshot, NoSnapshot
    <3>2. app'.game = Snapshot(r, rev) /\ r = s /\ rev >= latest => rev = latest
      BY <2>4, <2>5
    <3> QED
      BY <1>1, <2>6, <3>1, <3>2
  <2>7. CASE News("game", s, latest) \in Held(hub[app.link].inbox)
    <3>1. CASE News("game", s, latest) \in Held(hub'[app.link].inbox)
      BY <3>1
    <3>2. CASE News("game", s, latest) = News("game", r, rev)
      <4>1. r = s /\ rev = latest
        BY <3>2 DEF News
      <4>2. app.game # NoSnapshot => app.game.rev <= rev
        <5>1. ASSUME app.game # NoSnapshot PROVE app.game.rev \in Nat /\ app.game.id = s
          BY <5>1, RevisionTypes DEF Types, Apps, GameSnapshots, HomeInv, OwnRoomOnly, GameOfOwnRoom
        <5> QED
          BY <2>4, <4>1, <5>1 DEF LatestInv, ShownReached, Reached
      <4>3. app' = [app EXCEPT !.game = Snapshot(r, rev)]
        <5>1. app.game = NoSnapshot \/ rev >= app.game.rev
          <6>1. app.game # NoSnapshot => app.game.rev \in Nat
            BY RevisionTypes DEF Types, Apps, GameSnapshots
          <6> QED
            BY <2>5, <4>2, <6>1
        <5> QED
          BY <2>3, <4>1, <5>1, NoneAssumption DEF acceptGameSnapshot, shouldAcceptGameSnapshot, Snapshot
      <4> QED
        BY <4>1, <4>3 DEF Types, Apps
    <3> QED
      BY <2>1, <2>7, <3>1, <3>2
  <2> QED
    BY <2>2, <2>6, <2>7 DEF LatestInv, LatestOnItsWay, LatestNews
<1> QED
  BY <1>3, <1>4

LEMMA InitLatest == ASSUME Init PROVE LatestInv
<1>1. \A c \in Links : Held(hub[c].inbox) = {} /\ hub[c].attached = FALSE
  BY HeldNone DEF Init, NoLink
<1>2. app.game = NoSnapshot /\ app.link = None
  BY DEF Init, Blank
<1> QED
  BY <1>1, <1>2 DEF Init, LatestInv, ShownReached, LettersReached, AnswersReached, AttachedToOpen,
     LatestOnItsWay, Idle, Answers

(* Connections that are new, or closed, hear nothing.                        *)
LEMMA DeafLinks ==
  ASSUME Types, NEW new \in Links, hub'[new].attached = FALSE, hub'[new].inbox = << >>,
         \A c \in Links : c # new => hub'[c] = hub[c], srv' = srv
  PROVE  LinksGoOn /\ ~ Hears(hub', new)
<1>1. Held(hub'[new].inbox) = {}
  BY HeldNone
<1> QED
  BY <1>1 DEF LinksGoOn, LinksHold, Hears

LEMMA ReloadLatest == ASSUME Types, Types', LatestInv, Reload PROVE LatestInv'
<1>1. srv' = srv /\ app'.link = None /\ app'.game = NoSnapshot /\ AtHome'
  BY DEF Reload, Blank, AtHome
<1>2. LinksGoOn
  <2>1. \A c \in Links : Held(hub'[c].inbox) = {} /\ hub'[c].attached = FALSE
    BY HeldNone DEF Reload, NoLink
  <2> QED
    BY <2>1 DEF LinksGoOn, LinksHold, Hears
<1>3. gameCall'.ans \in Answers
  BY <1>1 DEF Reload, LobbyStays, Unmount, AtHome, Idle, Answers
<1>4. call'.at # "answered"
  BY DEF Reload, Sent, Idle
<1> QED
  BY <1>1, <1>2, <1>3, <1>4, SameServer, KeptAll

LEMMA EnterLatest ==
  ASSUME Types, Types', HomeInv, LatestInv, NEW op \in {"create", "join"}, Enter(op)
  PROVE  LatestInv'
<1>1. srv' = srv /\ hub' = hub /\ gameCall' = gameCall
  BY DEF Enter, LobbyUnchanged
<1>2. app'.game = NoSnapshot /\ app'.link = None
  BY DEF Enter, HomeInv, HomeIsQuiet, Types, Apps
<1>3. call'.at # "answered"
  BY DEF Enter, Sent, Idle
<1> QED
  BY <1>1, <1>2, <1>3, SameServer, SameHub, KeptAll

LEMMA AskLatest ==
  ASSUME Types, Types', LatestInv, NEW op \in {"ready", "leave"}, Ask(op)
  PROVE  LatestInv'
<1>1. srv' = srv /\ hub' = hub /\ gameCall' = gameCall /\ app' = app
  BY DEF Ask, LobbyUnchanged
<1>2. call'.at # "answered"
  BY DEF Ask, Sent, Idle
<1> QED
  BY <1>1, <1>2, SameServer, SameHub, KeptAll

LEMMA ServeEnterLatest ==
  ASSUME Types, Types', HomeInv, LatestInv, ServeEnter
  PROVE  LatestInv'
<1>1. PICK r \in Rooms :
        /\ ~ srv[r].used
        /\ srv' = [srv EXCEPT ![r] = [open |-> TRUE, used |-> TRUE, member |-> TRUE,
                                      host |-> call.op = "create", rev |-> 1, game |-> 0]]
        /\ call' = [call EXCEPT !.at = "answered", !.room = r, !.ans = 1]
  BY DEF ServeEnter
<1>2. hub' = hub /\ app' = app /\ gameCall' = gameCall
  BY DEF ServeEnter, LobbyUnchanged
<1>3. /\ srv[r].game = 0 /\ ~ srv[r].open
      /\ srv'[r].game = 0 /\ srv'[r].open /\ srv'[r].used
      /\ \A q \in Rooms : q # r => srv'[q] = srv[q]
      /\ \A q \in Rooms : srv[q].game \in Nat
  BY <1>1, RevisionAssumption DEF Types, Srvs, RoomStates
<1>4. GamesGrow
  BY <1>1, <1>3 DEF GamesGrow, Gone
<1>5. LinksGoOn
  <2>1. ASSUME NEW c \in Links, Hears(hub', c), srv[hub[c].session].open
        PROVE  srv'[hub[c].session].open
    <3>1. hub[c].session \in Rooms
      BY <1>2, <2>1 DEF Hears, Types, Hubs, Serving, LinkStates
    <3> QED
      BY <1>3, <2>1, <3>1
  <2> QED
    BY <1>2, <2>1 DEF LinksGoOn, LinksHold, Hears
<1>6. call'.op # "restoreGame"
  BY <1>1 DEF ServeEnter, Types, Calls
<1>7. \/ app.link = None \/ ~ Hears(hub', app.link)
      \/ srv'[app.session].game = srv[app.session].game
  <2>1. ASSUME app.link # None, Hears(hub', app.link) PROVE app.session \in Rooms
    BY <1>2, <2>1 DEF Hears, HomeInv, OwnRoomOnly, LinkServesSession, Types, Apps, Hubs, Serving,
       LinkStates
  <2> QED
    BY <1>3, <2>1
<1> QED
  BY <1>2, <1>4, <1>5, <1>6, <1>7, KeptAll

(* The session of a connection that hears something is a room.               *)
LEMMA HearsOfSession ==
  ASSUME Types, HomeInv, app.link # None, Hears(hub, app.link)
  PROVE  app.link \in Links /\ app.session \in Rooms /\ hub[app.link].session = app.session
  BY DEF Hears, HomeInv, OwnRoomOnly, LinkServesSession, Types, Apps, Hubs, Serving, LinkStates

(* The server changes a room under the eyes of the tab.                      *)
LEMMA ServerLatest ==
  ASSUME Types, Types', HomeInv, LatestInv, NEW r \in Rooms, Valid(r), app' = app,
         ChangeRoom(r) \/ ChangeGame(r) \/ CloseRoom(r) \/ LoseMember(r),
         AnswersReached'
  PROVE  LatestInv'
<1>1. CASE ChangeRoom(r) \/ CloseRoom(r) \/ LoseMember(r)
  <2>1. GamesGrow /\ LinksGoOn /\ \A q \in Rooms : srv'[q].game = srv[q].game
    BY <1>1, ChangeRoomGoesOn, DetachedGoesOn
  <2>2. app.link # None /\ Hears(hub', app.link) => srv'[app.session].game = srv[app.session].game
    <3>1. ASSUME app.link # None, Hears(hub', app.link) PROVE Hears(hub, app.link) \/ app.session \in Rooms
      <4>1. app.link \in Links
        BY <3>1 DEF Types, Apps
      <4>2. hub'[app.link].attached /\ hub'[app.link].phase = "up"
        BY <3>1 DEF Hears
      <4> QED
        BY <2>1, <4>1, <4>2 DEF LinksGoOn, LinksHold, Hears
    <3> QED
      BY <2>1, <3>1, HearsOfSession
  <2>3. ShownReached' /\ LettersReached' /\ AttachedToOpen'
    BY <2>1, KeptGame, KeptLetters DEF LatestInv, LinksGoOn
  <2>4. LatestOnItsWay'
    BY <2>1, <2>2, KeptLatest DEF LatestInv
  <2> QED
    BY <2>3, <2>4 DEF LatestInv
<1>2. CASE ChangeGame(r)
  <2>1. /\ GamesGrow /\ LinksGoOn
        /\ srv'[r].game = srv[r].game + 1
        /\ \A q \in Rooms : q # r => srv'[q].game = srv[q].game
        /\ \A c \in Links : Hears(hub', c) /\ hub[c].session = r
                              => News("game", r, srv[r].game + 1) \in Held(hub'[c].inbox)
    BY <1>2, ValidRoom, ChangeGameGoesOn
  <2>2. ShownReached' /\ LettersReached' /\ AttachedToOpen'
    BY <2>1, KeptGame, KeptLetters DEF LatestInv, LinksGoOn
  <2>3. LatestOnItsWay'
    <3>1. CASE app.link = None \/ ~ Hears(hub', app.link)
      BY <2>1, <3>1, KeptLatest DEF LatestInv
    <3>2. CASE app.link # None /\ Hears(hub', app.link)
      <4>1. app.link \in Links
        BY <3>2 DEF Types, Apps
      <4>2. hub'[app.link].attached /\ hub'[app.link].phase = "up"
        BY <3>2 DEF Hears
      <4>3. Hears(hub, app.link)
        BY <2>1, <4>1, <4>2 DEF LinksGoOn, LinksHold, Hears
      <4>4. app.session \in Rooms /\ hub[app.link].session = app.session
        BY <3>2, <4>3, HearsOfSession
      <4>5. CASE app.session = r
        <5>1. LatestNews' = News("game", r, srv[r].game + 1)
          BY <2>1, <4>5 DEF LatestNews, News
        <5> QED
          BY <2>1, <3>2, <4>1, <4>4, <4>5, <5>1 DEF LatestOnItsWay
      <4>6. CASE app.session # r
        BY <2>1, <4>4, <4>6, KeptLatest DEF LatestInv
      <4> QED
        BY <4>5, <4>6
    <3> QED
      BY <3>1, <3>2
  <2> QED
    BY <2>2, <2>3 DEF LatestInv
<1> QED
  BY <1>1, <1>2

(* Every step of the server lets what has been reached stay reached.         *)
LEMMA ServerGrows ==
  ASSUME Types, NEW r \in Rooms, Valid(r),
         ChangeRoom(r) \/ ChangeGame(r) \/ CloseRoom(r) \/ LoseMember(r)
  PROVE  GamesGrow
  BY ValidRoom, ChangeRoomGoesOn, ChangeGameGoesOn, DetachedGoesOn

LEMMA ServeCallLatest ==
  ASSUME Types, Types', HomeInv, LatestInv, ServeCall
  PROVE  LatestInv'
<1> DEFINE r == call.room
<1>1. /\ app' = app /\ gameCall' = gameCall /\ call.at = "sent" /\ call \in Calls
      /\ r \in Rooms \cup {None}
  BY DEF ServeCall, LobbyUnchanged, Types, Calls
<1>2. CASE UNCHANGED <<srv, hub>> /\ (call.op # "restoreGame" \/ Answered(Refused))
  <2>1. call'.op # "restoreGame" \/ call'.ans \in Answers
    <3>1. ASSUME NEW rev, Answered(rev) PROVE call'.op = call.op /\ call'.ans = rev
      BY <1>1, <3>1 DEF Answered, Calls
    <3> QED
      BY <1>2, <3>1 DEF ServeCall, Answers
  <2> QED
    BY <1>1, <1>2, <2>1, SameServer, SameHub, KeptAll
<1>3. CASE Valid(r) /\ call.op = "restoreGame" /\ Answered(srv[r].game) /\ UNCHANGED <<srv, hub>>
  <2>1. call'.room = r /\ call'.ans = srv[r].game
    BY <1>1, <1>3 DEF Answered, Calls
  <2>2. Reached(srv', call'.room, call'.ans)
    <3>1. r \in Rooms /\ srv[r].game \in Nat
      BY <1>1, <1>3, ValidRoom, RevisionAssumption DEF Types, Srvs, RoomStates
    <3> QED
      BY <1>3, <2>1, <3>1 DEF Reached
  <2>3. AnswersReached'
    BY <1>1, <1>3, <2>2 DEF LatestInv, AnswersReached
  <2> QED
    BY <1>1, <1>3, <2>3, SameServer, SameHub, KeptGame, KeptLetters, KeptLatest DEF LatestInv, LinksGoOn
<1>4. CASE Valid(r) /\ call.op \in {"ready", "leave"}
           /\ (ChangeRoom(r) \/ CloseRoom(r) \/ LoseMember(r))
  <2>1. r \in Rooms /\ GamesGrow
    BY <1>1, <1>4, ValidRoom, ServerGrows
  <2>2. call'.op # "restoreGame"
    <3>1. ASSUME NEW rev, Answered(rev) PROVE call'.op = call.op
      BY <1>1, <3>1 DEF Answered, Calls
    <3> QED
      BY <1>4, <3>1 DEF ServeCall
  <2>3. AnswersReached'
    BY <1>1, <2>1, <2>2, KeptAnswers DEF LatestInv
  <2> QED
    BY <1>1, <1>4, <2>1, <2>3, ServerLatest
<1> QED
  BY <1>2, <1>3, <1>4 DEF ServeCall

LEMMA CallFailsLatest == ASSUME Types, Types', LatestInv, CallFails PROVE LatestInv'
<1>1. call'.at # "answered" /\ srv' = srv /\ hub' = hub /\ app' = app /\ gameCall' = gameCall
  BY DEF CallFails, Idle, LobbyUnchanged
<1> QED
  BY <1>1, SameServer, SameHub, KeptAll

(* A connection that has just been started hears nothing yet.                *)
LEMMA StartedLatest ==
  ASSUME Types, Types', LatestInv, srv' = srv, NEW a \in Apps, NEW r \in Rooms, startRealtime(a, r),
         gameCall' = gameCall \/ gameCall' = Idle,
         ShownReached'
  PROVE  LatestInv'
<1> DEFINE new == [NoLink EXCEPT !.session = r, !.phase = "starting", !.held = TRUE, !.starting = TRUE]
<1>1. PICK c \in Links : /\ hub' = [hub EXCEPT ![c] = new]
                         /\ app' = [a EXCEPT !.link = c]
                         /\ call' = [call EXCEPT !.at = "starting", !.room = r]
  BY DEF startRealtime
<1>2. /\ app'.link = c /\ call'.at = "starting"
      /\ hub'[c].attached = FALSE /\ hub'[c].inbox = << >>
      /\ \A d \in Links : d # c => hub'[d] = hub[d]
  BY <1>1 DEF Apps, Types, Calls, Hubs, NoLink
<1>3. LinksGoOn /\ ~ Hears(hub', app'.link)
  BY <1>2, DeafLinks
<1>4. AnswersReached'
  BY <1>2, SameServer, KeptAnswers DEF LatestInv, Idle, Answers
<1> QED
  BY <1>3, <1>4, SameServer, KeptLetters, KeptLatest DEF LatestInv, LinksGoOn

LEMMA ContinueLatest ==
  ASSUME Types, Types', HomeInv, LatestInv, Continue
  PROVE  LatestInv'
<1>0. /\ app \in Apps /\ call \in Calls /\ srv' = srv
      /\ gameCall' = gameCall \/ gameCall' = Idle
      /\ gameCall' = gameCall \/ gameCall'.ans \in Answers
  BY DEF Types, Continue, LobbyStays, Unmount, Idle, Answers
<1>1. CASE Entered
  <2> DEFINE a == ShowRoom(SaveSession(app, call.room), Snapshot(call.room, call.ans))
  <2>1. call.room \in Rooms /\ call.ans \in RoomRevisions
    BY <1>0, <1>1, RevisionTypes DEF Entered, Calls
  <2>2. a \in Apps /\ a.game = app.game
    <3>1. SaveSession(app, call.room) \in Apps /\ SaveSession(app, call.room).game = app.game
      BY <1>0, <2>1 DEF SaveSession, Apps
    <3> QED
      BY <2>1, <3>1, ShowRoomType DEF ShowRoom, Apps
  <2>3. startRealtime(a, call.room)
    BY <1>1 DEF Entered
  <2> HIDE DEF a
  <2>4. app'.game = app.game
    BY <2>2, <2>3 DEF startRealtime, Apps
  <2> QED
    BY <1>0, <2>1, <2>2, <2>3, <2>4, SameServer, KeptGame, StartedLatest DEF LatestInv
<1>2. CASE Restored \/ ReadySet \/ HasLeft
  <2>1. call'.at # "answered"
    <3>1. Idle.at # "answered" /\ \A r : Sent("restoreGame", r).at # "answered"
      BY DEF Sent, Idle
    <3>2. [call EXCEPT !.at = "stopping"].at # "answered"
      BY <1>0 DEF Calls
    <3> QED
      BY <1>2, <3>1, <3>2 DEF Restored, ReadySet, HasLeft
  <2>2. CASE hub' = hub
    <3>1. app' = Blank \/ (app'.game = app.game /\ app'.session = app.session /\ app'.link = app.link)
      BY <1>0, <1>2, <2>2 DEF Restored, ReadySet, HasLeft, ShowRoom, GoHome, Apps
    <3>2. app'.game \in {NoSnapshot, app.game}
      BY <3>1 DEF Blank
    <3>3. app'.link = None \/ /\ app'.link = app.link /\ app'.session = app.session
                              /\ app'.game = app.game
      BY <3>1 DEF Blank
    <3> QED
      BY <1>0, <2>1, <2>2, <3>2, <3>3, SameServer, SameHub, KeptAll
  <2>3. CASE MustStop /\ hub' = Stopping(hub, "leave") /\ app' = app
    <3>1. app.link \in Links /\ hub \in [Links -> LinkStates]
      BY <1>0, <2>3 DEF MustStop, Apps, Types, Hubs
    <3>2. \A c \in Links : /\ hub'[c].session = hub[c].session /\ hub'[c].attached = hub[c].attached
                           /\ hub'[c].inbox = hub[c].inbox
                           /\ hub'[c].phase = IF c = app.link THEN "stopping" ELSE hub[c].phase
      BY <2>3, <3>1 DEF Stopping, LinkStates
    <3>3. LinksGoOn
      BY <1>0, <3>2 DEF LinksGoOn, LinksHold, Hears
    <3>4. ~ Hears(hub', app'.link)
      BY <2>3, <3>1, <3>2 DEF Hears
    <3> QED
      BY <1>0, <2>1, <2>3, <3>3, <3>4, SameServer, KeptAll
  <2> QED
    BY <1>2, <2>2, <2>3 DEF Restored, ReadySet, HasLeft
<1>3. CASE RestoredGame
  <2>1. ~ AtHome /\ app.session = call.room /\ call.room \in Rooms /\ app.link = None
        /\ app.game = NoSnapshot
    BY <1>3 DEF RestoredGame, HomeInv, RestoringGameAlone, Asking
  <2>2. CASE call.ans = Refused
    <3>1. app' = [app EXCEPT !.session = None, !.stored = None] /\ hub' = hub /\ call'.at # "answered"
      BY <1>3, <2>2 DEF RestoredGame, Idle
    <3>2. app'.link = None /\ app'.game = app.game
      BY <1>0, <2>1, <3>1 DEF Apps
    <3> QED
      BY <1>0, <3>1, <3>2, SameServer, SameHub, KeptAll
  <2>3. CASE call.ans # Refused
    <3> DEFINE a == IF call.ans = Missing THEN app
                    ELSE acceptGameSnapshot(app, Snapshot(call.room, call.ans))
    <3>1. call.ans \in {Missing} \cup GameRevisions
      BY <1>0, <1>3, <2>3 DEF RestoredGame, Calls
    <3>2. a \in Apps
      BY <1>0, <2>1, <3>1, AcceptType
    <3>3. startRealtime(a, call.room)
      BY <1>3, <2>3 DEF RestoredGame
    <3>4. a.game = app.game \/ (a.game = Snapshot(call.room, call.ans) /\ call.ans # Missing)
      BY <1>0 DEF acceptGameSnapshot, Apps
    <3> HIDE DEF a
    <3>5. app'.game = a.game
      BY <3>2, <3>3 DEF startRealtime, Apps
    <3>6. ShownReached'
      <4>1. CASE a.game = app.game
        BY <1>0, <3>5, <4>1, SameServer, KeptGame DEF LatestInv
      <4>2. CASE a.game = Snapshot(call.room, call.ans) /\ call.ans # Missing
        <5>1. call.ans \notin Answers
          BY <3>1, <4>2, RevisionTypes
        <5>2. Reached(srv, call.room, call.ans)
          BY <1>3, <5>1 DEF LatestInv, AnswersReached, RestoredGame
        <5> QED
          BY <1>0, <3>5, <4>2, <5>2 DEF ShownReached, Snapshot
      <4> QED
        BY <3>4, <4>1, <4>2
    <3> QED
      BY <1>0, <2>1, <3>2, <3>3, <3>6, StartedLatest
  <2> QED
    BY <2>2, <2>3
<1> QED
  BY <1>1, <1>2, <1>3 DEF Continue

LEMMA StartGameCallLatest ==
  ASSUME Types, Types', LatestInv, StartGameCall
  PROVE  LatestInv'
<1>1. srv' = srv /\ hub' = hub /\ app' = app /\ call' = call /\ gameCall'.ans \in Answers
  BY DEF StartGameCall, GameUnchanged, Sent, Idle, Intent, Answers
<1> QED
  BY <1>1, SameServer, SameHub, KeptAll

LEMMA ServeGameCallLatest ==
  ASSUME Types, Types', HomeInv, LatestInv, ServeGameCall
  PROVE  LatestInv'
<1> DEFINE r == gameCall.room
<1>1. app' = app /\ call' = call /\ gameCall \in GameCalls /\ r \in Rooms \cup {None}
  BY DEF ServeGameCall, Types, GameCalls
<1>2. ASSUME NEW rev, GameAnswered(rev) PROVE gameCall'.room = r /\ gameCall'.ans = rev
  BY <1>1, <1>2 DEF GameAnswered, GameCalls
<1>3. CASE UNCHANGED <<srv, hub>>
           /\ (GameAnswered(Refused) \/ GameAnswered(Conflict)
                \/ (Valid(r) /\ GameAnswered(srv[r].game)))
  <2>1. AnswersReached'
    <3>1. gameCall'.ans \in Answers \/ Reached(srv', gameCall'.room, gameCall'.ans)
      <4>1. CASE GameAnswered(Refused) \/ GameAnswered(Conflict)
        BY <1>2, <4>1 DEF Answers
      <4>2. CASE Valid(r) /\ GameAnswered(srv[r].game)
        <5>1. r \in Rooms /\ srv[r].game \in Nat
          BY <1>1, <4>2, ValidRoom, RevisionAssumption DEF Types, Srvs, RoomStates
        <5> QED
          BY <1>2, <1>3, <4>2, <5>1 DEF Reached
      <4> QED
        BY <1>3, <4>1, <4>2
    <3> QED
      BY <1>1, <1>3, <3>1 DEF LatestInv, AnswersReached
  <2> QED
    BY <1>1, <1>3, <2>1, SameServer, SameHub, KeptGame, KeptLetters, KeptLatest
       DEF LatestInv, LinksGoOn
<1>4. CASE Valid(r) /\ ChangeGame(r) /\ GameAnswered(srv[r].game + 1)
  <2>1. r \in Rooms /\ srv[r].used
    BY <1>1, <1>4, ValidRoom
  <2>2. GamesGrow /\ srv'[r].game = srv[r].game + 1
    BY <1>4, <2>1, ChangeGameGoesOn
  <2>3. Reached(srv', gameCall'.room, gameCall'.ans)
    <3>1. srv[r].game \in Nat
      BY <2>1, RevisionAssumption DEF Types, Srvs, RoomStates
    <3> QED
      BY <1>2, <1>4, <2>2, <3>1 DEF Reached
  <2>4. AnswersReached'
    <3>1. AnswersReached' \/ gameCall'.ans \notin Answers
      BY <1>1, <2>2, KeptAnswers DEF LatestInv
    <3>2. call.op = "restoreGame" /\ call.at = "answered" /\ call.ans \notin Answers =>
            Reached(srv', call.room, call.ans)
      <4>1. ASSUME call.op = "restoreGame", call.at = "answered", call.ans \notin Answers
            PROVE  call.room \in Rooms /\ call.ans \in GameRevisions
        BY <4>1 DEF Types, Calls, Answers
      <4> QED
        BY <2>2, <4>1, GrowReached, RevisionTypes DEF LatestInv, AnswersReached
    <3> QED
      BY <1>1, <2>3, <3>2 DEF AnswersReached
  <2> QED
    BY <1>1, <1>4, <2>1, <2>4, ServerLatest
<1> QED
  BY <1>3, <1>4 DEF ServeGameCall

LEMMA ContinueGameCallLatest ==
  ASSUME Types, Types', HomeInv, LatestInv, ContinueGameCall
  PROVE  LatestInv'
<1>1. srv' = srv /\ hub' = hub /\ call' = call /\ gameCall \in GameCalls
  BY DEF ContinueGameCall, Types
<1>2. gameCall'.ans \in Answers
  <2>1. Idle.ans = Missing /\ [gameCall EXCEPT !.op = "refresh", !.at = "sent", !.ans = Missing].ans = Missing
    BY <1>1 DEF GameCalls, Idle
  <2>2. gameCall'.ans = Missing
    BY <2>1 DEF ContinueGameCall
  <2> QED
    BY <2>2 DEF Answers
<1>3. CASE app' = app
  BY <1>1, <1>2, <1>3, SameServer, SameHub, KeptAll
<1>4. CASE gameCall.ans \notin Answers
           /\ app' = acceptGameSnapshot(app, Snapshot(gameCall.room, gameCall.ans))
  <2>1. gameCall.ans \in GameRevisions /\ gameCall.room \in Rooms
    BY <1>1, <1>4 DEF GameCalls
  <2>2. Reached(srv, gameCall.room, gameCall.ans)
    BY <1>4 DEF LatestInv, AnswersReached
  <2>3. ShownReached' /\ LatestOnItsWay'
    BY <1>1, <1>4, <2>1, <2>2, AcceptedLatest
  <2> QED
    BY <1>1, <1>2, <2>3, SameServer, SameHub, KeptAnswers, KeptLetters DEF LatestInv, LinksGoOn
<1> QED
  BY <1>3, <1>4 DEF ContinueGameCall

LEMMA GameCallFailsLatest ==
  ASSUME Types, Types', LatestInv, GameCallFails
  PROVE  LatestInv'
<1>1. srv' = srv /\ hub' = hub /\ app' = app /\ call' = call /\ gameCall'.ans \in Answers
  BY DEF GameCallFails, GameUnchanged, Idle, Answers
<1> QED
  BY <1>1, SameServer, SameHub, KeptAll

(* The panel shows rooms, and changes them.                                  *)
LEMMA PanelLatest ==
  ASSUME Types, Types', HomeInv, LatestInv,
         StartPanelCall \/ ServePanelCall \/ ContinuePanelCall \/ PanelCallFails
  PROVE  LatestInv'
<1> DEFINE r == panelCall.room
<1>1. call' = call /\ gameCall' = gameCall
  BY DEF StartPanelCall, ServePanelCall, ContinuePanelCall, PanelCallFails
<1>2. /\ app'.game = app.game /\ app'.session = app.session /\ app'.link = app.link
      /\ srv' # srv \/ hub' # hub => app' = app
  BY DEF StartPanelCall, ServePanelCall, ContinuePanelCall, PanelCallFails, ShowRoom, Types, Apps
<1>3. CASE srv' = srv /\ hub' = hub
  BY <1>1, <1>2, <1>3, SameServer, SameHub, KeptAll
<1>4. CASE app' = app /\ Valid(r) /\ ChangeRoom(r)
  <2>1. r \in Rooms
    BY <1>4, ValidRoom DEF Types, PanelCalls
  <2>2. AnswersReached'
    BY <1>1, <1>4, <2>1, ServerGrows, KeptAnswers DEF LatestInv
  <2> QED
    BY <1>4, <2>1, <2>2, ServerLatest
<1> QED
  BY <1>3, <1>4 DEF StartPanelCall, ServePanelCall, ContinuePanelCall, PanelCallFails

(* A connection starts, or loses its transport: nothing was attached, or     *)
(* nothing is any more.                                                      *)
LEMMA LinkChangesLatest ==
  ASSUME Types, Types', LatestInv, NEW c \in Links, Started(c) \/ Lost(c) \/ Reconnected(c)
  PROVE  LatestInv'
<1>1. hub \in [Links -> LinkStates] /\ hub[c] \in LinkStates
  BY DEF Types, Hubs
<1>2. ASSUME NEW new, hub' = [hub EXCEPT ![c] = new], new.attached = FALSE,
             new.inbox \in {<< >>, hub[c].inbox}
      PROVE  LinksGoOn /\ (app.link = c => ~ Hears(hub', app.link))
  <2>1. /\ hub'[c] = new /\ \A d \in Links : d # c => hub'[d] = hub[d]
        /\ srv' = srv
    BY <1>1, <1>2 DEF Started, Lost, Reconnected
  <2>2. Held(new.inbox) \subseteq Held(hub[c].inbox)
    BY <1>2, HeldNone
  <2> QED
    BY <1>2, <2>1, <2>2 DEF LinksGoOn, LinksHold, Hears
<1>3. LinksGoOn /\ (app.link = c => ~ Hears(hub', app.link))
  <2>1. CASE Started(c) \/ Reconnected(c)
    <3> DEFINE up == [hub[c] EXCEPT !.phase = "up", !.asked = "sent"]
               failed == [hub[c] EXCEPT !.phase = "closed", !.starting = FALSE]
               closed == [hub[c] EXCEPT !.phase = "closed"]
    <3>1. hub[c].attached = FALSE
      BY <1>1, <2>1 DEF Started, Reconnected, LatestInv, AttachedToOpen, LinkStates
    <3>2. /\ up.attached = FALSE /\ failed.attached = FALSE /\ closed.attached = FALSE
          /\ up.inbox = hub[c].inbox /\ failed.inbox = hub[c].inbox /\ closed.inbox = hub[c].inbox
      BY <1>1, <3>1 DEF LinkStates
    <3>3. \/ hub' = [hub EXCEPT ![c] = up] \/ hub' = [hub EXCEPT ![c] = failed]
          \/ hub' = [hub EXCEPT ![c] = closed]
      BY <1>1, <2>1 DEF Started, Reconnected
    <3> HIDE DEF up, failed, closed
    <3> QED
      BY <1>2, <3>2, <3>3
  <2>2. CASE Lost(c)
    <3>1. Dropped(hub[c]).attached = FALSE /\ Dropped(hub[c]).inbox = << >>
      BY <1>1 DEF Dropped, LinkStates
    <3> QED
      BY <1>2, <2>2, <3>1 DEF Lost
  <2> QED
    BY <2>1, <2>2
<1>4. /\ srv' = srv /\ app' = app /\ gameCall' = gameCall
      /\ call' = call \/ call'.at # "answered"
  BY DEF Started, Lost, Reconnected, LobbyUnchanged, AttachEnds, Idle
<1> QED
  BY <1>3, <1>4, SameServer, KeptAll

LEMMA StoppedLatest ==
  ASSUME Types, Types', LatestInv, NEW c \in Links, Stopped(c)
  PROVE  LatestInv'
<1>1. /\ srv' = srv /\ app'.link = None /\ app'.game = NoSnapshot
      /\ call' = call \/ call'.at # "answered"
      /\ gameCall'.ans \in Answers
  BY DEF Stopped, GoHome, Blank, AttachEnds, Idle, LobbyStays, Unmount, Answers
<1>2. hub'[c].attached = FALSE /\ hub'[c].inbox = << >>
      /\ \A d \in Links : d # c => hub'[d] = hub[d]
  BY DEF Stopped, NoLink, Types, Hubs
<1>3. LinksGoOn
  BY <1>1, <1>2, DeafLinks
<1> QED
  BY <1>1, <1>3, SameServer, KeptAll

LEMMA TableActsLatest ==
  ASSUME Types, Types', HomeInv, LatestInv, TableActs
  PROVE  LatestInv'
<1>1. PICK r \in Rooms : SomebodyActs(r)
  BY DEF TableActs
<1>2. app' = app /\ call' = call /\ gameCall' = gameCall
  BY DEF TableActs, LobbyUnchanged
<1>3. AnswersReached'
  BY <1>1, <1>2, ServerGrows, KeptAnswers DEF LatestInv, SomebodyActs
<1> QED
  BY <1>1, <1>2, <1>3, ServerLatest DEF SomebodyActs

(* The rooms of a server that is started again are gone.                     *)
LEMMA ServerRestartsLatest ==
  ASSUME Types, Types', LatestInv, ServerRestarts
  PROVE  LatestInv'
<1>1. /\ app' = app /\ gameCall' = gameCall
      /\ call' = call \/ call'.at # "answered"
  BY DEF ServerRestarts, LobbyUnchanged, Idle
<1>2. GamesGrow
  <2>1. \A r \in Rooms : srv'[r].used = srv[r].used /\ srv'[r].open = FALSE /\ srv'[r].game = 0
    BY DEF ServerRestarts, NewRoom
  <2>2. \A r \in Rooms : /\ ~ srv[r].used => srv[r].game = 0
                         /\ srv[r].used \in BOOLEAN
    BY DEF Types, Srvs, RoomStates
  <2> QED
    BY <2>1, <2>2 DEF GamesGrow, Gone
<1>3. ASSUME NEW c \in Links
      PROVE  /\ ~ Hears(hub', c)
             /\ hub'[c].attached => /\ hub[c].attached /\ hub'[c].session = hub[c].session
                                    /\ hub'[c].phase = hub[c].phase
             /\ Held(hub'[c].inbox) \subseteq Held(hub[c].inbox)
  <2>1. CASE hub[c].phase = "up"
    <3>1. hub'[c] = Dropped(hub[c]) /\ hub[c] \in LinkStates
      BY <2>1 DEF ServerRestarts, Types, Hubs
    <3>2. hub'[c].attached = FALSE /\ hub'[c].inbox = << >>
      BY <3>1 DEF Dropped, LinkStates
    <3> QED
      BY <3>2, HeldNone DEF Hears
  <2>2. CASE hub[c].phase # "up"
    <3>1. hub'[c] = hub[c]
      BY <2>2 DEF ServerRestarts
    <3> QED
      BY <2>2, <3>1 DEF Hears
  <2> QED
    BY <2>1, <2>2
<1>4. LinksGoOn
  BY <1>3 DEF LinksGoOn, LinksHold
<1>5. app'.link = None \/ ~ Hears(hub', app'.link)
  BY <1>1, <1>3 DEF Types, Apps
<1> QED
  BY <1>1, <1>2, <1>4, <1>5, KeptAll

(* What is left at a connection after its first message has been taken.      *)
LEMMA ReadHolds ==
  ASSUME Types, NEW c \in Links, hub[c].inbox # << >>, NEW d \in Links
  PROVE  /\ Read(c)[d].session = hub[d].session /\ Read(c)[d].phase = hub[d].phase
         /\ Read(c)[d].attached = hub[d].attached
         /\ Held(Read(c)[d].inbox) \subseteq Held(hub[d].inbox)
         /\ Held(hub[d].inbox) \subseteq Held(Read(c)[d].inbox) \cup
              (IF d = c THEN {Head(hub[c].inbox)} ELSE {})
<1> DEFINE box == hub[c].inbox
           rest == Tail(box)
           m == Head(box)
<1>1. hub \in [Links -> LinkStates] /\ box \in Seq(Letters)
      /\ Read(c) = [hub EXCEPT ![c] = [hub[c] EXCEPT !.inbox = rest]]
  BY ReadType DEF Types, Hubs, LinkStates
<1>2. Held(box) = {m} \cup Held(rest)
  BY <1>1, HeldTail
<1> HIDE DEF m, rest
<1>3. /\ Read(c)[d].session = hub[d].session /\ Read(c)[d].phase = hub[d].phase
      /\ Read(c)[d].attached = hub[d].attached
      /\ Read(c)[d].inbox = IF d = c THEN rest ELSE hub[d].inbox
  <2>1. hub[d] \in LinkStates /\ hub[c] \in LinkStates
    BY <1>1
  <2> QED
    BY <1>1, <2>1 DEF LinkStates
<1> QED
  BY <1>2, <1>3 DEF m

LEMMA DeliverLatest ==
  ASSUME Types, Types', HomeInv, LatestInv, NEW c \in Links, Deliver(c)
  PROVE  LatestInv'
<1> DEFINE m == Head(hub[c].inbox)
<1>1. /\ hub[c].inbox # << >> /\ srv' = srv /\ app \in Apps /\ hub \in [Links -> LinkStates]
      /\ call' = call \/ call'.at # "answered"
      /\ gameCall' = gameCall \/ gameCall'.ans \in Answers
  BY DEF Deliver, Types, Hubs, AttachEnds, Idle, LobbyStays, Unmount, Answers
<1>2. m \in Letters /\ Read(c) \in [Links -> LinkStates] /\ m \in Held(hub[c].inbox)
  <2>1. hub[c].inbox \in Seq(Letters)
    BY <1>1 DEF LinkStates
  <2> QED
    BY <1>1, <2>1, ReadType, HeldTail DEF Hubs
<1>3. ASSUME NEW d \in Links
      PROVE  /\ Read(c)[d].session = hub[d].session /\ Read(c)[d].phase = hub[d].phase
             /\ Read(c)[d].attached = hub[d].attached
             /\ Held(Read(c)[d].inbox) \subseteq Held(hub[d].inbox)
             /\ Held(hub[d].inbox) \subseteq Held(Read(c)[d].inbox) \cup {m}
  BY <1>1, ReadHolds
<1>4. /\ m.kind \in {"room", "game", "attached", "closed"} /\ m.id \in Rooms
      /\ m.kind = "game" => m.rev \in GameRevisions /\ m = News("game", m.id, m.rev)
  BY <1>2, LetterTypes DEF News
<1>5. m.kind = "game" => Reached(srv, m.id, m.rev)
  BY <1>2 DEF LatestInv, LettersReached
<1> HIDE DEF m
<1>6. ASSUME \A d \in Links : /\ hub'[d].session = Read(c)[d].session
                              /\ hub'[d].phase \in {Read(c)[d].phase, "stopping"}
                              /\ hub'[d].attached = Read(c)[d].attached
                              /\ hub'[d].inbox = Read(c)[d].inbox
      PROVE  /\ LinksHold
             /\ \A d \in Links : Hears(hub', d) =>
                  Hears(hub, d) /\ Held(hub[d].inbox) \subseteq Held(hub'[d].inbox) \cup {m}
  BY <1>1, <1>3, <1>6 DEF LinksHold, Hears
<1>7. ASSUME LinksHold PROVE LettersReached' /\ AttachedToOpen' /\ AnswersReached'
  BY <1>1, <1>7, SameServer, KeptLetters, KeptAnswers DEF LatestInv
<1>8. ASSUME LinksHold, m.kind # "game",
             \A d \in Links : Hears(hub', d) =>
                  Hears(hub, d) /\ Held(hub[d].inbox) \subseteq Held(hub'[d].inbox) \cup {m},
             \/ app'.link = None /\ app'.game = NoSnapshot
             \/ app'.link = app.link /\ app'.session = app.session /\ app'.game = app.game
      PROVE  LatestInv'
  <2>1. ShownReached'
    BY <1>1, <1>8, SameServer, KeptGame DEF LatestInv
  <2>2. LatestOnItsWay'
    <3>1. CASE app'.link = app.link /\ app'.session = app.session /\ app'.game = app.game
      <4>1. app.link # None => app.link \in Links
        BY <1>1 DEF Apps
      <4>2. LatestNews' = LatestNews /\ LatestNews.kind = "game"
        BY <1>1, <3>1 DEF LatestNews, News
      <4> QED
        BY <1>1, <1>8, <3>1, <4>1, <4>2 DEF LatestInv, LatestOnItsWay
    <3> QED
      BY <1>8, <3>1 DEF LatestOnItsWay
  <2> QED
    BY <1>7, <1>8, <2>1, <2>2 DEF LatestInv
<1>9. CASE m.kind = "room" /\ hub' = Read(c) /\ app' = ShowRoom(app, Snapshot(m.id, m.rev))
  <2>1. app'.link = app.link /\ app'.session = app.session /\ app'.game = app.game
    BY <1>1, <1>9 DEF ShowRoom, Apps
  <2> QED
    BY <1>6, <1>8, <1>9, <2>1
<1>10. CASE m.kind = "game" /\ hub' = Read(c) /\ app' = acceptGameSnapshot(app, Snapshot(m.id, m.rev))
  <2>1. LinksHold /\ \A d \in Links : Hears(hub', d) =>
                  Hears(hub, d) /\ Held(hub[d].inbox) \subseteq Held(hub'[d].inbox) \cup {m}
    BY <1>6, <1>10
  <2>2. ShownReached' /\ LatestOnItsWay'
    BY <1>1, <1>4, <1>5, <1>10, <2>1, AcceptedLatest
  <2> QED
    BY <1>7, <2>1, <2>2 DEF LatestInv
<1>11. CASE m.kind = "attached"
            /\ hub' = [Read(c) EXCEPT ![c].asked = "no", ![c].starting = FALSE]
            /\ app' = IF m.rev = Refused THEN app ELSE ShowRoom(app, Snapshot(m.id, m.rev))
  <2>1. app'.link = app.link /\ app'.session = app.session /\ app'.game = app.game
    BY <1>1, <1>11 DEF ShowRoom, Apps
  <2>2. \A d \in Links : /\ hub'[d].session = Read(c)[d].session /\ hub'[d].phase = Read(c)[d].phase
                         /\ hub'[d].attached = Read(c)[d].attached
                         /\ hub'[d].inbox = Read(c)[d].inbox
    <3>1. Read(c)[c] \in LinkStates
      BY <1>2
    <3> QED
      BY <1>2, <1>11, <3>1 DEF LinkStates
  <2>3. LinksHold /\ \A d \in Links : Hears(hub', d) =>
                  Hears(hub, d) /\ Held(hub[d].inbox) \subseteq Held(hub'[d].inbox) \cup {m}
    BY <1>6, <2>2
  <2> QED
    BY <1>8, <1>11, <2>1, <2>3
<1>12. CASE m.kind = "closed" /\ handleRoomClosed(Read(c))
  <2>1. CASE MustStop
    <3>1. app.link \in Links /\ app' = app /\ hub' = Stopping(Read(c), "closed")
      BY <1>1, <1>12, <2>1 DEF MustStop, Apps, handleRoomClosed
    <3>2. \A d \in Links : /\ hub'[d].session = Read(c)[d].session
                           /\ hub'[d].phase \in {Read(c)[d].phase, "stopping"}
                           /\ hub'[d].attached = Read(c)[d].attached
                           /\ hub'[d].inbox = Read(c)[d].inbox
      <4>1. Read(c)[app.link] \in LinkStates
        BY <1>2, <3>1
      <4> QED
        BY <1>2, <3>1, <4>1 DEF Stopping, LinkStates
    <3>3. LinksHold /\ \A d \in Links : Hears(hub', d) =>
                    Hears(hub, d) /\ Held(hub[d].inbox) \subseteq Held(hub'[d].inbox) \cup {m}
      BY <1>6, <3>2
    <3> QED
      BY <1>8, <1>12, <3>1, <3>3
  <2>2. CASE ~ MustStop
    <3>1. hub' = Read(c) /\ app'.link = None /\ app'.game = NoSnapshot
      BY <1>12, <2>2 DEF handleRoomClosed, GoHome, Blank
    <3> QED
      BY <1>6, <1>8, <1>12, <3>1
  <2> QED
    BY <2>1, <2>2
<1> QED
  BY <1>4, <1>9, <1>10, <1>11, <1>12 DEF Deliver, Read, m

LEMMA NextLatest ==
  ASSUME Types, Types', HomeInv, LatestInv, [Next]_vars
  PROVE  LatestInv'
<1>1. CASE UNCHANGED vars
  BY <1>1, SameServer, SameHub, KeptAll DEF vars
<1>2. CASE Next
  BY <1>2, ReloadLatest, EnterLatest, AskLatest, ServeEnterLatest, ServeCallLatest,
     ContinueLatest, CallFailsLatest, StartGameCallLatest, ServeGameCallLatest,
     ContinueGameCallLatest, GameCallFailsLatest, PanelLatest, LinkChangesLatest, StoppedLatest,
     DeliverLatest, AttachLatest, TableActsLatest, ServerRestartsLatest DEF Next
<1> QED
  BY <1>1, <1>2

LEMMA LatestHolds == Spec => []LatestInv
<1>1. Init => LatestInv
  BY InitLatest
<1>2. Types /\ Types' /\ HomeInv /\ LatestInv /\ [Next]_vars => LatestInv'
  BY NextLatest
<1> QED
  BY <1>1, <1>2, TypesHold, HomeHolds, PTL DEF Spec

(* An attached client that has read its messages shows the latest game, also *)
(* when it was attached anew after a loss and while requests are under way   *)
(* (RoomHub.cs:89-92, gameSnapshot.ts:3-9): the latest game is shown or on   *)
(* its way, and what is shown never runs ahead of the server, so that the    *)
(* message that brings the latest is accepted.                               *)
THEOREM LatestIsShown == Spec => []ShownGameIsLatest
<1>1. ASSUME Types, LatestInv PROVE ShownGameIsLatest
  <2>1. SUFFICES ASSUME NEW c \in Links, HearsEverything(c), srv[app.session].game > 0
                 PROVE  app.game = Snapshot(app.session, srv[app.session].game)
    BY DEF ShownGameIsLatest
  <2>2. app.link # None /\ Hears(hub, app.link) /\ Held(hub[app.link].inbox) = {}
    BY <2>1, NoneAssumption, HeldNone DEF HearsEverything, Hears
  <2> QED
    BY <1>1, <2>1, <2>2 DEF LatestInv, LatestOnItsWay
<1> QED
  BY <1>1, TypesHold, LatestHolds, PTL

-----------------------------------------------------------------------------
(* A refused choice is overtaken. *)

LEMMA NextGrows ==
  ASSUME Types, [Next]_vars
  PROVE  GamesGrow
<1>1. CASE srv' = srv
  BY <1>1, SameServer
<1>2. ASSUME NEW r \in Rooms \cup {None}, Valid(r),
             ChangeRoom(r) \/ ChangeGame(r) \/ CloseRoom(r) \/ LoseMember(r)
      PROVE  GamesGrow
  BY <1>2, ValidRoom, ServerGrows
<1>3. CASE ServeCall \/ ServeGameCall \/ ServePanelCall
  <2>1. /\ call.room \in Rooms \cup {None} /\ gameCall.room \in Rooms \cup {None}
        /\ panelCall.room \in Rooms \cup {None}
    BY DEF Types, Calls, GameCalls, PanelCalls
  <2>2. CASE ServeCall
    BY <1>1, <1>2, <2>1, <2>2 DEF ServeCall
  <2>3. CASE ServeGameCall
    BY <1>1, <1>2, <2>1, <2>3 DEF ServeGameCall
  <2>4. CASE ServePanelCall
    BY <1>1, <1>2, <2>1, <2>4 DEF ServePanelCall
  <2> QED
    BY <1>3, <2>2, <2>3, <2>4
<1>4. CASE TableActs
  BY <1>2, <1>4 DEF TableActs, SomebodyActs
<1>5. CASE ServeEnter
  <2>1. PICK r \in Rooms :
          /\ ~ srv[r].used
          /\ srv' = [srv EXCEPT ![r] = [open |-> TRUE, used |-> TRUE, member |-> TRUE,
                                        host |-> call.op = "create", rev |-> 1, game |-> 0]]
    BY <1>5 DEF ServeEnter
  <2>2. /\ srv[r].game = 0 /\ srv'[r].game = 0 /\ \A q \in Rooms : q # r => srv'[q] = srv[q]
        /\ \A q \in Rooms : srv[q].game \in Nat
    BY <2>1, RevisionAssumption DEF Types, Srvs, RoomStates
  <2> QED
    BY <2>1, <2>2 DEF GamesGrow, Gone
<1>6. CASE ServerRestarts
  <2>1. \A r \in Rooms : srv'[r].used = srv[r].used /\ srv'[r].open = FALSE /\ srv'[r].game = 0
    BY <1>6 DEF ServerRestarts, NewRoom
  <2>2. \A r \in Rooms : /\ ~ srv[r].used => srv[r].game = 0
                         /\ srv[r].used \in BOOLEAN
    BY DEF Types, Srvs, RoomStates
  <2> QED
    BY <2>1, <2>2 DEF GamesGrow, Gone
<1>7. ASSUME NEW c \in Links, Attach(c)
      PROVE  GamesGrow
  <2>1. \A q \in Rooms : srv[q].game \in Nat
    BY RevisionAssumption DEF Types, Srvs, RoomStates
  <2>2. CASE ServeAttach(c) /\ Valid(hub[c].session)
    <3>1. \A q \in Rooms : /\ srv'[q].open = srv[q].open /\ srv'[q].used = srv[q].used
                           /\ srv'[q].game = srv[q].game
      BY <2>2, ServeAttachHolds
    <3> QED
      BY <2>1, <3>1 DEF GamesGrow, Gone
  <2> QED
    BY <1>1, <1>7, <2>2 DEF Attach, ServeAttach, WriteAttachResult
<1>8. \/ srv' = srv \/ ServeCall \/ ServeGameCall \/ ServePanelCall \/ TableActs \/ ServeEnter
      \/ ServerRestarts \/ \E c \in Links : Attach(c)
  BY DEF Next, vars, Reload, Enter, Ask, Continue, CallFails, StartGameCall, GameUnchanged,
     ContinueGameCall, GameCallFails, StartPanelCall, ContinuePanelCall, PanelCallFails, Started,
     Lost, Reconnected, Stopped, Deliver
<1> QED
  BY <1>1, <1>3, <1>4, <1>5, <1>6, <1>7, <1>8

(* An intent is chosen on a game the server has reached; when the server     *)
(* refuses it for its revision, the game has gone on, and so it has when the *)
(* lobby fetches it.                                                         *)
IntentOfReached ==
  gameCall.op = "intent" /\ gameCall.room # None => Reached(srv, gameCall.room, gameCall.based)

RefusedIsOvertaken ==
  (gameCall.op = "intent" /\ gameCall.ans = Conflict) \/ gameCall.op = "refresh"
    => gameCall.room \in Rooms /\ Overtaken(srv, gameCall.room, gameCall.based)

RefreshBringsLater ==
  gameCall.op = "refresh" /\ gameCall.ans \notin Answers => gameCall.ans > gameCall.based

ChoiceInv ==
  RefusedChoiceIsReplaced /\ IntentOfReached /\ RefusedIsOvertaken /\ RefreshBringsLater

LEMMA RevisionOf ==
  ASSUME NEW snapshot \in GameSnapshots
  PROVE  snapshot.rev \in Nat /\ (snapshot.rev > 0 => snapshot # NoSnapshot)
<1>1. CASE snapshot = NoSnapshot
  BY <1>1 DEF NoSnapshot
<1>2. CASE snapshot \in [id : Rooms, rev : GameRevisions]
  <2>1. snapshot.rev \in GameRevisions /\ NoSnapshot.rev = 0
    BY <1>2 DEF NoSnapshot
  <2>2. snapshot.rev \in Nat /\ snapshot.rev # 0
    BY <2>1, RevisionTypes
  <2> QED
    BY <2>1, <2>2
<1> QED
  BY <1>1, <1>2 DEF GameSnapshots

LEMMA ShownRevision ==
  ASSUME Types
  PROVE  app.game.rev \in Nat /\ chooseAgain \in Nat /\ (app.game.rev > 0 => app.game # NoSnapshot)
<1>1. app.game \in GameSnapshots /\ chooseAgain \in 0..MaxGameRevision
  BY DEF Types, Apps
<1> QED
  BY <1>1, RevisionOf, RevisionAssumption

LEMMA InitChoice == ASSUME Init PROVE ChoiceInv
  BY DEF Init, ChoiceInv, RefusedChoiceIsReplaced, IntentOfReached, RefusedIsOvertaken,
     RefreshBringsLater, Idle

LEMMA IdleChoice ==
  ASSUME gameCall' = Idle
  PROVE  IntentOfReached' /\ RefusedIsOvertaken' /\ RefreshBringsLater'
  BY DEF IntentOfReached, RefusedIsOvertaken, RefreshBringsLater, Idle

LEMMA SameChoice ==
  ASSUME Types, Types', GamesGrow, gameCall' = gameCall,
         IntentOfReached, RefusedIsOvertaken, RefreshBringsLater
  PROVE  IntentOfReached' /\ RefusedIsOvertaken' /\ RefreshBringsLater'
<1>1. gameCall.room \in Rooms \cup {None} /\ gameCall.based \in 0..MaxGameRevision
  BY DEF Types, GameCalls
<1>2. gameCall.room \in Rooms =>
        /\ Reached(srv, gameCall.room, gameCall.based) => Reached(srv', gameCall.room, gameCall.based)
        /\ Overtaken(srv, gameCall.room, gameCall.based)
             => Overtaken(srv', gameCall.room, gameCall.based)
  BY <1>1, GrowReached
<1> QED
  BY <1>1, <1>2 DEF IntentOfReached, RefusedIsOvertaken, RefreshBringsLater

(* The game shown never goes back while a refused choice is reported.        *)
LEMMA ReportStays ==
  ASSUME Types, Types', RefusedChoiceIsReplaced,
         chooseAgain' = 0 \/ (chooseAgain' = chooseAgain /\ app'.game.rev >= app.game.rev)
  PROVE  RefusedChoiceIsReplaced'
<1>1. app.game.rev \in Nat /\ chooseAgain \in Nat
  BY ShownRevision
<1>2. app'.game.rev \in Nat
  BY RevisionOf DEF Types, Apps
<1> QED
  BY <1>1, <1>2 DEF RefusedChoiceIsReplaced

(* What an accepted game leaves shown.                                       *)
LEMMA AcceptedRevision ==
  ASSUME Types, NEW r \in Rooms, NEW rev \in GameRevisions
  PROVE  /\ acceptGameSnapshot(app, Snapshot(r, rev)).game.rev >= app.game.rev
         /\ r = app.session => acceptGameSnapshot(app, Snapshot(r, rev)).game.rev >= rev
<1> DEFINE next == acceptGameSnapshot(app, Snapshot(r, rev))
<1>1. app.game.rev \in Nat /\ (app.game = NoSnapshot => app.game.rev = 0) /\ rev \in Nat
  BY ShownRevision, RevisionTypes DEF NoSnapshot
<1>2. CASE app.session # None /\ r = app.session /\ (app.game = NoSnapshot \/ rev >= app.game.rev)
  <2>1. next.game.rev = rev
    BY <1>2 DEF acceptGameSnapshot, shouldAcceptGameSnapshot, Snapshot, Types, Apps
  <2> QED
    BY <1>1, <1>2, <2>1
<1>3. CASE ~ (app.session # None /\ r = app.session /\ (app.game = NoSnapshot \/ rev >= app.game.rev))
  <2>1. next = app
    BY <1>3 DEF acceptGameSnapshot, shouldAcceptGameSnapshot, Snapshot
  <2> QED
    BY <1>1, <1>3, <2>1, NoneAssumption
<1> QED
  BY <1>2, <1>3

(* A step that leaves the lobby's handler alone, or ends it.                 *)
LEMMA OtherChoice ==
  ASSUME Types, Types', ChoiceInv, GamesGrow, gameCall' \in {gameCall, Idle},
         chooseAgain' = 0 \/ (chooseAgain' = chooseAgain /\ app'.game.rev >= app.game.rev)
  PROVE  ChoiceInv'
<1>1. RefusedChoiceIsReplaced'
  BY ReportStays DEF ChoiceInv
<1>2. IntentOfReached' /\ RefusedIsOvertaken' /\ RefreshBringsLater'
  BY SameChoice, IdleChoice DEF ChoiceInv
<1> QED
  BY <1>1, <1>2 DEF ChoiceInv

LEMMA LobbyStaysChoice ==
  ASSUME Types, Types', ChoiceInv, GamesGrow, LobbyStays \/ LobbyUnchanged,
         \/ LobbyStays /\ AtHome'
         \/ app'.game = app.game
         \/ app'.game.rev >= app.game.rev
  PROVE  ChoiceInv'
<1>1. gameCall' \in {gameCall, Idle} /\ chooseAgain' \in {0, chooseAgain}
      /\ (LobbyStays /\ AtHome' => chooseAgain' = 0)
  BY DEF LobbyStays, LobbyUnchanged, Unmount, AtHome
<1>2. app'.game = app.game => app'.game.rev >= app.game.rev
  BY ShownRevision
<1> QED
  BY <1>1, <1>2, OtherChoice

LEMMA ContinueChoice ==
  ASSUME Types, Types', HomeInv, ChoiceInv, GamesGrow, Continue
  PROVE  ChoiceInv'
<1>0. app \in Apps /\ call \in Calls /\ LobbyStays
  BY DEF Types, Continue
<1>1. ASSUME NEW a \in Apps, NEW r, startRealtime(a, r) PROVE app'.game = a.game
  BY <1>1 DEF startRealtime, Apps
<1>2. CASE Entered
  <2> DEFINE a == ShowRoom(SaveSession(app, call.room), Snapshot(call.room, call.ans))
  <2>1. call.room \in Rooms /\ call.ans \in RoomRevisions
    BY <1>0, <1>2, RevisionTypes DEF Entered, Calls
  <2>2. a \in Apps /\ a.game = app.game
    <3>1. SaveSession(app, call.room) \in Apps /\ SaveSession(app, call.room).game = app.game
      BY <1>0, <2>1 DEF SaveSession, Apps
    <3> QED
      BY <2>1, <3>1, ShowRoomType DEF ShowRoom, Apps
  <2>3. startRealtime(a, call.room)
    BY <1>2 DEF Entered
  <2> HIDE DEF a
  <2> QED
    BY <1>0, <1>1, <2>2, <2>3, LobbyStaysChoice
<1>3. CASE Restored \/ ReadySet \/ HasLeft
  <2>1. app' = Blank \/ app'.game = app.game
    BY <1>0, <1>3 DEF Restored, ReadySet, HasLeft, ShowRoom, GoHome, Apps
  <2>2. app' = Blank => AtHome'
    BY DEF Blank, AtHome
  <2> QED
    BY <1>0, <2>1, <2>2, LobbyStaysChoice
<1>4. CASE RestoredGame
  <2>1. CASE call.ans = Refused
    <3>1. app'.game = app.game
      BY <1>0, <1>4, <2>1 DEF RestoredGame, Apps
    <3> QED
      BY <1>0, <3>1, LobbyStaysChoice
  <2>2. CASE call.ans # Refused
    <3> DEFINE a == IF call.ans = Missing THEN app
                    ELSE acceptGameSnapshot(app, Snapshot(call.room, call.ans))
    <3>1. call.room \in Rooms /\ call.ans \in {Missing} \cup GameRevisions
      BY <1>0, <1>4, <2>2 DEF RestoredGame, Calls
    <3>2. a \in Apps
      BY <1>0, <3>1, AcceptType
    <3>3. a.game.rev >= app.game.rev
      BY <3>1, AcceptedRevision, ShownRevision
    <3>4. startRealtime(a, call.room)
      BY <1>4, <2>2 DEF RestoredGame
    <3> HIDE DEF a
    <3> QED
      BY <1>0, <1>1, <3>2, <3>3, <3>4, LobbyStaysChoice
  <2> QED
    BY <2>1, <2>2
<1> QED
  BY <1>2, <1>3, <1>4 DEF Continue

LEMMA DeliverChoice ==
  ASSUME Types, Types', HomeInv, ChoiceInv, GamesGrow, NEW c \in Links, Deliver(c)
  PROVE  ChoiceInv'
<1> DEFINE m == Head(hub[c].inbox)
<1>1. app \in Apps /\ LobbyStays /\ m \in Letters
  BY ReadType DEF Deliver, Types
<1>2. m.id \in Rooms /\ (m.kind = "game" => m.rev \in GameRevisions)
  BY <1>1, LetterTypes
<1> HIDE DEF m
<1>3. CASE m.kind = "game" /\ app' = acceptGameSnapshot(app, Snapshot(m.id, m.rev))
  BY <1>1, <1>2, <1>3, AcceptedRevision, LobbyStaysChoice
<1>4. CASE app' = app \/ app' = ShowRoom(app, Snapshot(m.id, m.rev))
  <2>1. app'.game = app.game
    BY <1>1, <1>4 DEF ShowRoom, Apps
  <2> QED
    BY <1>1, <2>1, LobbyStaysChoice
<1>5. CASE app' = GoHome
  <2>1. AtHome'
    BY <1>5 DEF GoHome, Blank, AtHome
  <2> QED
    BY <1>1, <2>1, LobbyStaysChoice
<1> QED
  BY <1>3, <1>4, <1>5 DEF Deliver, handleRoomClosed, m

(* The player acts, on the game shown.                                       *)
LEMMA StartGameCallChoice ==
  ASSUME Types, Types', HomeInv, LatestInv, ChoiceInv, StartGameCall
  PROVE  ChoiceInv'
<1>1. /\ srv' = srv /\ chooseAgain' = 0 /\ gameCall'.ans = Missing /\ gameCall'.op # "refresh"
      /\ gameCall'.op = "intent" => gameCall' = Intent /\ app.game # NoSnapshot
  BY DEF StartGameCall, GameUnchanged, Sent, Idle, Intent
<1>2. gameCall'.op = "intent" /\ gameCall'.room # None => Reached(srv, gameCall'.room, gameCall'.based)
  <2>1. Intent.room = RoomAsked /\ Intent.based = app.game.rev
    BY DEF Intent, Sent, Idle
  <2>2. RoomAsked # None /\ app.game # NoSnapshot => RoomAsked = app.game.id
    BY DEF RoomAsked, HomeInv, OwnRoomOnly, GameOfOwnRoom
  <2> QED
    BY <1>1, <2>1, <2>2 DEF LatestInv, ShownReached
<1>3. Missing # Conflict /\ Missing \in Answers
  BY DEF Missing, Conflict, Answers
<1> QED
  BY <1>1, <1>2, <1>3 DEF ChoiceInv, RefusedChoiceIsReplaced, IntentOfReached, RefusedIsOvertaken,
     RefreshBringsLater

LEMMA ServeGameCallChoice ==
  ASSUME Types, Types', ChoiceInv, GamesGrow, ServeGameCall
  PROVE  ChoiceInv'
<1> DEFINE r == gameCall.room
           b == gameCall.based
<1>1. /\ gameCall \in GameCalls /\ r \in Rooms \cup {None} /\ b \in 0..MaxGameRevision /\ b \in Nat
      /\ app' = app /\ chooseAgain' = chooseAgain
  BY RevisionAssumption DEF ServeGameCall, Types, GameCalls
<1>2. RefusedChoiceIsReplaced'
  BY <1>1 DEF ChoiceInv, RefusedChoiceIsReplaced
<1>3. PICK ans : /\ GameAnswered(ans)
                 /\ ans = Conflict => /\ gameCall.op = "intent" /\ Valid(r) /\ b # srv[r].game
                                      /\ srv' = srv
                 /\ gameCall.op = "refresh" => ans = Refused
                                               \/ (Valid(r) /\ ans = srv[r].game)
  <2>1. ASSUME NEW game \in Nat PROVE game # Conflict /\ game + 1 # Conflict
    BY <2>1 DEF Conflict
  <2>2. Valid(r) => srv[r].game \in Nat
    BY <1>1, ValidRoom, RevisionAssumption DEF Types, Srvs, RoomStates
  <2>3. Refused # Conflict
    BY DEF Refused, Conflict
  <2> QED
    BY <2>1, <2>2, <2>3 DEF ServeGameCall
<1>4. gameCall'.op = gameCall.op /\ gameCall'.room = r /\ gameCall'.based = b /\ gameCall'.ans = ans
  BY <1>1, <1>3 DEF GameAnswered, GameCalls
<1>5. r \in Rooms => /\ Reached(srv, r, b) => Reached(srv', r, b)
                     /\ Overtaken(srv, r, b) => Overtaken(srv', r, b)
  BY <1>1, GrowReached
<1>6. IntentOfReached'
  BY <1>1, <1>4, <1>5 DEF ChoiceInv, IntentOfReached
<1>7. RefusedIsOvertaken'
  <2>1. CASE gameCall.op = "intent" /\ ans = Conflict
    <3>1. r \in Rooms /\ srv[r].open /\ srv[r].game \in Nat
      BY <1>1, <1>3, <2>1, ValidRoom, RevisionAssumption DEF Types, Srvs, RoomStates
    <3>2. Reached(srv, r, b)
      BY <2>1, <3>1, NoneAssumption DEF ChoiceInv, IntentOfReached
    <3>3. Overtaken(srv', r, b)
      BY <1>1, <1>3, <2>1, <3>1, <3>2 DEF Reached, Overtaken, Gone
    <3> QED
      BY <1>4, <3>1, <3>3 DEF RefusedIsOvertaken
  <2>2. CASE gameCall.op = "refresh"
    BY <1>4, <1>5, <2>2 DEF ChoiceInv, RefusedIsOvertaken
  <2> QED
    BY <1>4, <2>1, <2>2 DEF RefusedIsOvertaken
<1>8. RefreshBringsLater'
  <2>1. SUFFICES ASSUME gameCall.op = "refresh", ans \notin Answers
                 PROVE  ans > b
    BY <1>4 DEF RefreshBringsLater
  <2>2. Valid(r) /\ ans = srv[r].game
    BY <1>3, <2>1 DEF Answers
  <2>3. r \in Rooms /\ srv[r].open /\ srv[r].game \in Nat
    BY <1>1, <2>2, ValidRoom, RevisionAssumption DEF Types, Srvs, RoomStates
  <2>4. Overtaken(srv, r, b)
    BY <2>1 DEF ChoiceInv, RefusedIsOvertaken
  <2> QED
    BY <1>1, <2>2, <2>3, <2>4 DEF Overtaken, Gone
<1> QED
  BY <1>2, <1>6, <1>7, <1>8 DEF ChoiceInv

LEMMA ContinueGameCallChoice ==
  ASSUME Types, Types', HomeInv, ChoiceInv, GamesGrow, ContinueGameCall
  PROVE  ChoiceInv'
<1> DEFINE r == gameCall.room
<1>1. gameCall \in GameCalls /\ srv' = srv /\ gameCall.based \in Nat /\ gameCall # Idle
  BY RevisionAssumption DEF ContinueGameCall, Types, GameCalls, Idle
<1>2. CASE gameCall.op = "intent" /\ gameCall.ans = Conflict
  <2>1. /\ gameCall' = [gameCall EXCEPT !.op = "refresh", !.at = "sent", !.ans = Missing]
        /\ app' = app /\ chooseAgain' = chooseAgain
    BY <1>2 DEF ContinueGameCall
  <2>2. /\ gameCall'.op = "refresh" /\ gameCall'.room = r /\ gameCall'.based = gameCall.based
        /\ gameCall'.ans = Missing
    BY <1>1, <2>1 DEF GameCalls
  <2>3. r \in Rooms /\ Overtaken(srv, r, gameCall.based)
    <3>1. RefusedIsOvertaken
      BY DEF ChoiceInv
    <3> QED
      BY <1>2, <3>1 DEF RefusedIsOvertaken
  <2>4. RefusedIsOvertaken'
    BY <1>1, <2>2, <2>3 DEF RefusedIsOvertaken
  <2>5. IntentOfReached' /\ RefreshBringsLater'
    BY <2>2 DEF IntentOfReached, RefreshBringsLater, Answers
  <2>6. RefusedChoiceIsReplaced'
    BY <2>1 DEF ChoiceInv, RefusedChoiceIsReplaced
  <2> QED
    BY <2>4, <2>5, <2>6 DEF ChoiceInv
<1>3. CASE ~ (gameCall.op = "intent" /\ gameCall.ans = Conflict)
  <2>1. gameCall' = Idle
    BY <1>3 DEF ContinueGameCall
  <2>2. CASE gameCall.ans \in Answers
    <3>1. app' = app /\ chooseAgain' = chooseAgain
      BY <1>3, <2>2 DEF ContinueGameCall
    <3> QED
      BY <2>1, <3>1, ShownRevision, OtherChoice
  <2>3. CASE gameCall.ans \notin Answers
    <3>1. gameCall.ans \in GameRevisions /\ r \in Rooms
      BY <1>1, <2>3 DEF GameCalls
    <3>2. app' = acceptGameSnapshot(app, Snapshot(r, gameCall.ans))
      BY <1>3, <2>3 DEF ContinueGameCall
    <3>3. CASE gameCall.op # "refresh"
      <4>1. chooseAgain' = chooseAgain
        BY <1>3, <3>3 DEF ContinueGameCall
      <4> QED
        BY <2>1, <3>1, <3>2, <4>1, AcceptedRevision, OtherChoice
    <3>4. CASE gameCall.op = "refresh"
      <4>1. chooseAgain' = gameCall.based
        BY <1>3, <2>3, <3>4 DEF ContinueGameCall
      <4>2. r = app.session
        BY <3>1, NoneAssumption DEF HomeInv, GameCallOfSession
      <4>3. app'.game.rev >= gameCall.ans
        BY <3>1, <3>2, <4>2, AcceptedRevision
      <4>4. gameCall.ans > gameCall.based
        BY <2>3, <3>4 DEF ChoiceInv, RefreshBringsLater
      <4>5. app'.game.rev \in Nat /\ gameCall.ans \in Nat
        BY <3>1, RevisionTypes, RevisionOf DEF Types, Apps
      <4>6. RefusedChoiceIsReplaced'
        BY <1>1, <4>1, <4>3, <4>4, <4>5 DEF RefusedChoiceIsReplaced
      <4> QED
        BY <2>1, <4>6, IdleChoice DEF ChoiceInv
    <3> QED
      BY <3>3, <3>4
  <2> QED
    BY <2>2, <2>3
<1> QED
  BY <1>2, <1>3

LEMMA NextChoice ==
  ASSUME Types, Types', HomeInv, LatestInv, ChoiceInv, [Next]_vars
  PROVE  ChoiceInv'
<1>1. GamesGrow
  BY NextGrows
<1>2. CASE StartGameCall \/ ServeGameCall \/ ContinueGameCall
  BY <1>1, <1>2, StartGameCallChoice, ServeGameCallChoice, ContinueGameCallChoice
<1>3. CASE Continue \/ \E c \in Links : Deliver(c)
  BY <1>1, <1>3, ContinueChoice, DeliverChoice
<1>4. CASE Reload \/ \E c \in Links : Stopped(c)
  <2>1. AtHome' /\ LobbyStays
    <3>1. Blank.room = NoSnapshot
          /\ \A s : [Blank EXCEPT !.stored = s, !.session = s].room = NoSnapshot
      BY DEF Blank
    <3>2. app' = Blank \/ \E s : app' = [Blank EXCEPT !.stored = s, !.session = s]
      BY <1>4 DEF Reload, Stopped, GoHome
    <3>3. LobbyStays
      BY <1>4 DEF Reload, Stopped
    <3> QED
      BY <3>1, <3>2, <3>3 DEF AtHome
  <2> QED
    BY <1>1, <2>1, LobbyStaysChoice
<1>5. CASE \E op \in {"create", "join"} : Enter(op)
  <2>1. chooseAgain = 0 /\ LobbyUnchanged
    BY <1>5 DEF Enter, HomeInv, HomeIsQuiet
  <2> QED
    BY <1>1, <2>1, OtherChoice DEF LobbyUnchanged
<1>6. CASE UNCHANGED <<app, gameCall, chooseAgain>>
  BY <1>1, <1>6, ShownRevision, OtherChoice
<1>7. CASE ContinuePanelCall \/ GameCallFails
  <2>1. app'.game = app.game /\ gameCall' \in {gameCall, Idle} /\ chooseAgain' = chooseAgain
    BY <1>7 DEF ContinuePanelCall, GameCallFails, GameUnchanged, ShowRoom, Types, Apps
  <2> QED
    BY <1>1, <2>1, ShownRevision, OtherChoice
<1> QED
  BY <1>2, <1>3, <1>4, <1>5, <1>6, <1>7 DEF Next, vars, LobbyUnchanged, Ask, ServeEnter, ServeCall,
     CallFails, StartPanelCall, ServePanelCall, PanelCallFails, Started, Lost, Reconnected, Attach,
     TableActs, ServerRestarts

(* A player who is told that the combat changed chooses on a later game than *)
(* the one the refused choice was made on (LobbyView.vue:88-95): the server  *)
(* refuses an intent only when the game has gone on, and what the lobby then *)
(* fetches is at least that late.                                            *)
THEOREM RefusedChoicesAreReplaced == Spec => []RefusedChoiceIsReplaced
<1>1. Init => ChoiceInv
  BY InitChoice
<1>2. Types /\ Types' /\ HomeInv /\ LatestInv /\ ChoiceInv /\ [Next]_vars => ChoiceInv'
  BY NextChoice
<1>3. ChoiceInv => RefusedChoiceIsReplaced
  BY DEF ChoiceInv
<1> QED
  BY <1>1, <1>2, <1>3, TypesHold, HomeHolds, LatestHolds, PTL DEF Spec
=============================================================================
