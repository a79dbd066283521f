# A verified model of the TRPG toolbox

The repository is a toolbox for running Call of Cthulhu games: a single-player
assistant in the browser (`src/*.js`) and a multiplayer server
(`multiplayer/server`, C#) with a small client (`multiplayer/client`,
TypeScript). This directory holds TLA+ models of its core, the configurations
that TLC checks them with, and theorems about them that TLAPS proves.

The server decides the multiplayer game. It is concurrent, it keeps the only
authoritative state, and its clients see that state only through what it sends.
So the models start with the game state of the server and work outwards, to its
rooms, and to one client at the other end of the network. The single-player
page has no server: its state machines (turns and requests, combat and health,
sanity, the story's clocks and endings) are modelled on their own.

Paths of C# files below are relative to
`multiplayer/server/src/Trpg.Multiplayer.Api/`, those of `.ts` and `.vue` files
to `multiplayer/client/src/`, those of `.js` files to `src/`.

## 1. The system

| Part | State it keeps | Operations | Talks to |
|---|---|---|---|
| Health engines (`Gameplay/HpDamageResolution.cs`, `HealthStabilizationResolution.cs`) | none: functions on a `CharacterHealthState` | `Apply`, `ResolveDyingRound`, `ResolveFirstAid` | called by the game coordinator |
| Check, opposed-roll and damage rules (`CheckResolution.cs`, `CombatOpposedResolution.cs`, `CombatDamageResolution.cs`) | none | `Resolve`, `DeriveDamageBonus` | called by the game coordinator |
| Game coordinator (`GameCoordinator.cs`, `CombatSessionState.cs`) | one `MultiplayerGameState` per room: revision, characters, at most one combat session | initialise, remove, check, damage, dying round, First Aid; start/end combat; begin/resolve/pass a turn (player and NPC form); resolve damage | room store (membership), game store, dice, notifier |
| Player combat intents (`PlayerCombatIntentCoordinator.cs`) | none | melee attack, respond, pass: each a projection read and up to three commits | game coordinator |
| NPC continuation (`NpcCombatContinuation.cs`) | none | decides and makes an opponent's move; not registered in `Program.cs` | game coordinator |
| Projections (`GameProjection.cs`) | none | the view of one player, with the actions offered | game coordinator, notifier |
| Rooms (`Rooms/`, `RoomApi.cs`) | rooms with revisions, sessions, invite codes, the host's AI credential, mutation gates | create, join, leave, ready, configure AI | game coordinator (removal), notifier |
| Realtime (`Realtime/`) | connections of each player | attach, disconnect, publish room, game and closure | rooms, game store |
| AI connection test (`Ai/`) | a lease per room | test an endpoint | rooms, HTTP |
| Client (`App.vue`, `components/`, `realtime/`, `state/`, `api/`) | the room and the game shown, the session (also in `sessionStorage`), a connection, one busy handler in each of the page, the lobby and the AI panel | create, join, restore, ready, leave; start a game, check, combat intents; configure the AI; connect, reconnect, stop | HTTP, SignalR |
| Turn of the single-player page (`ai-protocol.js`, `api-response-resilience.js`, `scenario-engine.js`, `memory.js`, `saves.js`) | one document, one request under way, a save slot | submit, roll, answer, retry, cancel, undo, hint, summarise, confirm, save, load, import | a model provider |
| Health and combat of the page (`hp-damage-state.js`, `health-stabilization.js`, `healing-recovery.js`, `combat-opposed.js`, `combat-damage.js`, `firearms-impaling.js`) | the investigator's health, one combat with its own participants | damage, First Aid, dying round, recovery; start, end, pass, attack, shoot | the commits of turns |
| Losses and costs of the page (`san-loss-resolution.js`, `san-loss-window.js`, `coc-consequence-contract.js`, `failure-forward-cost-engine.js`) | sanity and its window, hit points, tension, progress | roll, settle, commit, charge | the commits of turns |
| Story of the page (`authored-threat-clock.js`, `progress-semantics.js`, `ending-resolution-gate.js`) | clocks, semantic events, the ending | evaluate rules, derive events, gate endings | the commits of turns |

**How they interact.** Every operation of the game coordinator takes the room's
lock (`WithRoomLockAsync`), loads the state, validates the command, computes a
new immutable state with the next revision and replaces the old one; if it
changed anything it publishes the new state before it lets go of the lock.
Commands of a combat carry the revision the caller last saw and are refused as
stale when it is no longer current. An intent of a player is several such
commands in a row, so commits of others can fall between them.

The client's handlers are cut at every `await`; messages of the hub, other
handlers and a reload of the page fall in between. The modules of the
single-player page replace each other's global functions in a fixed load order
(`prepareAiTransaction`, `commitAiTransaction`, `enterNode`,
`applySecretCheckOutcome`, `cocConsequencePrepareParsed` are each wrapped several
times); an action of a model is the outermost wrapper with all it calls.

**What is hard about it.** Turns move on when an attack is *answered*, before
its hit is *settled*, and a hit can fell the fighter whose turn has come, end
the round, kill the dying and end the combat, all in one commit. Four
overlapping health conditions are updated by three engines. Event keys, dying
checks and exchanges are remembered in histories that are cut. The trusted
health operations run between any two combat steps and know nothing of turns.
Around the game, calls queue up at the gate of their room with what they looked
up before: a token that has ended since, a room that is closed by now, an invite
code that belongs to another room. Connections come and go meanwhile. A client
gets the same snapshot by a push and by an answer, in any order, and goes on after
an `await` in a room that may be another by then. On the single-player page a
request may end in an answer, a failure, a cancellation or a repair, each with
its own way back, while the game it belongs to is undone, saved or replaced; hit
points are kept twice, conditions written by three modules, losses counted by two.
The full list, each item with its line and the properties that watch it, is
under `hazards` in `PROJECT.json`.

**What makes each part correct.** Health: conditions that never contradict each
other, no damage counted twice while its key is remembered, no way out of dying
except First Aid or death. Rules: no roll is ever improved by being higher, the
damage bonus never falls with strength. Combat: an active combat has a current
actor that stands; everyone acts once a round; one thing is open at a time; a
hit is settled exactly once; the dying are checked once per round.
Rooms: a token is valid exactly while its player is a member of an open room;
invite codes lead to open rooms only; whoever owns a character stays; presence is
what the connection registry says; only members get news.
Client: the latest game is shown once everything has arrived; nothing of another
room is; a refused choice is made anew; waiting ends. Single player: a turn is
answered once and a check rolled once, whatever is taken back; rounds, dying
checks and blows keep their schedule; each loss is counted once; threats keep
the pace their author gave them, and an ending is one its state has earned.

## 2. Modules

| Module | Models |
|---|---|
| `Health` | the two health engines as operators on a record |
| `HealthLifecycle` | abstract: the ways between up, dying, stabilized and dead |
| `CharacterHealth` | one investigator under the three trusted operations, in any order |
| `CombatRules` | checks, opposed rolls, damage |
| `RulesSweep` | walks through all rolls and all strengths, and states what the tables agree on |
| `Combat` | the canonical game of one room: all operations of `GameCoordinator.cs` |
| `CombatProtocol` | abstract: what a client may rely on: attack, answer, settle |
| `CombatProperties` | the invariants and refinements of `Combat` |
| `Rooms` | the rooms, tokens, invite codes, the AI credential, the start and end of a game, and the connections of the players |
| `RoomsProperties` | what the stores and registries of the rooms promise each other |
| `RoomService` | the server and the network as one browser tab meets them |
| `Client` | the handlers of the page, the lobby, the AI panel and the connection |
| `ClientProperties` | what the client owes its user |
| `SoloTurn`, `SoloTurnProperties` | turns, requests, checks, proposals, undo and the save slot of the single-player page |
| `SoloHealth` | its health rules as operators on a record |
| `SoloConsequences` | what a continuation may take after a check |
| `SoloCombat`, `SoloCombatProperties` | its Combat Mode with everything else that touches the investigator's health |
| `SoloSanity` | its sanity losses, their window, and the commits of costs |
| `CostSweep` | what a check costs, for every purse, reply and record |
| `SoloStory` | its threat clocks, semantic events and endings |
| `MCServerRules`, `MCCombat`, `MCRooms`, `MCClient`, `MCSoloTurn`, `MCSoloCombat`, `MCSoloStory` | instances for TLC |
| `HealthProofs`, `CharacterHealthProofs` | theorems about the engines, the record of one investigator, and the tables of the rules |
| `CombatProofs` | theorems about the game of a room: its types, the turn order, who stands, exchanges and hits, health in combat, the books of a combat |
| `RoomsProofs` | theorems about the rooms |
| `ClientProofs` | theorems about what the client shows |
| `SoloTurnProofs` | theorems about its turns and checks |
| `SoloCombatProofs` | theorems about the health and the combat of the single-player page |
| `SoloStoryProofs` | theorems about its endings, clocks, losses and costs |

### The health of one investigator

`Health` keeps the fields of `CharacterHealthState` that later rules read. The
nullable objects `DyingEpisode`, `Stabilized` and `DeadCondition` become a
Boolean each, with the dying episode's check ordinals and next ordinal beside
it; the treatment history becomes its length; the damage history becomes the
sequence of its keys. Maximum HP and CON never change and are arguments.

`CharacterHealth` has one action per trusted operation. A call that the engine
refuses, or that it answers from its history, changes nothing and is no step.

### The game of one room

`Combat` has one variable per field of the session. Names follow the code where
they can; the differences are these.

| Model | Code |
|---|---|
| `standing` | the participants with `Active = true` |
| `turn`, `order` | `TurnIndex` and `Order`, counted from 1 |
| `schedule[c] = NotScheduled` | no entry for `c` in `DyingSchedule` |
| `acted`, `responded` | `ActionCounts`, `ResponseCounts`, missing entries read 0 |
| `vitality[o]` | `OpponentVitality.CurrentHp` |
| `damage` | `DamageDispositions`, each entry with the result once it is consumed |
| `issued`, ids `1, 2, ...` | `Guid.NewGuid()`: a new id is never one of the old |
| `Server` as `player` | a null `RequestingPlayerId`: the server answers for an opponent |
| `expected` | `ExpectedGameRevision` of a command |

Because every operation runs under the room's lock and replaces the whole state
in one go, an operation is one step, with everything it does: an answered
attack includes the turn's advance, the end of the round and the dying checks
made then; a settled hit includes the repair of the turn order. `TryReplace`
cannot fail while the lock is held, and is not modelled as failing. Dice are
drawn from the constants `Rolls`; weapon dice from every total the weapon's
dice can show. Orders of equal DEX are free within a side, because the caller
may list a side in any order, and investigators come before opponents, because
the code appends the opponents to its list.

Left out: names, labels, time stamps, the stored details of checks, and what a
removed game does to its room. `Remove` drops the state, as the code does; the
variable `health` keeps its last value, which nothing reads after it.

### The rooms

`Rooms` has the state of the seven in-memory stores and registries of the
server, for any number of rooms, and the calls under way.

| Model | Code |
|---|---|
| `room[r]` | the `RoomSession`, with `Players` as three sets: `members`, and of them `ready` and `connected` |
| `room[r].ai` | `AiConfiguration`: none, or one whose `CredentialPresent` is false (`"bare"`) or true (`"keyed"`) |
| `sessions`, `home` | `InMemoryPlayerSessionStore`: who has a valid token, and the room in it |
| `codeOf`, `roomOf` | the two dictionaries of `InMemoryInviteCodeRegistry` |
| `credentials`, `game` | the stored credentials; the owners of the characters of a running game |
| `identity` | `InMemoryPlayerConnectionRegistry`; its second dictionary is `ConnectionsOf` |
| `group` | the SignalR groups |
| `socket` | the life of a connection: new, open, lost, closing (its loss is waiting at the gate), gone |
| `call` | the HTTP and hub calls that have looked something up and wait for the gate |

Every operation of `RoomApi.cs`, `RoomHub.cs` and the start of a game runs inside
`RoomMutationDeliveryGate.RunAsync`, which lets one operation per room in, its
publications included. So an operation is one step. But its first lines run
*before* the gate: the token or the invite code is looked up there, and
`OnDisconnectedAsync` looks up its connection there. So a call is two steps,
`Receive...` and its handler, and anything may happen between them. `Create` is
one step: it takes no gate, and nobody knows the room before it answers.
A handler that is refused only ends its call.

What can fail is delivery. `MemberLeaves` may stop after any of the leaver's
connections (`removed`); `stranded` remembers those that were left. Closing a
room cleans up in nested `finally` blocks, so a failure changes nothing of the
outcome (that the group of a closed room may keep a connection has no effect,
because nothing is ever sent to it again). An attachment whose connection cannot
be put into the group is rejected.
`ReceiveAttach` takes a connection that was not attached before: the client
attaches once after connecting and after each reconnect, which gets a new
connection id.

Left out: the revision of a room, which is in `RoomService`; nicknames, the contents of an AI configuration, and the connection test, which
changes nothing of a room. `game` has only the owners; what else a game does is
`Combat`.

### The client

`RoomService` is the server of `Rooms` reduced to what a client can tell apart: a
room with a revision, a game with a revision, whether the tab's player is a
member. A change is published under the gate to every attached connection, in
order; the answer of the request that made it travels on its own. The messages of
one connection are a queue (`inbox`), because SignalR delivers in order over one
transport; what is under way is lost with it. The result of `AttachSession` is
written after the gate is released, so news may overtake it (`due`).

`Client` has the refs of `App.vue` in one record (`app`) and three slots for
handlers that are waiting: `call` (the busy handler of `App.vue`), `gameCall` (of
the lobby) and `panelCall` (of the AI panel). Each is alone, because its flag
disables its buttons. A slot is what the handler awaits: an answer, the start of a
connection with its attachment, or a stop. The answer of a request the tab has
given up, and other tabs and players, are `SomebodyActs`.

`Reload` throws away everything but the stored session. A request may fail before
or after the server served it. `ServerRestarts` loses every room, session and
connection, because the server keeps them in memory.

Left out: the status line, the AI form and its connection test, the display of a
character; what an unmounted lobby would emit, which Vue drops. The tab never
enters a room it was in before (`Enter`), and uses a connection object once it is
free (`Fresh`).

### The turn of the single-player page

The page runs one handler at a time, and its only awaits are those of a request.
So a handler is an operator from a page to a page, and one that awaits is cut in
two: the part up to the request, and `Answered`, `HintEnds` or `SummaryEnds`. At
most one request is under way (`wire`), but several *handlers* may change the game
meanwhile: what they do to `activeRequestId` and `revision` decides whether the
answer counts. `wire.stale` stands for a revision that has moved on, `game.active`
for `activeRequestId`. A repair of an inconsistent place is a second await of the
same handler (`stage = "repair"`), and what comes back from it is not compared again.

The story is a sequence of what was told: turns, replies, continuations, hints.
`rollback` is what a provider's failure or a discarded turn restores, `undo` what
the player's undo does. Failures are of two kinds (`soft`): a provider's, which
takes the turn back and goes on, and a protocol's, which waits in `error` for a
retry. A check is its id with where it comes from; the roll itself is in the other
modules. `disk` is the save slot; loading turns a request that was under way when
the game was saved into a failure to retry.

Starting a scenario sets the timeout after which the first node's checks are asked
for, so `timer` is set at the start. In the code each secret check of the queue asks
for a continuation, which outside a turn has nothing to do and calls
`processCheckQueue` again. In the model the row of secret checks at the head of the
queue is rolled in one go (`secretsInARow`, `rollInARow`); nothing can come in
between, because none of these calls awaits anything.

The history variable `strayed` of `SoloTurnProperties` marks the games in which a
turn or a check may be answered twice, and `AnsweredOnce` speaks of the others:

* A game is loaded or imported over a running request: the finding `stale_answer`.
* A hint is asked for inside an open turn, which a corrected scene (`RecoverScene`)
  lets the player do. Its phase is that of a turn under way, so a game that is saved
  meanwhile is opened as one whose turn was interrupted, and the retry answers that
  turn again. (This takes four requests, one more than the run allows.)
* A summary is asked for while a turn is open or may still be taken back. When it is
  cancelled, `cancelActiveRequest` records the failure of a *turn*, and the retry
  answers that turn again. A turn is also left in this state when its continuation is
  ignored because the game has moved on.
* A continuation asks for one more check when the chain is full. What it told is
  committed by then; it fails hard, and its retry tells it again
  (`ai-protocol.js:372`).

That the list is complete is what the theorem `TurnsAnsweredOnce` says.
Checks with `once: false` are left out, and so are the character form and the skip of
a SAN exposure that was already processed.

### The health and the combat of the page

`SoloHealth` follows the browser's rules, which are not the server's: every
operation normalizes first, hit points change before a blow is classified, the
dead keep nothing but their wound, and there is recovery. `SoloCombat` has the
character's health and, beside it, `combat` with its own copy of the hit points
(`body`), as the code has. An exchange passes the turn on, with the round's end and
its dying check, and deals its damage afterwards; `RepairAfterDefeat` then moves
the turn to the first who has not acted. `NormalizedCombat` is
`combatNormalizeState`, which every handler and every load runs: it rebuilds the
participants and gives an opponent without hit points all of them back, though not
its place among the active.

The history variable `past` counts the round ends a dying investigator went
unchecked, and marks health changed from outside the combat and a blow without
effect.

Left out: bonus and penalty dice (every level of success may come up), the count
of responses that grants them, several shots a turn, jams and ammunition, and a
change of weapon in a combat. A request under way refuses what a combat and recovery
do, but neither First Aid nor the player's dying round (`health-stabilization.js:59-76`),
so these may fall between a request and its answer. A reply is prepared and committed
without a pause, so a commit is one step wherever it falls. (The code then refuses the
answer, because First Aid has changed the revision; the model allows it too.)

### Losses, costs and the story

`SoloSanity` has the sanity check with its two settlements (the shock and the
window), the commit that registers what else the sanity fell by, and the three
ways a check charges: what the scenario wrote, what the reply may still add, and
what a `failure_forward` route costs (`SoloConsequences`). `toll` is the history
of what was really taken. A secret check commits its authored effects without the
window (`scenario-engine.js:133`), which the model has and `toll` leaves out.
Resource costs work as those in progress do and are left out. What a check costs is
a function of the purse, the reply and the record, so `CostSweep` asks it of all of
them and not only of those a behaviour of `SoloSanity` happens to bring together
(`MindTypeOK`: every purse it reaches is one of `Purses`).

`SoloStory` has the clocks with their rules, the semantic events, the phases of an
ending, and the wrappers of a commit in their order: the change, its event, the
resolving rules, their event. An event is the set of its kinds; of its id the
rules only use whether it is new to the clock (`fresh`) and to the rule (`seen`).
The history of events is cut as in the code, at `HistoryLimit` events (80 there), and a
gate that asks for a kind of event reads what is left of it. Left out: conditions on
leads, questions and outcomes, the pacing of scenarios without clocks of their own, and
choosing an ending during a request, which is in `SoloTurn`.

Going back to an earlier turn restores an earlier state of all of this
(`SoloTurn`) and is not repeated in the three modules.

### Operators named `Faulty...`

They are slips of the definition that follows them: a dropped guard, an
off-by-one, a missing reset. Nothing uses them. Each property of a passing run has
one that must break it (`mutants` in `PROJECT.json`), which shows that the property depends on
the code it talks about.

## 3. What TLC checks

| Run | Instance | Shows |
|---|---|---|
| `server_rules` | bodies with 1, 2 and 5 HP and CON 0, 40, 100, blows of 1 to 5, histories of 2; then all 100 × 100 rolls at targets 1, 49, 50, 100 and both responses; then STR 1 to 300, SIZ 1 and 90, four weapons, armour 0 and 3 | conditions never contradict each other; only the oldest damage event is forgotten; the tables of checks, exchanges and blows agree; a higher roll never helps |
| `combat` | 2 investigators of 2 players and 1 opponent, combat only, 11 commits; 1 investigator with every operation, 9 commits, histories of 2 | one action each per round; the open attack is current; exchanges, response counts and hit points add up; hits are charged when they are settled; who is out and why; dying checks in time; the protocol; the life cycle |
| `rooms` | 2 rooms of capacity 2, 3 players, 3 connections, 2 invite codes, 2 calls at once; leaving and starting games | tokens, codes, presence, games and groups agree in every order of calls, losses and failures |
| `rooms_live` | 1 room, 2 players, 2 connections, 1 call at once, capacities 1 and 2, every request; under fairness | types and capacity; the shown credential; lost connections leave the registry |
| `client` | 1 room and 1 connection object, 2 changes of the room, 2 of the game; under fairness | the latest game is shown; a refused choice is made on a later game; waiting ends |
| `client_rooms` | 2 rooms, 2 connection objects, 1 change of a room, 2 of a game | session, connection and game shown belong together |
| `solo_turn` | 2 nodes, each with a public and a secret check on entering, in both orders, one check on an action, a chain limit of 2, 3 requests | a turn is answered once; a check is rolled once; one turn at most is taken back |
| `solo_combat` | an investigator with 4 HP and armour against a readied firearm and an impaling blade with 2 HP each, 3 rounds | conditions agree; dying checks in time; both sides stand; one turn each; the life cycle |
| `solo_story` | losses of 0 and 3 of 10 SAN up to 6 in a window; every purse up to its maxima (3 HP) against four outcomes of two checks; 4 turns and 4 semantic events, 3 of them remembered, with two clocks, three rules and two endings | each loss counted once; costs as authored and never twice; clocks keep their pace; endings are earned; what is settled stays |

`server_rules` and `solo_story` put parts side by side that share no variable;
`part` says which of them moves. `combat` joins two kinds of game in one run by the
number of characters chosen at the start (`MCSpec`): with both, combat alone; with
one, checks, trusted health operations and removal in between as well.

**Bounds.** `MaxRevision` and `SoloEnd` bound the number of commits and nothing
else: a round of a duel takes 2 to 6 of them, so 11 cover a round of three fighters
with a death and the repair after it, and 9 a death by a dying check with trusted
operations in between. Blows of 2 to 4 on 4 HP give a light wound, a major one,
dying and instant death; armour 1 on a three-sided die gives zero net damage too.
Rolls 5, 40 and 100 are an extreme success, a regular one and a fumble at skill 50.
Two fighters share a DEX, so ties occur. The code keeps 120 exchanges for at most
16 fighters; `ExchangeHistoryLimit` keeps that proportion (more exchanges than
fighters), and the assumption `HistoryAssumption` says so. The history limits of
`Health` are 80, 40 and 60 in the code and 2 where a run is to overflow them; the
limit matters only as the point where the cut begins, and the theorems below hold
for every limit.

In `rooms`, two codes for two rooms let a code be used again while a join to its
old room waits; capacity 2 lets a room be full; three connections give one
player two of them and another one; two calls are what it takes for one to
overtake another, and losses come on top. A readiness or credential request only
multiplies states there, so these are in `rooms_live`, which has every request
and one call at a time: they read nothing before the gate but the token. The
theorems hold for any number of everything.

In `client`, two revisions of a game are what it takes for an older snapshot to
arrive after a newer one, and `MaxRoomRevision` leaves room for a presence change
and one more. `client_rooms` needs a second room and a second connection object,
because what may go wrong there is that the first outlives its room.

In `solo_turn`, `MaxIds` bounds the requests and the turns named after them: a turn,
its retry or a check of the keeper's, and a continuation take three ids. The code's
chain limit of 8 is 2 here, so that two checks of a node fill the chain and a third
finds it full; the theorems hold for every limit. In `solo_combat`
three rounds are one to fall in, one to be seen dying in and one to be checked in;
2 HP make every opponent fall to two light blows or one of them to a shot. In
`solo_story` the scenario's clock needs four of its steps to be full, at most two
a turn; of its rules one waits for a stall with a cool-down, one answers events and
one resolves on entering a node, once.

**Deadlock** is not checked in `server_rules`, `combat`, `solo_combat` and
`solo_story`: a dead investigator has no operation left, the sweeps end at their
last roll, and behaviours stop at their bounds. In `Rooms` identities are never
used twice, so a finite set of them is used up. `Client` and `SoloTurn` can always
do something (reload; load), and there it is checked.

**Fairness.** In `rooms_live` every call that waits at the gate is handled, because
each holder of the gate releases it in a `finally` and none waits for another call;
and SignalR reports each lost connection to the hub, whose handler then gets through
the gate like any other. Under it, a connection that is attached when it is lost
leaves the registry (`LossesAreNoticed`). In `client`, a request is answered or
fails, the code after an `await` runs, a transport starts, stops and hands over what
it holds (`Progress`); nobody owes a click, a push or luck, and the property speaks
of pages that are not loaded for ever. In `SoloTurn` a request ends, because
`callChatCompletion` aborts it after its timeout. In the game of the server nothing
is assumed: the code has no timer and no retry; that a hit is settled in the end
depends on the callers, which are not modelled yet.

### Where the code and its documents differ

Three runs expect a violation; the findings in `PROJECT.json` quote the lines.

* `nobody_left`: a round that ends in a passed turn or an answered attack may
  kill the last investigator by a dying check. Only the repair after a hit looks
  for a beaten side, so the combat goes on with opponents alone, and the NPC
  validator throws on it.
* `lost_blow`: a combat of the single-player page looks at its own copy of the
  investigator's hit points before a blow. Whoever fell to 0 and was given First Aid
  is up again, but the copy is not: blows on them have no effect for the rest of the
  combat.
* `stale_answer`: the page compares an answer with the active request and the
  revision before it awaits the repair of an inconsistent place, and not after. A
  save that is loaded during the repair gets the old game's answer.

Other things a reader of the models will meet, without a document that says
otherwise or with one that says too little for a finding:

* A trusted damage operation or dying round kills a participant of a running combat
  without taking it out of the turn order (`GameCoordinator.cs:1900`).
* A game may be initialised with CON 0, which is no valid target of a dying check;
  the round end passes over such a character silently.
* The ordinal of a dying check is derived from the retained checks, so it sticks at
  41 once 40 are retained (`HealthStabilizationResolution.cs:108`).
* Room snapshots carry a revision that the client does not compare, so an older one
  may be shown until the next change.
* A game saved while a summary or a hint is under way is opened with its flag set
  and keeps the composer or the hint closed (`saves.js:8`).
* A check the keeper asks for in a continuation does not count towards the chain
  limit (`ai-protocol.js:372`); only those of a queue do.
* The page tells the keeper that the cost of a `failure_forward` route "cannot reduce
  HP below 1" (`failure-forward-cost-engine.js:46`). The cap is computed from the hit
  points before the reply (line 37), and what the scenario attached to the check is
  taken besides: 3 HP, a loss of 2 attached and a route of 2 end at 0. TLC finds this
  when the last point is asked for without the condition `~hurts` of `CostsAreAuthored`,
  which states what the code does keep.
* A confirmed ending records an event of its own, which may push out of the history
  the kind of event its gate asked for (`progress-semantics.js:64`). So the gate is
  open when the ending is taken, and need not be open afterwards.

## 4. What is proved

TLAPS proves the following for every choice of the constants that satisfies the
named assumptions: any roster, any profiles, weapons and rolls, every history
limit, any number of commits. Most of the properties are also checked by a run.
The others are `CurrentActorStands`, `OneThingOpen`, `SettledIsFinal`,
`HealthConsistent`, and the types and the life cycle of `CharacterHealth`: TLC
checked them before they were proved, and a run has nothing to add since.

**One investigator** (assumptions `LimitsAssumption`, `InputsAssumption`):

* `TypeCorrect`: `CharacterHealth` keeps its type invariant, with hit points
  within the body and every history within its limit.
* `ConditionsStayConsistent`: the conditions of a record never contradict each
  other. `Consistent` is inductive together with the type invariant; the proof
  has one lemma per engine in `HealthProofs` (a blow, a dying check, a
  treatment), which say that the operator maps consistent records to consistent
  records.
* `ImplementsLifecycle`: `CharacterHealth` implements `HealthLifecycle` under
  the mapping `condition <- ConditionOf(health)`, one lemma per operation.
* `BlowsAreRemembered` (`OnlyTheOldestEventIsForgotten`): no step forgets a blow but
  the oldest of a full history, so a key that is sent again is recognised.

**The rules** (assumption `SweepAssumption`): `RulesAlwaysAgree` and
`NoRollHelpsByBeingHigher`, for every skill value, weapon, armour, strength and
size the code accepts, where the run takes a handful of each.

**The game of a room** (assumptions `LimitsAssumption`, `RosterAssumption`,
`ProfileAssumption`, `HistoryAssumption`, `InputAssumption`), all for the whole
`Spec`, so trusted health operations may fall between any two combat steps:

* `CombatTypeCorrect`: the type invariant, which is inductive by itself. It says
  of an open attack that its id was handed out, or the disposition made from it
  might not be in the domain it should be.
* `CombatHasAnActor`: an active combat has a standing current actor
  (`CurrentActorStands`). Not inductive alone: the end of a round looks for the
  first standing fighter, and finds one only because dying checks fell
  characters and an *opponent* still stands. `TurnInv` adds that, and
  `NextActiveIsFirst` says what the search for a turn returns, from the
  well-foundedness of the naturals.
* `FightersFallForAReason` (`OutForAReason`), by `OutInv`, which adds to `TurnInv`
  that there is no combat without a running game.
* `CombatHasOneThingOpen`, `PendingAttackIsCurrent`, `SettledHitIsFinal`, by the
  inductive `OpenInv`: the types, one thing open, the open attack current. That
  a settled hit is final needs all three: an answered attack may only add a
  disposition, because its id is new.
* `SessionFollowsProtocol`: the session implements `CombatProtocol` under the
  mapping `step <- ProtocolStep`, with one case per operation.
* `ConditionsConsistentInCombat` and `CombatFollowsLifecycle`: `StepChanges` lists
  how a commit may change one record (a blow, a check, a treatment, or a blow
  and the check of the round end it causes), and each is consistent and one step
  of the life cycle. A blow and a check fall together only on a character that
  was dying before: who starts to die is scheduled as seen in the round at hand,
  and is not due before the next.
* `FightersActOncePerRound` (`EveryoneActsOncePerRound`), by an invariant over the
  turn order: those before the turn have acted once, those from it on have not.
* `DyingAreCheckedEveryRound` (`DyingCheckedEveryRound`), by the schedule: whoever is
  dying and can roll CON has an entry, observed or checked no earlier than the round
  before the one at hand. The start of a combat and the end of each round renew it.
* `HitsChargeWhenSettled` (`ChargedOnlyWhenSettled`): a hit's key enters the history
  of damage when the hit is settled. `ChargeInv` says that neither the open attack nor
  an unsettled hit has its key there, and no key is ahead of the ids handed out.
* `CombatBooksBalance` (`ExchangesAddUp`): the response counts are cardinalities of
  sets of exchanges in the history (`BooksInv`), the hit points of an opponent what the hits
  settled so far have left (`LedgerInv`, a sum over the ids handed out). Here `HistoryAssumption` is needed: no exchange of a round may be cut
  before the round ends.

**The rooms** (assumption `RoomsAssumption`): `RoomsTypeCorrect`,
`TokensEndWithMembership`, `CodesBelongToOpenRooms`, `ShownCredentialIsStored`,
`PlayersStayAtTheTable`, `ShownPresenceIsAttachment` and `OnlyMembersAreTold`, for
any number of rooms, players, connections and calls under way, with every
request. One inductive invariant carries them all, `IInv`, in three layers:

* `RoomsFormed` and `OtherTypes`: the types, with finite rooms, because a join
  counts the members;
* `StoresAgree`: tokens, codes, credentials and games. That every token belongs
  to a member is what gives a waiting call a real room;
* `ConnectionsAgree`: presence and news, with four facts they rest on. Whoever is
  attached has a home (`AttachedAtHome`, so a newly issued player has no
  connection yet); an attachment under way is the first and only one of its
  connection (`FirstAttachments`, so a rejected one cleans up nothing that was
  counted as present); a new connection is in no group; a closed room has an
  empty group.

Each operation has one lemma per layer.

**The client** (assumptions `RevisionAssumption`, `NoneAssumption`), for any set
of rooms, connection objects and bounds on revisions:

* `ClientTypes`: the type invariant, inductive by itself.
* `OnlyOwnRoomIsShown` (`OwnRoomOnly`). It is not inductive: a handler that goes
  on after an `await` shows what it was asked for. `HomeInv` adds what each slot
  may be waiting for and where: at home nothing is connected and neither lobby nor
  panel waits (`HomeIsQuiet`); an entry and a restoration are asked at home,
  before any connection can say something (`EnteringFromHome`, `RestoringAtHome`,
  `RestoringGameAlone`); the lobby waits for the room of the session.
* `LatestIsShown` (`ShownGameIsLatest`). `LatestInv` says that nothing under way,
  shown or answered is newer than the server's game, that an attached connection
  hears of an open room, and that the page either shows the latest game or has it
  in the connection's queue (`LatestOnItsWay`). Pushes of one connection arrive in
  order and an older answer never replaces a newer snapshot, so the queue runs
  out at the latest game.
* `RefusedChoicesAreReplaced` (`RefusedChoiceIsReplaced`), by `ChoiceInv`: a refusal
  under way means that the server's game has overtaken the one the choice was made
  on, and the refresh after it brings a later one.

**The turns of the single-player page** (assumption `ScenarioAssumption`: the checks
of a node have ids of their own): `SoloTurnTypes`, `TurnsAnsweredOnce`,
`ChecksRolledOnce` and `OneTurnTakenBack`, for any scenario, chain limit and number of
requests. One inductive invariant carries them, `TurnInv`. Going back a turn, a retry
and a load put an earlier game in the place of the present one, and a game keeps
snapshots of itself, which keep theirs, without bound. So `TurnInv` is about a set of
games that holds the game, the saved one and, with each game, its snapshots:

* `Sound` is about every game of the set. Its types; `RolledOnce`: what is rolled,
  open and queued is told apart, and a node's check that is any of these is marked;
  `TakesBack`: a snapshot has at least the story before the last turn; `Apart`: no
  game knows the id of the request under way, or a restored game could meet its own
  future.
* `Answering` holds until the game strays. `AnswersOnce`: what a game would ask for
  again, by a retry or when it is opened, it has not been told; `Awaits`: nor has the
  present game been told what the request under way asks for.

Each handler has a lemma: it leads to games in a larger such set (`Reaches`) and keeps
the story up to the last turn (`GoesOn`). The checks due at a node are a recursion over
its list, `Iterated` gives the result of one, and `FiringDue` says what it is; `RowFits`,
`HeadFits` and `QueueKept` are about a queue whose secret checks are rolled at once.

**Health and combat of the single-player page** (assumptions `RosterAssumption`,
`ProfileAssumption`, `AmountsAssumption`): `SoloCombatTypes`, `NoEmptyCombat`,
`EverybodyHasOneTurn`, `SoloDyingAreChecked` and `SoloHealthFollowsLifecycle`, for any
roster, weapons, scenario amounts and number of rounds. One inductive invariant
(`Inv`) carries them:

* `Sound` of the page's state: the types, the agreement of the conditions
  (`Agree`), a turn inside the order, both sides standing, and `Punctual`, which
  counts the round ends a dying investigator went unchecked against the round of
  the last check.
* `InTurn`: whoever is before the turn has acted, once if they still fight; whoever
  still fights at the turn or behind it has not. It is what a defeat has to restore
  when it takes a fighter out of the order and puts the turn back.

A handler is a chain of operators on the state. Inside it the invariant does not
hold (an exchange passes the turn before the damage falls), so each link has a
lemma from `Fit`, the part that always holds, and `Passed`, `Settled` and `Fair` say
what a link did to the turns. A reply changes the hit points once for each of its
amounts; `Iterated` gives the result of a step that is repeated within a set, by the
well-foundedness of the naturals.
The life cycle is one lemma for each way the conditions may move (`Hurts`,
`Recovers`, `Aided`). That the costs of a continuation are whole numbers is an
assumption, because `SelectSeq`, which picks them, is opaque to the prover.

**The story of the single-player page** (assumption `GateAssumption`: gates name
clocks of the scenario): `EndingsAreEarned`, for any scenario, any effects of
replies and checks, any length of the history of events and any number of turns. It
says that an ending is taken on an open gate, and that as long as it stands the state
has earned it (`EndingStands`). The second part leaves out the kinds of events a gate
may ask for, which the history forgets. That nothing moves the gate's conditions after
the end rests on there being no proposal left to confirm (`Over`), so the invariant has
both. `CommittedKeeps` says that no commit ends a campaign, `RenewalKeepsGate` that the
ending's own event takes nothing from the state that earned it, and `Opens` is what a
step that ends a campaign has to show.

With `ClockAssumption`, `RuleAssumption` and `EffectAssumption` (what the validation
of a scenario lets through) there are `ClocksAlwaysKeepPace` and `SettledClocksStay`,
for any clocks, rules, nodes and effects. The inductive `Paced` says of each clock
that it is triggered exactly when it is full, that it is within its budget of the
turns taken, and that a rule about events has fired at most once for each event and
not yet for one that it has still to see. The budget is kept because the rules that
advance clocks are evaluated once a turn and share it, while those that run again in
the same commit only resolve.

**Losses and costs** (assumptions `ScenarioAssumption`, `MindAssumption`):

* `EveryLossIsCounted` (`LossesCounted`): every loss is counted once, and a window
  triggers exactly when a fifth is lost. The inductive `Counted` is about records
  between two steps; a retried continuation finds its loss settled.
* `OnlyAuthoredCosts` (`CostsHold`), for every question of `CostSweep`. What a reply may
  still do after `cocConsequencePrepareParsed` is `PreparedFacts`; that the routes take
  at most all but one of the hit points there were is `CostsTake`, that a point is left
  where the scenario attached no loss `HitPointLeft`, that a success takes nothing
  `GentleChanges`. That nothing is paid twice compares two replies. Both come to the
  same bill (`SameBill`: equal totals and the same routes in use), because a second
  revelation uses no new route (`BillIdle`) and a gift none at all (`BillStrike`); the
  keeper's gifts come before the costs, and every change keeps the order of two purses
  (`PrepareKeepsOrder`). That a total or a striking goes element by element is proved
  from the function it is (`TotalsAppend`, `WithoutAppend`), and what holds of one
  element more holds of all sequences by `AllSequences`.

**Only model-checked**, and why:

* `LossesAreNoticed` and `BusyEnds` are liveness under fairness, which is out of the
  prover's reach.
* `TurnInv`, `InTurn`, `Paced`, `Counted` and the other strengthenings were checked by TLC on the
  instances of section 3 before they were proved.

## 5. What is not modelled yet, and the plan

1. `CombatIntent`: the three player intents as processes over `Combat`'s
   actions, each commit a step of its own, with other players' commits in
   between; an intent that fails half way leaves an attack or a hit open, and
   liveness under fairness of the callers is stated there. With it the NPC
   continuation and the actions offered by the projection.
2. A refinement that ties `Rooms` and `Combat` (the game of a room as its owners),
   and one that ties `Rooms` and `RoomService`.
3. The lease of the AI connection test and the dice expressions.
4. Of the single-player page: NPCs and what they know, items and leads, the
   percentile rules (`coc-resolution-engine.js`, `check-engine.js`), and the guards
   on a player's action.
5. More theorems: for the modules above as they come, and the ties of 2.

The runs are as many as are worth waiting for; the next modules take the place
of runs that theorems have made redundant.

Presentation, prompts, build scripts and generated pages stay out: their
behaviour is text.
