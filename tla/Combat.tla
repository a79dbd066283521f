------------------------------- MODULE Combat -------------------------------
(***************************************************************************)
(* The canonical game of one room, as GameCoordinator.cs keeps it: the     *)
(* characters' health and, at most, one combat session.  Every operation   *)
(* loads the state, validates the command against it and replaces the      *)
(* whole state under the room's lock, so each operation is one step; a     *)
(* command that is refused, and a replay that answers from the stored      *)
(* result, change nothing and are no steps.                                *)
(*                                                                         *)
(* A command carries the revision its caller last saw: the parameter       *)
(* expected of the actions.  The session is kept in one variable per field.*)
(* Left out: labels, time stamps, the details of a check, and what happens *)
(* to the room except that it closes.                                      *)
(***************************************************************************)
EXTENDS Health, CombatRules, FiniteSets

CONSTANTS
  Players, Host,             \* the members of the room
  Server,                    \* the server itself, which answers for opponents
  Characters, Opponents,     \* the fighters of both sides
  Owner,                     \* the player of each character
  MaxHp, Con,                \* of each character
  StartHps,                  \* hit points the characters may begin with
  OpponentHp,                \* of each opponent when a combat starts
  Dex, Fighting, Dodge,      \* of each fighter
  Responses,                 \* the responses a fighter may choose
  Allowance,                 \* responses before the attacker gets a bonus die
  Weapon, DamageBonus, Armor,
  Rolls,                     \* percentile rolls the dice may show
  Blows,                     \* damage of the trusted ApplyDamage operation
  EventKeys,                 \* and its event keys
  AidTargets,                \* First Aid targets
  ExchangeHistoryLimit,      \* completed exchanges kept (120 in the code)
  MaxRevision,               \* bound on the number of commits
  NoExchange

Fighters == Characters \union Opponents

ASSUME RosterAssumption ==
  /\ Host \in Players
  /\ Server \notin Players
  /\ Owner \in [Characters -> Players]
  /\ \A c, d \in Characters : Owner[c] = Owner[d] => c = d
  /\ Characters \intersect Opponents = {}
  /\ IsFiniteSet(Fighters)

ASSUME ProfileAssumption ==
  /\ MaxHp \in [Characters -> Nat \ {0}]
  /\ Con \in [Characters -> 0..100]
  /\ OpponentHp \in [Opponents -> Nat \ {0}]
  /\ Dex \in [Fighters -> Percentile]
  /\ Fighting \in [Fighters -> Percentile]
  /\ Dodge \in [Fighters -> Percentile]
  /\ Responses \in [Fighters -> (SUBSET CombatResponses) \ {{}}]
  /\ \A c \in Characters : Responses[c] = CombatResponses
  /\ Allowance \in [Fighters -> Nat]
  /\ \A c \in Characters : Allowance[c] = 1
  /\ Weapon \in [Fighters -> [count : Nat \ {0}, faces : Nat \ {0},
                               modifier : Int, addsBonus : BOOLEAN]]
  /\ DamageBonus \in [Fighters -> [kind : {"flat", "dice"}, flat : Int,
                                    count : Nat, faces : Nat]]
  /\ Armor \in [Fighters -> 0..99]

\* A session has at most 16 fighters and keeps 120 exchanges, so the exchanges
\* of one round are always all in the history.
ASSUME HistoryAssumption ==
  /\ ExchangeHistoryLimit \in Nat
  /\ Cardinality(Fighters) < ExchangeHistoryLimit

ASSUME InputAssumption ==
  /\ Rolls \subseteq Percentile
  /\ Blows \subseteq Nat \ {0}
  /\ AidTargets \subseteq Percentile
  /\ \A hp \in StartHps : \A c \in Characters : hp[c] \in 0..MaxHp[c]
  /\ MaxRevision \in Nat
  /\ NoExchange \notin [id : Nat, round : Nat, turn : Nat, attacker : Fighters,
                        defender : Fighters, responsesBefore : Nat, created : Nat]

VARIABLES
  stage,      \* "lobby" (no game), "running", or "closed" (the room is gone)
  revision,   \* Revision of the game state
  roster,     \* the characters of the game
  health,     \* CharacterHealthState of each character
  phase,      \* the combat session: "none", "active" or "ended"
  round, turn, order,
  standing,   \* the participants whose Active flag is set
  vitality,   \* CurrentHp of each opponent
  pending,    \* PendingExchange
  damage,     \* DamageDispositions: exchange id -> disposition and its result
  schedule,   \* DyingSchedule
  acted, responded,   \* ActionCounts and ResponseCounts of the round
  exchanges,  \* History, its last element is LastExchange
  endReason,
  issued      \* how many exchange ids have been handed out (Guid.NewGuid)

turnVars == <<round, turn, order, standing, schedule, acted, responded>>
sessionVars == <<turnVars, phase, vitality, pending, damage, exchanges, endReason>>
vars == <<stage, revision, roster, health, sessionVars, issued>>

-----------------------------------------------------------------------------
(* Helpers *)

Side(p) == IF p \in Characters THEN "investigator" ELSE "opponent"

NotScheduled == [observed |-> 0, last |-> 0]
NoDamage == [id \in {} |-> id]
NoCounts == [p \in Fighters |-> 0]
Bump(counts, p) == [counts EXCEPT ![p] = @ + 1]

InFight == {order[i] : i \in 1..Len(order)}

\* Whoever may act for p: its owner, or the host for an opponent.
Controller(p) == IF p \in Characters THEN Owner[p] ELSE Host

\* Whoever must answer for p when it is attacked.
Responder(p) == IF p \in Characters THEN Owner[p] ELSE Server

\* The key under which the hit points of an exchange are charged.
CombatKey(id) == <<"combat", id>>
TrustedKey(k) == <<"trusted", k>>

PendingDamage == {id \in DOMAIN damage : damage[id].status = "pending"}

Blocked == PendingDamage # {}

\* The oldest unconsumed disposition comes first.
IsBlocker(id) ==
  /\ id \in PendingDamage
  /\ \A other \in PendingDamage : damage[id].created <= damage[other].created

\* Every committed operation raises the revision by one.
Commit ==
  /\ revision < MaxRevision
  /\ revision' = revision + 1

\* The command was made against the state that is still current.
Current(expected) == expected = revision

-----------------------------------------------------------------------------
(* The turn order *)

\* FindNextActiveTurn: the first turn from start on whose fighter stands, or
\* one past the end.
NextActive(st, start) ==
  LET turns == {i \in start..Len(order) : order[i] \in st}
  IN  IF turns = {} THEN Len(order) + 1
      ELSE CHOOSE i \in turns : \A j \in turns : i <= j

\* Characters whose dying check falls due when the current round ends.
DueForCheck(hl, st, sch) ==
  {c \in Characters \intersect InFight \intersect st :
     /\ CanScheduleDying(hl[c])
     /\ sch[c] # NotScheduled
     /\ sch[c].observed < round
     /\ sch[c].last # round}

\* CON 0 is no valid check target: the wrap passes over such a character.
Checked(hl, st, sch) == {c \in DueForCheck(hl, st, sch) : Con[c] \in Percentile}

\* The end of a round: dying checks in combat order, then the next round.
WrapRound(hl, st, sch, rolls) ==
  LET checked == Checked(hl, st, sch)
      after   == [c \in Characters |->
                    IF c \in checked THEN AfterDyingRound(hl[c], Con[c], rolls[c])
                    ELSE hl[c]]
      fallen  == {c \in checked : after[c].dead}
  IN  [health    |-> after,
       standing  |-> st \ fallen,
       schedule  |-> [c \in Characters |->
                        IF c \notin InFight THEN sch[c]
                        ELSE IF c \notin st \/ ~ CanScheduleDying(hl[c]) \/ c \in fallen
                        THEN NotScheduled
                        ELSE IF sch[c] = NotScheduled
                        THEN [observed |-> round, last |-> 0]
                        ELSE IF c \in checked THEN [sch[c] EXCEPT !.last = round]
                        ELSE sch[c]],
       round     |-> round + 1,
       turn      |-> NextActive(st \ fallen, 1),
       acted     |-> NoCounts,
       responded |-> NoCounts]

\* AdvanceTurn: the next standing fighter of the round, or the next round.
AdvanceTurn(hl, st, sch, act, resp, rolls) ==
  LET next == NextActive(st, turn + 1)
  IN  IF next <= Len(order)
      THEN [health |-> hl, standing |-> st, schedule |-> sch, round |-> round,
            turn |-> next, acted |-> act, responded |-> resp]
      ELSE WrapRound(hl, st, sch, rolls)

\* The percentile rolls an AdvanceTurn consumes.
WrapRolls(hl, st, sch) ==
  IF NextActive(st, turn + 1) <= Len(order) THEN {<< >>}
  ELSE [Checked(hl, st, sch) -> Rolls]

\* The turn fields and the health after a turn, as a record of new values.
TakeTurn(after) ==
  /\ health' = after.health
  /\ standing' = after.standing
  /\ schedule' = after.schedule
  /\ round' = after.round
  /\ turn' = after.turn
  /\ acted' = after.acted
  /\ responded' = after.responded
  /\ UNCHANGED order

FaultyDefeatReason(st) ==
  IF st \intersect Opponents = {} THEN "opposition_defeated"
  ELSE IF ~ (InFight \intersect Characters \subseteq st) THEN "investigators_defeated"
  ELSE "none"

\* EndCombatIfSideDefeated on the fighters still standing.
DefeatReason(st) ==
  IF st \intersect Opponents = {} THEN "opposition_defeated"
  ELSE IF st \intersect Characters = {} THEN "investigators_defeated"
  ELSE "none"

-----------------------------------------------------------------------------
(* The game *)

NoSession ==
  /\ phase = "none" /\ round = 0 /\ turn = 0 /\ order = << >>
  /\ standing = {} /\ vitality = [o \in Opponents |-> 0]
  /\ pending = NoExchange /\ damage = NoDamage
  /\ schedule = [c \in Characters |-> NotScheduled]
  /\ acted = NoCounts /\ responded = NoCounts
  /\ exchanges = << >> /\ endReason = "none"

Init ==
  /\ stage = "lobby"
  /\ revision = 0
  /\ roster = {}
  /\ health = [c \in Characters |-> NewHealth(MaxHp[c])]
  /\ NoSession
  /\ issued = 0

\* Initialize: the host names the characters and the hit points they have.
Initialize(player, chosen, hp) ==
  /\ stage = "lobby"
  /\ player = Host
  /\ chosen # {}
  /\ \A c \in chosen : hp[c] \in 0..MaxHp[c]
  /\ stage' = "running"
  /\ revision' = 1
  /\ roster' = chosen
  /\ health' = [c \in Characters |-> IF c \in chosen THEN NewHealth(hp[c]) ELSE health[c]]
  /\ UNCHANGED <<sessionVars, issued>>

\* Remove, when the host closes the room.  The state is dropped; the last
\* health stays in its variable, where nothing reads it.
Remove ==
  /\ stage = "running"
  /\ stage' = "closed"
  /\ revision' = 0 /\ roster' = {} /\ issued' = 0
  /\ phase' = "none" /\ round' = 0 /\ turn' = 0 /\ order' = << >>
  /\ standing' = {} /\ vitality' = [o \in Opponents |-> 0]
  /\ pending' = NoExchange /\ damage' = NoDamage
  /\ schedule' = [c \in Characters |-> NotScheduled]
  /\ acted' = NoCounts /\ responded' = NoCounts
  /\ exchanges' = << >> /\ endReason' = "none"
  /\ UNCHANGED health

\* A check of a player's own character changes LastCheck only.
ResolveCheck(player, c) ==
  /\ stage = "running"
  /\ c \in roster
  /\ player = Owner[c]
  /\ Commit
  /\ UNCHANGED <<stage, roster, health, sessionVars, issued>>

\* ApplyDamage, a trusted operation.  A fresh dying fighter is observed in
\* the current round of a running combat.
ApplyDamage(c, key, blow, conRoll) ==
  LET after == Damaged(health[c], MaxHp[c], Con[c], TrustedKey(key), blow, conRoll)
  IN  /\ stage = "running"
      /\ c \in roster
      /\ TakesDamage(health[c], TrustedKey(key))
      /\ Commit
      /\ health' = [health EXCEPT ![c] = after]
      /\ schedule' =
           IF phase = "active" /\ ~ health[c].dying /\ after.dying /\ c \in standing
           THEN [schedule EXCEPT ![c] = [observed |-> round, last |-> 0]]
           ELSE schedule
      /\ UNCHANGED <<stage, roster, round, turn, order, standing, acted, responded,
                     phase, vitality, pending, damage, exchanges, endReason, issued>>

\* ResolveDyingRound, a trusted operation outside the combat rounds.
ResolveDyingRound(c, roll) ==
  /\ stage = "running"
  /\ c \in roster
  /\ AcceptsDyingRound(health[c], Con[c])
  /\ Commit
  /\ health' = [health EXCEPT ![c] = AfterDyingRound(@, Con[c], roll)]
  /\ UNCHANGED <<stage, roster, sessionVars, issued>>

\* ResolveFirstAid, a trusted operation.
ResolveFirstAid(c, target, roll) ==
  /\ stage = "running"
  /\ c \in roster
  /\ AcceptsFirstAid(health[c], MaxHp[c])
  /\ Commit
  /\ health' = [health EXCEPT ![c] = AfterFirstAid(@, MaxHp[c], target, roll)]
  /\ UNCHANGED <<stage, roster, sessionVars, issued>>

-----------------------------------------------------------------------------
(* Starting and ending a combat *)

\* By descending DEX, ties in input order: the characters come before the
\* opponents, and the caller may list each side in any order.
TurnOrders(fighters) ==
  LET turns == 1..Cardinality(fighters)
  IN  {ord \in [turns -> fighters] :
         /\ \A p \in fighters : \E i \in turns : ord[i] = p
         /\ \A i, j \in turns : i < j =>
              /\ ord[i] # ord[j]
              /\ \/ Dex[ord[i]] > Dex[ord[j]]
                 \/ /\ Dex[ord[i]] = Dex[ord[j]]
                    /\ ord[j] \in Characters => ord[i] \in Characters}

StartCombat(player, expected, chars, opps) ==
  /\ stage = "running"
  /\ player = Host
  /\ Current(expected)
  /\ phase # "active"
  /\ chars # {} /\ opps # {}
  /\ chars \subseteq roster
  /\ \A c \in chars : ~ health[c].dead
  /\ Commit
  /\ phase' = "active"
  /\ round' = 1 /\ turn' = 1
  /\ order' \in TurnOrders(chars \union opps)
  /\ standing' = chars \union opps
  /\ vitality' = [o \in Opponents |-> IF o \in opps THEN OpponentHp[o] ELSE 0]
  /\ pending' = NoExchange
  /\ damage' = NoDamage
  /\ schedule' = [c \in Characters |->
                    IF c \in chars /\ health[c].dying
                    THEN [observed |-> 1, last |-> 0] ELSE NotScheduled]
  /\ acted' = NoCounts /\ responded' = NoCounts
  /\ exchanges' = << >>
  /\ endReason' = "none"
  /\ UNCHANGED <<stage, roster, health, issued>>

FaultyMayEnd(player, expected) ==
  stage = "running" /\ player = Host /\ phase = "active" /\ Current(expected)

\* EndCombat by the host, unless a hit waits to be settled.
MayEnd(player, expected) ==
  /\ stage = "running"
  /\ player = Host
  /\ phase = "active"
  /\ ~ Blocked
  /\ Current(expected)

EndCombat(player, expected) ==
  /\ MayEnd(player, expected)
  /\ Commit
  /\ phase' = "ended"
  /\ pending' = NoExchange
  /\ endReason' = "combat_ended_before_resolution"
  /\ UNCHANGED <<stage, roster, health, turnVars, vitality, damage, exchanges, issued>>

-----------------------------------------------------------------------------
(* A turn: an attack begins, the defender answers, or the turn is passed *)

\* The fighter whose turn it is may attack a standing fighter of the other
\* side, once nothing is left to resolve.
MayBegin(expected, attacker, defender) ==
  /\ stage = "running"
  /\ phase = "active"
  /\ ~ Blocked
  /\ Current(expected)
  /\ pending = NoExchange
  /\ turn <= Len(order)
  /\ attacker = order[turn]
  /\ attacker \in standing /\ defender \in standing
  /\ Side(attacker) # Side(defender)
  /\ Responses[defender] # {}

CommitBegin(attacker, defender) ==
  /\ Commit
  /\ issued' = issued + 1
  /\ pending' = [id |-> issued + 1, round |-> round, turn |-> turn,
                 attacker |-> attacker, defender |-> defender,
                 responsesBefore |-> responded[defender], created |-> revision]
  /\ UNCHANGED <<stage, roster, health, turnVars, phase, vitality, damage,
                 exchanges, endReason>>

BeginExchange(player, expected, attacker, defender) ==
  /\ MayBegin(expected, attacker, defender)
  /\ player = Controller(attacker)
  /\ CommitBegin(attacker, defender)

\* The server begins an opponent's attack on a character.
BeginNpcExchange(expected, attacker, defender) ==
  /\ MayBegin(expected, attacker, defender)
  /\ attacker \in Opponents /\ defender \in Characters
  /\ CommitBegin(attacker, defender)

\* The attack is outnumbering once the defender has used up its responses.
Outnumbered == pending.responsesBefore >= Allowance[pending.defender]

DefenceTarget(defender, response) ==
  IF response = "dodge" THEN Dodge[defender] ELSE Fighting[defender]

Opposed(response, attackRoll, defenceRoll) ==
  ResolveOpposed(
    SuccessLevel(attackRoll, Fighting[pending.attacker]),
    SuccessLevel(defenceRoll, DefenceTarget(pending.defender, response)),
    response)

Winner(verdict) == IF verdict.winner = "attacker" THEN pending.attacker ELSE pending.defender
Loser(verdict)  == IF verdict.winner = "attacker" THEN pending.defender ELSE pending.attacker

NewDisposition(verdict) ==
  [owner |-> Winner(verdict), target |-> Loser(verdict), mode |-> verdict.mode,
   created |-> revision + 1, status |-> "pending", outcome |-> "none",
   net |-> 0, hpBefore |-> 0, hpAfter |-> 0]

\* The defender answers: the winner's damage is left pending, and the turn
\* moves on at once.
CommitResolve(verdict, rolls) ==
  LET id   == pending.id
      act  == Bump(acted, pending.attacker)
      resp == Bump(responded, pending.defender)
  IN  /\ Commit
      /\ damage' = IF verdict.mode = "none" THEN damage
                   ELSE [i \in DOMAIN damage \union {id} |->
                           IF i = id THEN NewDisposition(verdict) ELSE damage[i]]
      /\ exchanges' =
           TakeLast(Append(exchanges,
             [id |-> id, round |-> pending.round, attacker |-> pending.attacker,
              defender |-> pending.defender, outnumbered |-> Outnumbered,
              winner |-> verdict.winner]), ExchangeHistoryLimit)
      /\ pending' = NoExchange
      /\ TakeTurn(AdvanceTurn(health, standing, schedule, act, resp, rolls))
      /\ UNCHANGED <<stage, roster, phase, vitality, endReason, issued>>

ResolveExchange(player, expected, id, response) ==
  /\ stage = "running"
  /\ phase = "active"
  /\ ~ Blocked
  /\ Current(expected)
  /\ pending # NoExchange
  /\ pending.id = id
  /\ response \in Responses[pending.defender]
  /\ pending.attacker \in standing /\ pending.defender \in standing
  /\ player = Responder(pending.defender)
  /\ \E attackRoll, defenceRoll \in Rolls, rolls \in WrapRolls(health, standing, schedule) :
       CommitResolve(Opposed(response, attackRoll, defenceRoll), rolls)

FaultyMayPass(expected, actor) ==
  /\ stage = "running" /\ phase = "active" /\ ~ Blocked /\ Current(expected)
  /\ turn <= Len(order) /\ actor = order[turn] /\ actor \in standing

MayPass(expected, actor) ==
  /\ stage = "running"
  /\ phase = "active"
  /\ ~ Blocked
  /\ Current(expected)
  /\ pending = NoExchange
  /\ turn <= Len(order)
  /\ actor = order[turn]
  /\ actor \in standing

CommitPass(actor) ==
  /\ Commit
  /\ \E rolls \in WrapRolls(health, standing, schedule) :
       TakeTurn(AdvanceTurn(health, standing, schedule, Bump(acted, actor), responded, rolls))
  /\ UNCHANGED <<stage, roster, phase, vitality, pending, damage, exchanges,
                 endReason, issued>>

PassTurn(player, expected, actor) ==
  /\ MayPass(expected, actor)
  /\ player = Controller(actor)
  /\ CommitPass(actor)

\* The server passes an opponent's turn.
PassNpcTurn(expected, actor) ==
  /\ MayPass(expected, actor)
  /\ actor \in Opponents
  /\ CommitPass(actor)

-----------------------------------------------------------------------------
(* ResolveCombatDamage: the pending damage of an exchange is applied once *)

MayResolveDamage(expected, id) ==
  /\ stage = "running"
  /\ phase = "active"
  /\ id \in DOMAIN damage
  /\ Current(expected)
  /\ IsBlocker(id)

FaultyTargetHp(p) == IF p \in Characters THEN health[p].hp ELSE OpponentHp[p]

TargetHp(p) == IF p \in Characters THEN health[p].hp ELSE vitality[p]

Ineligible(p) ==
  \/ p \notin standing
  \/ p \in Characters /\ health[p].dead
  \/ p \in Opponents /\ vitality[p] = 0

FaultyConsume(id, outcome, net, hpAfter) ==
  damage' = [damage EXCEPT ![id] =
    [@ EXCEPT !.outcome = outcome, !.net = net,
              !.hpBefore = TargetHp(damage[id].target), !.hpAfter = hpAfter]]

Consume(id, outcome, net, hpAfter) ==
  damage' = [damage EXCEPT ![id] =
    [@ EXCEPT !.status = "consumed", !.outcome = outcome, !.net = net,
              !.hpBefore = TargetHp(damage[id].target), !.hpAfter = hpAfter]]

\* A target that fell in the meantime takes nothing; the turn is not touched.
ConsumeIneligible(expected, id) ==
  LET target == damage[id].target
  IN  /\ MayResolveDamage(expected, id)
      /\ Ineligible(target)
      /\ Commit
      /\ Consume(id, "ineligible", 0, TargetHp(target))
      /\ UNCHANGED <<stage, roster, health, turnVars, phase, vitality, pending,
                     exchanges, endReason, issued>>

\* RepairCombatAfterDamage: a side that is beaten ends the combat; otherwise
\* the turn moves past the fallen, into the next round if need be.
Settled(reason) ==
  /\ endReason' = reason
  /\ IF reason = "none"
     THEN phase' = "active" /\ UNCHANGED pending
     ELSE phase' = "ended" /\ pending' = NoExchange

NeedsWrap(st) == DefeatReason(st) = "none" /\ NextActive(st, turn) > Len(order)

RepairRolls(hl, st, sch) == IF NeedsWrap(st) THEN WrapRolls(hl, st, sch) ELSE {<< >>}

FaultyRepairTurn(st) == IF DefeatReason(st) = "none" THEN NextActive(st, turn + 1) ELSE turn

\* The place of a fallen actor is filled from the same index on.
RepairTurn(st) == IF DefeatReason(st) = "none" THEN NextActive(st, turn) ELSE turn

Repaired(hl, st, sch, rolls) ==
  IF NeedsWrap(st)
  THEN AdvanceTurn(hl, st, sch, acted, responded, rolls)
  ELSE [health |-> hl, standing |-> st, schedule |-> sch, round |-> round,
        turn |-> RepairTurn(st), acted |-> acted, responded |-> responded]

Repair(hl, st, sch, rolls) ==
  LET after == Repaired(hl, st, sch, rolls)
  IN  /\ TakeTurn(after)
      /\ Settled(DefeatReason(after.standing))

\* The net damage of a hit, for every way the owner's dice may fall.
NetBlows(id) ==
  LET hit    == damage[id]
      weapon == Weapon[hit.owner]
      bonus  == DamageBonus[hit.owner]
  IN  {NetDamage(weapon, bonus, hit.mode, w, b, Armor[hit.target]) :
         w \in WeaponTotals(weapon, hit.mode), b \in BonusTotals(weapon, bonus, hit.mode)}

\* The character's record after a net blow (CocHpDamageEngine.Apply).
Struck(c, id, net, conRoll) ==
  IF net > 0 /\ TakesDamage(health[c], CombatKey(id))
  THEN Damaged(health[c], MaxHp[c], Con[c], CombatKey(id), net, conRoll)
  ELSE health[c]

HealthAfter(id, net, conRoll) ==
  [health EXCEPT ![damage[id].target] = Struck(damage[id].target, id, net, conRoll)]

StandingAfter(id, net, conRoll) ==
  IF Struck(damage[id].target, id, net, conRoll).dead
  THEN standing \ {damage[id].target} ELSE standing

FaultyScheduleAfter(id, net, conRoll) ==
  IF Struck(damage[id].target, id, net, conRoll).dead
  THEN [schedule EXCEPT ![damage[id].target] = NotScheduled] ELSE schedule

ScheduleAfter(id, net, conRoll) ==
  LET c     == damage[id].target
      after == Struck(c, id, net, conRoll)
  IN  IF after.dead THEN [schedule EXCEPT ![c] = NotScheduled]
      ELSE IF ~ health[c].dying /\ after.dying
      THEN [schedule EXCEPT ![c] = [observed |-> round, last |-> 0]]
      ELSE schedule

HitCharacter(expected, id) ==
  LET c == damage[id].target
  IN  /\ MayResolveDamage(expected, id)
      /\ ~ Ineligible(c)
      /\ c \in Characters
      /\ Commit
      /\ \E net \in NetBlows(id), conRoll \in Rolls :
           LET hl  == HealthAfter(id, net, conRoll)
               st  == StandingAfter(id, net, conRoll)
               sch == ScheduleAfter(id, net, conRoll)
           IN  /\ Consume(id, "applied", net, hl[c].hp)
               /\ \E rolls \in RepairRolls(hl, st, sch) : Repair(hl, st, sch, rolls)
      /\ UNCHANGED <<stage, roster, vitality, exchanges, issued>>

HitOpponent(expected, id) ==
  LET o == damage[id].target
  IN  /\ MayResolveDamage(expected, id)
      /\ ~ Ineligible(o)
      /\ o \in Opponents
      /\ Commit
      /\ \E net \in NetBlows(id) :
           LET hp == AtLeastZero(vitality[o] - net)
               st == IF hp = 0 THEN standing \ {o} ELSE standing
           IN  /\ Consume(id, "applied", net, hp)
               /\ vitality' = [vitality EXCEPT ![o] = hp]
               /\ \E rolls \in RepairRolls(health, st, schedule) :
                    Repair(health, st, schedule, rolls)
      /\ UNCHANGED <<stage, roster, exchanges, issued>>

-----------------------------------------------------------------------------
(* The system *)

\* What the room's players and the server's other parts ask of the game.
GameStep ==
  \/ \E player \in Players, chosen \in SUBSET Characters, hp \in StartHps :
        Initialize(player, chosen, hp)
  \/ Remove
  \/ \E player \in Players, c \in Characters : ResolveCheck(player, c)

\* The trusted health operations.
HealthStep ==
  \/ \E c \in Characters, key \in EventKeys, blow \in Blows, conRoll \in Rolls :
        ApplyDamage(c, key, blow, conRoll)
  \/ \E c \in Characters, roll \in Rolls : ResolveDyingRound(c, roll)
  \/ \E c \in Characters, target \in AidTargets, roll \in Rolls :
        ResolveFirstAid(c, target, roll)

SessionStep ==
  \E player \in Players, expected \in 0..revision :
    \/ \E chars \in SUBSET Characters, opps \in SUBSET Opponents :
          StartCombat(player, expected, chars, opps)
    \/ EndCombat(player, expected)

TurnStep ==
  \E expected \in 0..revision :
    \/ \E player \in Players, a, d \in Fighters : BeginExchange(player, expected, a, d)
    \/ \E a, d \in Fighters : BeginNpcExchange(expected, a, d)
    \/ \E player \in Players \union {Server}, id \in 1..issued, response \in CombatResponses :
          ResolveExchange(player, expected, id, response)
    \/ \E player \in Players, a \in Fighters : PassTurn(player, expected, a)
    \/ \E a \in Fighters : PassNpcTurn(expected, a)

DamageStep ==
  \E expected \in 0..revision, id \in DOMAIN damage :
    ConsumeIneligible(expected, id) \/ HitCharacter(expected, id) \/ HitOpponent(expected, id)

CombatStep == SessionStep \/ TurnStep \/ DamageStep

Next == GameStep \/ HealthStep \/ CombatStep

Spec == Init /\ [][Next]_vars
=============================================================================
