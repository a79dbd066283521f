-------------------------- MODULE CombatProperties --------------------------
(***************************************************************************)
(* What the canonical game must never get wrong, for the module Combat.    *)
(***************************************************************************)
EXTENDS Combat

(* Shape of the state. *)

Exchanges ==
  [id : Nat, round : Nat, attacker : Fighters, defender : Fighters,
   outnumbered : BOOLEAN, winner : {"attacker", "defender", "nobody"}]

PendingExchanges ==
  [id : Nat, round : Nat, turn : Nat, attacker : Fighters,
   defender : Fighters, responsesBefore : Nat, created : Nat]

Dispositions ==
  [owner : Fighters, target : Fighters, mode : DamageModes, created : Nat,
   status : {"pending", "consumed"}, outcome : {"none", "applied", "ineligible"},
   net : Nat, hpBefore : Nat, hpAfter : Nat]

DamageKeys == ({"combat"} \X Nat) \union ({"trusted"} \X EventKeys)

SessionTypeOK ==
  /\ phase \in {"none", "active", "ended"}
  /\ round \in Nat /\ turn \in Nat
  /\ order \in Seq(Fighters)
  /\ standing \subseteq InFight
  /\ vitality \in [Opponents -> Nat]
  /\ pending \in PendingExchanges \union {NoExchange}
  /\ pending # NoExchange => pending.id \in 1..issued
  /\ DOMAIN damage \subseteq 1..issued
  /\ damage \in [DOMAIN damage -> Dispositions]
  /\ schedule \in [Characters -> [observed : Nat, last : Nat]]
  /\ acted \in [Fighters -> Nat] /\ responded \in [Fighters -> Nat]
  /\ exchanges \in Seq(Exchanges)
  /\ Len(exchanges) <= ExchangeHistoryLimit
  /\ endReason \in {"none", "opposition_defeated", "investigators_defeated",
                    "combat_ended_before_resolution"}

(* Type invariant of the game and its combat session; hit points never     *)
(* exceed a character's maximum.                                           *)
TypeOK ==
  /\ stage \in {"lobby", "running", "closed"}
  /\ revision \in Nat
  /\ issued \in Nat
  /\ roster \subseteq Characters
  /\ health \in [Characters -> HealthRecord(DamageKeys)]
  /\ \A c \in Characters : health[c].hp <= MaxHp[c]
  /\ SessionTypeOK

-----------------------------------------------------------------------------
(* Turns *)

(* An active combat always has a current actor: its turn index names a     *)
(* fighter that stands ("never leave an active session without a current   *)
(* actor", combat-damage-design.md:367).  The turn moves on before the hit *)
(* is settled, so the settled hit may fell the new actor: repair must find *)
(* the next one, across the end of the round if need be.                   *)
CurrentActorStands ==
  phase = "active" => turn \in 1..Len(order) /\ order[turn] \in standing

(* Within a round the fighters still standing have acted exactly once if   *)
(* their turn is past and not at all if it is to come, whatever deaths,    *)
(* repairs and wraps happened ("A cannot act twice, C is not skipped",     *)
(* combat-damage-design.md:356).                                           *)
EveryoneActsOncePerRound ==
  phase = "active" =>
    \A i \in 1..Len(order) :
      order[i] \in standing => acted[order[i]] = (IF i < turn THEN 1 ELSE 0)

(* The response counts that grant the attacker a bonus die are those of    *)
(* the round at hand: a fighter's count is the number of its defences in   *)
(* this round's exchanges, and an exchange was outnumbered exactly when    *)
(* the defender had already used up its allowance in that round.  The cut  *)
(* of the history may have taken exchanges of the oldest round in it.      *)
DefencesOf(p, r, n) ==
  Cardinality({i \in 1..n : exchanges[i].round = r /\ exchanges[i].defender = p})

WhollyKept(r) == Len(exchanges) < ExchangeHistoryLimit \/ exchanges[1].round < r

ResponsesCounted ==
  phase = "active" =>
    /\ \A p \in Fighters : responded[p] = DefencesOf(p, round, Len(exchanges))
    /\ \A i \in 1..Len(exchanges) :
         LET p == exchanges[i].defender
             r == exchanges[i].round
         IN  WhollyKept(r) =>
               (exchanges[i].outnumbered <=> DefencesOf(p, r, i - 1) >= Allowance[p])

-----------------------------------------------------------------------------
(* Exchanges and hits *)

(* One thing is open at a time: an unanswered attack or a single unsettled *)
(* hit, never both, and nothing stays open once the combat is over.        *)
OneThingOpen ==
  /\ \A id, other \in PendingDamage : id = other
  /\ Blocked => pending = NoExchange /\ phase = "active"
  /\ pending # NoExchange => phase = "active"

(* The open attack is the one of the current actor in the current round:   *)
(* both sides still stand and the snapshot of the defender's responses is  *)
(* still the live count, so the bonus die granted later is right.          *)
PendingExchangeIsCurrent ==
  pending # NoExchange =>
    /\ pending.round = round /\ pending.turn = turn
    /\ pending.attacker = order[turn]
    /\ {pending.attacker, pending.defender} \subseteq standing
    /\ Side(pending.attacker) # Side(pending.defender)
    /\ pending.responsesBefore = responded[pending.defender]
    /\ pending.id \notin DOMAIN damage

\* The sum of f[1], ..., f[n].
RunningTotal(f, n) ==
  LET total[i \in 0..n] == IF i = 0 THEN 0 ELSE total[i - 1] + f[i]
  IN  total[n]

LossBy(id, o) ==
  IF id \in DOMAIN damage /\ damage[id].status = "consumed" /\ damage[id].target = o
  THEN damage[id].hpBefore - damage[id].hpAfter ELSE 0

LossOf(o) == RunningTotal([id \in 1..issued |-> LossBy(id, o)], issued)

(* An opponent has lost exactly the hit points the settled hits on it      *)
(* record: no hit is applied twice, half, or to another fighter.           *)
OpponentLedger ==
  phase # "none" =>
    \A o \in Opponents \intersect InFight : vitality[o] = OpponentHp[o] - LossOf(o)

(* The books of a combat balance: the response counts with the history of  *)
(* exchanges (GameCoordinator.cs:691, 734-745), the opponents' hit points  *)
(* with the settled hits (GameCoordinator.cs:921-934).                     *)
ExchangesAddUp == ResponsesCounted /\ OpponentLedger

(* A hit reaches a character's health only by being settled: the event key *)
(* of an exchange of this session is in the damage history only if that    *)
(* hit was applied to that character with positive net damage.             *)
ChargedOnlyWhenSettled ==
  \A c \in Characters : \A i \in 1..Len(health[c].events) :
    LET key == health[c].events[i]
    IN  key[1] = "combat" /\ key[2] \in DOMAIN damage =>
          LET hit == damage[key[2]]
          IN  hit.status = "consumed" /\ hit.outcome = "applied"
              /\ hit.target = c /\ hit.net > 0

(* A settled hit is never settled again nor changed: a repeated command    *)
(* finds the same result as long as the session lasts.                     *)
SettledIsFinal ==
  [][ \A id \in DOMAIN damage :
        damage[id].status = "consumed" =>
          \/ id \in DOMAIN damage' /\ damage'[id] = damage[id]
          \/ phase # "active"
          \/ stage' = "closed" ]_vars

(* Fighters leave the turn order only for good reason, and the combat ends *)
(* by itself exactly when a settled hit leaves a side without fighters:    *)
(* a character that is out is dead, an opponent is out exactly at 0 HP,    *)
(* and an active combat still has an opponent to fight.                    *)
OutForAReason ==
  phase # "none" =>
    /\ \A c \in (Characters \intersect InFight) \ standing : health[c].dead
    /\ \A o \in Opponents \intersect InFight : o \in standing <=> vitality[o] > 0
    /\ phase = "active" => standing \intersect Opponents # {}
    /\ endReason = "opposition_defeated" => standing \intersect Opponents = {}
    /\ endReason = "investigators_defeated" => standing \intersect Characters = {}
    /\ phase = "ended" <=> endReason # "none"

-----------------------------------------------------------------------------
(* Dying in combat *)

(* A dying fighter is on the schedule and misses no check: by the time a   *)
(* round begins, it was seen dying no earlier than the round before, or    *)
(* was checked at the end of it (combat-opposed-design.md:306-310).        *)
Punctual(c) ==
  /\ schedule[c] # NotScheduled
  /\ schedule[c].observed >= round - 1 \/ schedule[c].last = round - 1

DyingCheckedEveryRound ==
  phase = "active" =>
    \A c \in Characters \intersect standing :
      CanScheduleDying(health[c]) /\ Con[c] > 0 => Punctual(c)

(* The conditions of every character stay consistent through trusted       *)
(* operations, hits and round ends alike.                                  *)
HealthConsistent == \A c \in Characters : ConditionsConsistent(health[c])

(* "no active investigator participants: end with investigators_defeated"  *)
(* (combat-damage-design.md:366): an active combat has a standing          *)
(* investigator, which the NPC driver takes for granted                    *)
(* (NpcCombatContinuation.cs:99-102).                                      *)
SomebodyToFight ==
  phase = "active" => standing \intersect Characters # {}

-----------------------------------------------------------------------------
(* The session implements the protocol of its clients. *)

ProtocolStep ==
  CASE phase = "none"                                        -> "none"
    [] phase = "ended" /\ ~ Blocked                          -> "over"
    [] phase = "ended" /\ Blocked                            -> "dropped"
    [] phase = "active" /\ Blocked                           -> "settling"
    [] phase = "active" /\ ~ Blocked /\ pending # NoExchange -> "answering"
    [] OTHER                                                 -> "choosing"

Protocol == INSTANCE CombatProtocol WITH step <- ProtocolStep

(* Every operation on the session is one step of the protocol or leaves    *)
(* it where it is: an attack is answered, then its hit settled, before     *)
(* anyone else acts, and a manual end never drops a hit.                   *)
FollowsProtocol == Protocol!Spec

Life(c) == INSTANCE HealthLifecycle WITH condition <- ConditionOf(health[c])

(* In combat too, each commit moves a character by at most one step of the *)
(* life cycle, whatever it does at once: a hit, a dying check, First Aid,  *)
(* or a hit and the dying check of the round end it causes.                *)
FollowsLifecycle ==
  /\ \A c \in Characters : Life(c)!Init
  /\ [][ \A c \in Characters :
          Life(c)!Next \/ UNCHANGED ConditionOf(health[c]) ]_vars
=============================================================================
