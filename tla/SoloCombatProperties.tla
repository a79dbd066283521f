------------------------ MODULE SoloCombatProperties ------------------------
(* What Combat Mode and the health rules of the single-player page promise.  *)
EXTENDS SoloCombat

(* Conditions that are set and cleared by three modules agree: the dead have *)
(* no other condition than their wound, the dying are wounded and not        *)
(* stabilized, and nobody without hit points is awake                        *)
(* (src/hp-damage-state.js:43-48, src/health-stabilization.js:56,            *)
(* src/healing-recovery.js:30).                                              *)
ConditionsAgree ==
    /\ health.dead => ~health.dying /\ ~health.unc /\ ~health.stab
    /\ health.dying => health.wound /\ ~health.stab
    /\ health.stab => health.wound
    /\ health.hp = 0 => health.unc \/ health.dead

(* The fields of the character's health and of state.campaign.combat, and    *)
(* the indices the handlers use them with (src/combat-opposed.js:36).        *)
TypeOK ==
    /\ health \in Healths(MaxHp[Player]) /\ ConditionsAgree
    /\ combat.on \in BOOLEAN
    /\ combat.on =>
        /\ combat.round \in 1..MaxRound
        /\ ToSet(combat.order) \subseteq Fighters
        /\ IsInjective(combat.order)
        /\ combat.turn \in 0..(Len(combat.order) - 1)
        /\ combat.observed \in 0..combat.round
        /\ combat.lastCheck \in 0..combat.round
    /\ combat.acted \in [Fighters -> Nat]
    /\ combat.hp \in [Opponents -> Nat]
    /\ \A p \in Opponents : combat.hp[p] <= MaxHp[p]
    /\ combat.body \in 0..MaxHp[Player]
    /\ combat.up \in [Fighters -> BOOLEAN]
    /\ combat.forfeit \in [Fighters -> 0..1]

Condition == IF health.dead THEN "dead" ELSE IF health.dying THEN "dying"
             ELSE IF health.stab THEN "stabilized" ELSE "up"
Lifecycle == INSTANCE HealthLifecycle WITH condition <- Condition

(* Blows, First Aid, dying rounds, recovery, replies and secret checks only  *)
(* move the investigator along the life cycle: death is final, and nothing   *)
(* but First Aid ends dying (src/health-stabilization.js:59-73).             *)
FollowsLifecycle == Lifecycle!Spec

(* In a combat that goes on, at most one end of a round passes between the   *)
(* moment dying is seen and a CON check, whoever falls and whichever way the *)
(* round ends (src/combat-opposed.js:109).                                   *)
DyingCheckedEveryRound == combat.on => past.unchecked <= 1

(* Whoever still fights acts once in a round at most. *)
ActsOncePerRound == combat.on => \A p \in Fighters : combat.up[p] => combat.acted[p] <= 1

(* When a round ends, everybody who fought in it and still fights has acted, *)
(* but for the actor whose own step ends it.                                 *)
NobodyIsSkipped ==
    combat.on /\ combat'.on /\ combat'.round # combat.round =>
      \A p \in Fighters \ {CurrentActor(combat)} :
         combat.up[p] /\ combat'.up[p] => combat.acted[p] >= 1

(* Everybody has one turn in a round, though defeats move the turn back to   *)
(* the first who has not acted (src/combat-damage.js:57-61,                  *)
(* src/combat-opposed.js:80).                                                *)
OneTurnEach == [][ActsOncePerRound' /\ NobodyIsSkipped]_vars

(* A combat only goes on while both sides can fight, unless the story        *)
(* changed the investigator's health beside it (src/combat-damage.js:58-59). *)
BothSidesStand ==
    combat.on =>
        /\ \E p \in Opponents : combat.up[p] /\ combat.hp[p] > 0
        /\ ~past.outside => ~health.dead

(* "The net damage the player takes goes into the HP damage state"           *)
(* (README.md:38): no blow on an active investigator who has hit points and  *)
(* does damage is lost (src/combat-damage.js:64).                            *)
BlowsReachHealth == ~past.lost
=============================================================================
