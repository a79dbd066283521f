--------------------------- MODULE CharacterHealth ---------------------------
(***************************************************************************)
(* The health of one investigator under the trusted health operations of   *)
(* the game coordinator, in any order: ApplyDamage, ResolveDyingRound and  *)
(* ResolveFirstAid.  Each operation reads the record, runs one engine and  *)
(* replaces the record under the room's lock, so each is one step.         *)
(***************************************************************************)
EXTENDS Health, FiniteSets

CONSTANTS
  Keys,          \* damage event keys the callers use
  MaxHps, Cons,  \* the bodies a character may be created with
  Damages,       \* damage amounts of ApplyDamage
  Targets,       \* First Aid targets
  Rolls          \* percentile rolls

ASSUME InputsAssumption ==
  /\ MaxHps \subseteq Nat \ {0}
  /\ Cons \subseteq 0..100
  /\ Damages \subseteq Nat \ {0}
  /\ Targets \subseteq Percentile
  /\ Rolls \subseteq Percentile

VARIABLES
  body,     \* [maxHp, con], fixed when the game is initialised
  health

vars == <<body, health>>

Init ==
  /\ body \in [maxHp : MaxHps, con : Cons]
  /\ \E hp \in 0..body.maxHp : health = NewHealth(hp)

ApplyDamage(key, damage, conRoll) ==
  /\ TakesDamage(health, key)
  /\ health' = Damaged(health, body.maxHp, body.con, key, damage, conRoll)
  /\ UNCHANGED body

ResolveDyingRound(roll) ==
  /\ AcceptsDyingRound(health, body.con)
  /\ health' = AfterDyingRound(health, body.con, roll)
  /\ UNCHANGED body

ResolveFirstAid(target, roll) ==
  /\ AcceptsFirstAid(health, body.maxHp)
  /\ health' = AfterFirstAid(health, body.maxHp, target, roll)
  /\ UNCHANGED body

Next ==
  \/ \E key \in Keys, damage \in Damages, roll \in Rolls :
        ApplyDamage(key, damage, roll)
  \/ \E roll \in Rolls : ResolveDyingRound(roll)
  \/ \E target \in Targets, roll \in Rolls : ResolveFirstAid(target, roll)

Spec == Init /\ [][Next]_vars

-----------------------------------------------------------------------------
(* Type invariant: the record keeps its shape, HP stays within the body    *)
(* and no history outgrows its limit (HpDamageResolution.cs:14-16; the     *)
(* stabilization engine rejects a record that breaks this).                *)
TypeOK ==
  /\ body \in [maxHp : MaxHps, con : Cons]
  /\ health \in HealthRecord(Keys)
  /\ health.hp <= body.maxHp
  /\ Len(health.events) <= HistoryLimit
  /\ Len(health.checks) <= DyingCheckLimit
  /\ health.treatments <= TreatmentLimit

(* The four overlapping conditions never contradict each other, whatever   *)
(* sequence of blows, checks and treatments produced the record.  In       *)
(* particular the living at 0 HP with a major wound are always dying, so   *)
(* none of them escapes the dying checks.                                  *)
Consistent == ConditionsConsistent(health)

(* The history of blows never loses a key that is not the oldest of a full *)
(* history, whatever blows, checks and treatments follow it                *)
(* (HpDamageResolution.cs:149).                                            *)
OnlyTheOldestEventIsForgotten ==
  [][ \A i \in 1..Len(health.events) :
        \/ \E j \in 1..Len(health'.events) :
              health'.events[j] = health.events[i]
        \/ i = 1 /\ Len(health.events) = HistoryLimit ]_vars

-----------------------------------------------------------------------------
(* The record implements the life cycle. *)

Life == INSTANCE HealthLifecycle WITH condition <- ConditionOf(health)

(* Every operation moves the character along the life cycle or leaves its  *)
(* condition alone: the dead stay dead, the dying leave that state only by *)
(* First Aid or death, and only the dying are ever stabilized.             *)
FollowsLifecycle == Life!Spec
=============================================================================
