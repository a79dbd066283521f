------------------------------- MODULE Health -------------------------------
(***************************************************************************)
(* The health rules of one investigator, as pure operators: the damage     *)
(* engine (Gameplay/HpDamageResolution.cs) and the stabilization engine    *)
(* (Gameplay/HealthStabilizationResolution.cs).  A health record holds the *)
(* fields later rules read:                                                *)
(*   hp, majorWound, unconscious  as in CharacterHealthState               *)
(*   dying       DyingEpisode is present                                   *)
(*   checks      the ordinals of DyingEpisode.Checks, oldest first           *)
(*   nextOrdinal DyingEpisode.NextRoundOrdinal                             *)
(*   stabilized  Stabilized is present                                     *)
(*   dead        DeadCondition is present                                  *)
(*   treatments  TreatmentHistory.Count                                    *)
(*   events      the keys of the retained damage events, oldest first      *)
(* Maximum HP and CON never change, so the operators take them as          *)
(* arguments.  Time stamps, source labels and roll records are left out.   *)
(*                                                                         *)
(* Here and in the other modules an operator named Faulty... is a slip of  *)
(* the definition after it: replacing that definition by it must break a   *)
(* property.  Nothing else uses these operators.                           *)
(***************************************************************************)
EXTENDS Integers, Sequences

CONSTANTS
  HistoryLimit,      \* retained damage events (80 in the code)
  DyingCheckLimit,   \* retained dying checks of one episode (40)
  TreatmentLimit     \* retained treatments (60)

ASSUME LimitsAssumption ==
  /\ HistoryLimit \in Nat \ {0}
  /\ DyingCheckLimit \in Nat \ {0}
  /\ TreatmentLimit \in Nat \ {0}

Percentile == 1..100

Least(a, b) == IF a <= b THEN a ELSE b

FaultyTakeFewer(s, n) == IF Len(s) <= n THEN s ELSE SubSeq(s, Len(s) - n + 2, Len(s))

\* LINQ TakeLast(n).
TakeLast(s, n) == IF Len(s) <= n THEN s ELSE SubSeq(s, Len(s) - n + 1, Len(s))

\* The records the engines work on, for event keys taken from Keys.
HealthRecord(Keys) ==
  [hp : Nat, majorWound : BOOLEAN, unconscious : BOOLEAN,
   dying : BOOLEAN, checks : Seq(Nat), nextOrdinal : Nat,
   stabilized : BOOLEAN, dead : BOOLEAN, treatments : Nat,
   events : Seq(Keys)]

\* A character as the game is initialised with hp hit points.
NewHealth(hp) ==
  [hp |-> hp, majorWound |-> FALSE, unconscious |-> hp = 0,
   dying |-> FALSE, checks |-> << >>, nextOrdinal |-> 0,
   stabilized |-> FALSE, dead |-> FALSE, treatments |-> 0,
   events |-> << >>]

-----------------------------------------------------------------------------
(* Damage *)

MajorWoundThreshold(maxHp) == (maxHp + 1) \div 2

\* A positive blow short of instant death that reaches the threshold.
RequiresConRoll(maxHp, damage) ==
  /\ damage > 0
  /\ damage < maxHp
  /\ damage >= MajorWoundThreshold(maxHp)

\* Apply returns the state unchanged for a key still in the history, and for
\* the dead; otherwise the blow counts.
TakesDamage(h, key) ==
  /\ \A i \in 1..Len(h.events) : h.events[i] # key
  /\ ~ h.dead

FaultyFreshDying(h, maxHp, damage) ==
  ~ h.dying /\ damage >= h.hp /\ RequiresConRoll(maxHp, damage)

\* The blow makes a conscious or merely unconscious character start to die.
FreshDying(h, maxHp, damage) ==
  /\ ~ h.dying
  /\ damage >= h.hp
  /\ h.majorWound \/ RequiresConRoll(maxHp, damage)

Killed(h, hp, events) ==
  [h EXCEPT !.hp = hp, !.unconscious = FALSE, !.dying = FALSE,
            !.checks = << >>, !.nextOrdinal = 0,
            !.stabilized = FALSE, !.dead = TRUE, !.events = events]

Wounded(h, hp, events, wound, conFailed, fresh) ==
  [h EXCEPT !.hp = hp,
            !.majorWound = h.majorWound \/ wound,
            !.unconscious = h.unconscious \/ (wound /\ conFailed) \/ hp = 0,
            !.dying = h.dying \/ fresh,
            !.checks = IF fresh THEN << >> ELSE h.checks,
            !.nextOrdinal = IF fresh THEN 1 ELSE h.nextOrdinal,
            !.stabilized = h.stabilized /\ ~ fresh,
            !.events = events]

\* CocHpDamageEngine.Apply on a blow that counts (see TakesDamage).
Damaged(h, maxHp, con, key, damage, conRoll) ==
  LET hp     == IF damage >= h.hp THEN 0 ELSE h.hp - damage
      events == TakeLast(Append(h.events, key), HistoryLimit)
  IN  IF damage >= maxHp
      THEN Killed(h, hp, events)
      ELSE Wounded(h, hp, events, RequiresConRoll(maxHp, damage),
                   conRoll > con, FreshDying(h, maxHp, damage))

-----------------------------------------------------------------------------
(* Dying checks and First Aid *)

\* ResolveDyingRound does not throw: CON 0 is an invalid check target.
AcceptsDyingRound(h, con) ==
  /\ ~ h.dead
  /\ h.dying
  /\ con \in Percentile

\* A failed check kills; a passed one is recorded under the next ordinal.
Expired(h) ==
  [h EXCEPT !.dying = FALSE, !.checks = << >>, !.nextOrdinal = 0,
            !.stabilized = FALSE, !.unconscious = FALSE, !.dead = TRUE]

Survived(h) ==
  LET ordinal == Len(h.checks) + 1
  IN  [h EXCEPT !.checks = TakeLast(Append(@, ordinal), DyingCheckLimit),
                !.nextOrdinal = ordinal + 1,
                !.stabilized = FALSE]

AfterDyingRound(h, con, roll) == IF roll > con THEN Expired(h) ELSE Survived(h)

\* There is something to treat.
AcceptsFirstAid(h, maxHp) ==
  /\ ~ h.dead
  /\ h.hp < maxHp \/ h.unconscious \/ h.dying

FaultyStabilized(h, maxHp) ==
  [h EXCEPT !.hp = Least(maxHp, @ + 1), !.unconscious = FALSE, !.dying = FALSE,
            !.checks = << >>, !.nextOrdinal = 0, !.stabilized = TRUE]

\* Successful First Aid: one hit point, and the dying are stabilized.
Revived(h, maxHp) ==
  [h EXCEPT !.hp = Least(maxHp, @ + 1), !.unconscious = FALSE, !.dying = FALSE,
            !.checks = << >>, !.nextOrdinal = 0, !.stabilized = h.dying]

AfterFirstAid(h, maxHp, target, roll) ==
  LET treated == [h EXCEPT !.treatments = Least(@ + 1, TreatmentLimit)]
  IN  IF roll > target THEN treated ELSE Revived(treated, maxHp)

\* The round wrap looks only at the dying who are neither stabilized nor dead.
CanScheduleDying(h) ==
  /\ h.dying
  /\ ~ h.stabilized
  /\ ~ h.dead

\* The condition that decides what may happen next.
ConditionOf(h) ==
  IF h.dead THEN "dead"
  ELSE IF h.dying THEN "dying"
  ELSE IF h.stabilized THEN "stabilized"
  ELSE "up"

-----------------------------------------------------------------------------
(* What the conditions of one record must never contradict.  The engines   *)
(* keep four overlapping conditions; ValidateState rejects a dead record   *)
(* that still carries one of them.                                         *)

DeadIsFinalCondition(h) ==
  h.dead => ~ h.dying /\ ~ h.stabilized /\ ~ h.unconscious

\* The living at 0 HP are dying exactly when they have had a major wound.
DyingIffMortallyWounded(h) ==
  h.dying <=> (h.hp = 0 /\ h.majorWound /\ ~ h.dead)

\* Stabilization is evidence of a survived dying episode, with HP regained.
StabilizedIsOffTheFloor(h) ==
  h.stabilized => h.hp > 0 /\ h.majorWound

UnconsciousAtZero(h) ==
  (h.hp = 0 /\ ~ h.dead) => h.unconscious

ConditionsConsistent(h) ==
  /\ DeadIsFinalCondition(h)
  /\ DyingIffMortallyWounded(h)
  /\ StabilizedIsOffTheFloor(h)
  /\ UnconsciousAtZero(h)
=============================================================================
