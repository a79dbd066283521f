----------------------------- MODULE RulesSweep -----------------------------
(***************************************************************************)
(* Walks through two tables of the rules.  The table of exchanges: every   *)
(* pair of percentile rolls, with the response.  The table of blows: a     *)
(* weapon, an armour to hit, and every strength.  A step raises one roll   *)
(* or the strength by one, so an action property compares the verdicts of  *)
(* neighbours.                                                             *)
(***************************************************************************)
EXTENDS CombatRules

CONSTANTS
  SkillTargets,      \* skill values
  MaxStr, Sizes,     \* the strengths and sizes walked through
  Weapons, Armors

ASSUME SweepAssumption ==
  /\ SkillTargets \subseteq 1..100 /\ SkillTargets # {}
  /\ MaxStr \in 1..999
  /\ Sizes \subseteq 1..999
  /\ Armors \subseteq 0..99
  /\ \A w \in Weapons :
       /\ w.count \in Nat \ {0} /\ w.faces \in Nat \ {0} /\ w.modifier \in Int
       /\ w.addsBonus \in BOOLEAN

VARIABLES
  table,      \* what is walked through: exchanges or blows
  attackTarget, defenceTarget, attackRoll, defenceRoll, response,
  str, siz, weapon, armor

exchangeVars == <<attackTarget, defenceTarget, attackRoll, defenceRoll, response>>
blowVars     == <<str, siz, weapon, armor>>
sweepVars    == <<table, exchangeVars, blowVars>>

Attack  == SuccessLevel(attackRoll, attackTarget)
Defence == SuccessLevel(defenceRoll, defenceTarget)
Result  == ResolveOpposed(Attack, Defence, response)

Bonus == DeriveDamageBonus(str, siz)

\* The net damage every roll of the dice can give in a mode.
Outcomes(mode) ==
  {NetDamage(weapon, Bonus, mode, w, b, armor) :
     w \in WeaponTotals(weapon, mode), b \in BonusTotals(weapon, Bonus, mode)}

\* The table that is not walked through stays on one of its entries.
SweepInit ==
  /\ attackRoll = 1
  /\ defenceRoll = 1
  /\ str = 1
  /\ \/ /\ table = "exchanges"
        /\ attackTarget \in SkillTargets
        /\ defenceTarget \in SkillTargets
        /\ response \in CombatResponses
        /\ siz = CHOOSE s \in Sizes : TRUE
        /\ weapon = CHOOSE w \in Weapons : TRUE
        /\ armor = CHOOSE a \in Armors : TRUE
     \/ /\ table = "blows"
        /\ siz \in Sizes
        /\ weapon \in Weapons
        /\ armor \in Armors
        /\ attackTarget = CHOOSE t \in SkillTargets : TRUE
        /\ defenceTarget = CHOOSE t \in SkillTargets : TRUE
        /\ response = CHOOSE c \in CombatResponses : TRUE

WorseAttack ==
  /\ table = "exchanges"
  /\ attackRoll < 100
  /\ attackRoll' = attackRoll + 1
  /\ UNCHANGED <<table, attackTarget, defenceTarget, defenceRoll, response, blowVars>>

WorseDefence ==
  /\ table = "exchanges"
  /\ defenceRoll < 100
  /\ defenceRoll' = defenceRoll + 1
  /\ UNCHANGED <<table, attackTarget, defenceTarget, attackRoll, response, blowVars>>

Stronger ==
  /\ table = "blows"
  /\ str < MaxStr
  /\ str' = str + 1
  /\ UNCHANGED <<table, exchangeVars, siz, weapon, armor>>

SweepNext == WorseAttack \/ WorseDefence \/ Stronger
SweepSpec == SweepInit /\ [][SweepNext]_sweepVars

-----------------------------------------------------------------------------
(* No roll helps its roller by being higher: raising the attack roll never *)
(* raises the attacker's level, and raising either roll never helps the    *)
(* one who rolled it hit.  The fumble and extreme bands are where a slip   *)
(* in the order of the tests would break this.                             *)
HigherRollsNeverHelp ==
  [][ /\ WorseAttack =>
           /\ SuccessLevelRank(Attack') <= SuccessLevelRank(Attack)
           /\ Result'.winner = "attacker" => Result.winner = "attacker"
      /\ WorseDefence =>
           /\ SuccessLevelRank(Defence') <= SuccessLevelRank(Defence)
           /\ Result.winner = "attacker" => Result'.winner = "attacker"
           /\ Result'.mode = "fight_back_regular_cap" =>
                Result.mode = "fight_back_regular_cap" ]_sweepVars

(* The two readings of a difficulty agree: comparing the rank of the level *)
(* with the required rank gives what comparing the roll with the reduced   *)
(* target gives, except for a critical 1, which always passes, and for a   *)
(* fumble, which never does.                                               *)
DifficultyAgreesWithTarget ==
  \A difficulty \in Difficulties :
    Passed(Attack, difficulty) <=>
      \/ attackRoll = 1
      \/ /\ attackRoll <= DifficultyTarget(attackTarget, difficulty)
         /\ ~ IsFumble(attackRoll, attackTarget)

(* An extreme hit does exactly the most that any roll of the same weapon   *)
(* and bonus could do, it needs no roll, and the fight-back mode rolls     *)
(* what the regular mode rolls.                                            *)
ExtremeIsTheMaximum ==
  table = "blows" =>
  LET extreme == Outcomes("initiator_extreme_eligible")
      rolled  == Outcomes("regular")
  IN  /\ rolled = Outcomes("fight_back_regular_cap")
      /\ \E top \in rolled : extreme = {top} /\ \A d \in rolled : d <= top

(* The rules that are written twice agree: the levels of a roll with the   *)
(* targets they stand for (CoreChecks.cs), the maximum of an extreme hit   *)
(* with the dice it replaces (CombatDamage.cs).                            *)
RulesAgree == DifficultyAgreesWithTarget /\ ExtremeIsTheMaximum
=============================================================================
