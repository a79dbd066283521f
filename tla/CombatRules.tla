---------------------------- MODULE CombatRules ----------------------------
(***************************************************************************)
(* The pure rules of one exchange of blows: the percentile check           *)
(* (Gameplay/CheckResolution.cs), the opposed roll                         *)
(* (Gameplay/CombatOpposedResolution.cs) and the damage of a hit           *)
(* (Gameplay/CombatDamageResolution.cs).  Percentile and dice totals are   *)
(* arguments: the coordinator obtains them from the server's dice roller.  *)
(***************************************************************************)
EXTENDS Integers

Levels == {"critical", "extreme", "hard", "regular", "failure", "fumble"}
Difficulties == {"regular", "hard", "extreme"}
CombatResponses == {"dodge", "fight_back"}
DamageModes == {"regular", "initiator_extreme_eligible", "fight_back_regular_cap"}

-----------------------------------------------------------------------------
(* Percentile checks *)

IsFumble(roll, target) == IF target < 50 THEN roll >= 96 ELSE roll = 100

SuccessLevel(roll, target) ==
  CASE roll = 1                                      -> "critical"
    [] roll # 1 /\ IsFumble(roll, target)            -> "fumble"
    [] roll # 1 /\ ~ IsFumble(roll, target)          ->
         IF roll <= target \div 5 THEN "extreme"
         ELSE IF roll <= target \div 2 THEN "hard"
         ELSE IF roll <= target THEN "regular"
         ELSE "failure"

FaultySuccessLevelRank(level) ==
  CASE level = "critical" -> 4
    [] level = "extreme"  -> 3
    [] level = "regular"  -> 2
    [] level = "hard"     -> 1
    [] OTHER              -> 0

SuccessLevelRank(level) ==
  CASE level = "critical" -> 4
    [] level = "extreme"  -> 3
    [] level = "hard"     -> 2
    [] level = "regular"  -> 1
    [] OTHER              -> 0

RequiredRank(difficulty) ==
  CASE difficulty = "extreme" -> 3
    [] difficulty = "hard"    -> 2
    [] OTHER                  -> 1

DifficultyTarget(target, difficulty) ==
  CASE difficulty = "extreme" -> target \div 5
    [] difficulty = "hard"    -> target \div 2
    [] OTHER                  -> target

Passed(level, difficulty) == SuccessLevelRank(level) >= RequiredRank(difficulty)

-----------------------------------------------------------------------------
(* Opposed rolls.  winner is the side that wins, mode how it may do damage *)

Verdict(winner, mode) == [winner |-> winner, mode |-> mode]

AttackerHits(attack) ==
  Verdict("attacker", IF SuccessLevelRank(attack) >= SuccessLevelRank("extreme")
                      THEN "initiator_extreme_eligible" ELSE "regular")

NobodyHits == Verdict("nobody", "none")

ResolveDodge(attack, defence) ==
  IF Passed(attack, "regular")
     /\ SuccessLevelRank(attack) > SuccessLevelRank(defence)
  THEN AttackerHits(attack)
  ELSE IF Passed(attack, "regular") \/ Passed(defence, "regular")
  THEN Verdict("defender", "none")
  ELSE NobodyHits

ResolveFightBack(attack, defence) ==
  IF Passed(defence, "regular")
     /\ SuccessLevelRank(defence) > SuccessLevelRank(attack)
  THEN Verdict("defender", "fight_back_regular_cap")
  ELSE IF Passed(attack, "regular")
  THEN AttackerHits(attack)
  ELSE NobodyHits

ResolveOpposed(attack, defence, response) ==
  IF response = "dodge" THEN ResolveDodge(attack, defence)
  ELSE ResolveFightBack(attack, defence)

-----------------------------------------------------------------------------
(* Damage.  A weapon is [count, faces, modifier, addsBonus]; a damage      *)
(* bonus is [kind, flat, count, faces].                                    *)

FlatBonus(value) == [kind |-> "flat", flat |-> value, count |-> 0, faces |-> 0]
DiceBonus(n, f)  == [kind |-> "dice", flat |-> 0, count |-> n, faces |-> f]

DeriveDamageBonus(str, siz) ==
  LET sum == str + siz
  IN  CASE sum <= 64                -> FlatBonus(-2)
        [] sum > 64 /\ sum <= 84    -> FlatBonus(-1)
        [] sum > 84 /\ sum <= 124   -> FlatBonus(0)
        [] sum > 124 /\ sum <= 164  -> DiceBonus(1, 4)
        [] sum > 164 /\ sum <= 204  -> DiceBonus(1, 6)
        [] sum > 204                -> DiceBonus(2 + ((sum - 205) \div 80), 6)

\* The totals a roll of n dice with f faces can give.
DiceTotals(n, f) == n..(n * f)

\* An extreme hit is not rolled; the other modes roll the weapon and, for a
\* weapon that takes a dice bonus, the bonus.  0 stands for "not rolled".
WeaponTotals(weapon, mode) ==
  IF mode = "initiator_extreme_eligible" THEN {0}
  ELSE DiceTotals(weapon.count, weapon.faces)

BonusTotals(weapon, bonus, mode) ==
  IF mode = "initiator_extreme_eligible" \/ ~ weapon.addsBonus \/ bonus.kind = "flat"
  THEN {0}
  ELSE DiceTotals(bonus.count, bonus.faces)

WeaponDamage(weapon, mode, weaponTotal) ==
  weapon.modifier + (IF mode = "initiator_extreme_eligible"
                     THEN weapon.count * weapon.faces ELSE weaponTotal)

FaultyBonusDamage(weapon, bonus, mode, bonusTotal) ==
  IF ~ weapon.addsBonus THEN 0
  ELSE IF bonus.kind = "flat" THEN bonus.flat
  ELSE IF mode = "initiator_extreme_eligible" THEN bonus.faces ELSE bonusTotal

BonusDamage(weapon, bonus, mode, bonusTotal) ==
  IF ~ weapon.addsBonus THEN 0
  ELSE IF bonus.kind = "flat" THEN bonus.flat
  ELSE IF mode = "initiator_extreme_eligible" THEN bonus.count * bonus.faces
  ELSE bonusTotal

FaultyAtLeastZero(n) == n

AtLeastZero(n) == IF n > 0 THEN n ELSE 0

GrossDamage(weapon, bonus, mode, weaponTotal, bonusTotal) ==
  AtLeastZero(WeaponDamage(weapon, mode, weaponTotal)
              + BonusDamage(weapon, bonus, mode, bonusTotal))

NetDamage(weapon, bonus, mode, weaponTotal, bonusTotal, armor) ==
  AtLeastZero(GrossDamage(weapon, bonus, mode, weaponTotal, bonusTotal) - armor)
=============================================================================
