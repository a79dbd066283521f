----------------------------- MODULE SoloHealth -----------------------------
(* The health rules of the single-player page as pure operators: the damage  *)
(* state (src/hp-damage-state.js), dying rounds and First Aid                *)
(* (src/health-stabilization.js), and natural healing, the weekly roll and   *)
(* Medicine (src/healing-recovery.js).  They are not the server's rules of   *)
(* Health.tla: the page normalizes before every operation, takes HP and      *)
(* conditions from two places, and heals.                                    *)
(*                                                                           *)
(* A health record is [hp, wound, unc, dying, stab, dead].  Histories, time  *)
(* stamps and the records of rolls are left out; a roll is its result.       *)
EXTENDS Integers, Sequences, SequencesExt

HealthFlags == {"wound", "unc", "dying", "stab", "dead"}
Healths(maxHp) == [hp : 0..maxHp, wound : BOOLEAN, unc : BOOLEAN,
                   dying : BOOLEAN, stab : BOOLEAN, dead : BOOLEAN]

(* A new investigator: an explicit, empty health state. *)
NewHealth(maxHp) == [hp |-> maxHp, wound |-> FALSE, unc |-> FALSE,
                     dying |-> FALSE, stab |-> FALSE, dead |-> FALSE]

Clamp(n, low, high) == IF n < low THEN low ELSE IF n > high THEN high ELSE n

-----------------------------------------------------------------------------
(* Damage *)

MajorWoundThreshold(maxHp) == IF maxHp <= 1 THEN 1 ELSE (maxHp + 1) \div 2

(* Every operation starts by this: whoever has no hit points and is not dead *)
(* is unconscious.                                                           *)
Normalized(h) == [h EXCEPT !.unc = @ \/ (h.hp = 0 /\ ~h.dead)]

FaultyDamaged(h, maxHp, event, conFails) ==
    LET major == event.damage >= MajorWoundThreshold(maxHp)
    IN  IF h.dead THEN h
        ELSE [Normalized(h) EXCEPT
                !.wound = @ \/ major,
                !.unc   = @ \/ event.after = 0 \/ (major /\ conFails),
                !.dying = @ \/ (event.after = 0 /\ (h.wound \/ major))]

(* One damage event.  The hit points were set before; a blow of maxHp kills, *)
(* half of it wounds and asks for CON, the last point takes the wounded to   *)
(* the brink, and neither the dying nor the dead stay stabilized.            *)
Damaged(h, maxHp, event, conFails) ==
    LET n     == Normalized(h)
        kills == event.damage >= maxHp
        major == ~kills /\ event.damage >= MajorWoundThreshold(maxHp)
        wound == n.wound \/ major
        dying == ~kills /\ (n.dying \/ (event.after = 0 /\ wound))
    IN  IF n.dead THEN n
        ELSE [n EXCEPT !.dead  = kills,
                       !.wound = wound,
                       !.dying = dying,
                       !.unc   = ~kills /\ (@ \/ event.after = 0 \/ (major /\ conFails)),
                       !.stab  = @ /\ ~dying /\ ~kills]

(* The hit points after each of the amounts, clamped one by one. *)
HpAfter(hp, maxHp, amounts) ==
    LET after[i \in 0..Len(amounts)] ==
            IF i = 0 THEN hp ELSE Clamp(after[i - 1] + amounts[i], 0, maxHp)
    IN  after

(* A commit sets the hit points first and classifies its blows afterwards:   *)
(* each negative amount is a damage event, with the hit points it left.      *)
AdjustHp(h, maxHp, amounts, conFails) ==
    LET n     == Len(amounts)
        after == HpAfter(h.hp, maxHp, amounts)
        upTo[i \in 0..n] ==
            IF i = 0 THEN [h EXCEPT !.hp = after[n]]
            ELSE IF amounts[i] >= 0 THEN upTo[i - 1]
            ELSE Damaged(upTo[i - 1], maxHp,
                         [damage |-> -amounts[i], after |-> after[i]], conFails)
    IN  upTo[n]

-----------------------------------------------------------------------------
(* Dying and First Aid *)

CanAdvanceDying(h) == Normalized(h).dying /\ ~h.dead

(* A failed CON check at the end of a round kills. *)
DyingRound(h, passes) ==
    IF passes THEN Normalized(h)
    ELSE [Normalized(h) EXCEPT !.dead = TRUE, !.dying = FALSE, !.unc = FALSE, !.stab = FALSE]

CanTreat(h, maxHp) == ~h.dead /\ (h.hp < maxHp \/ Normalized(h).unc \/ h.dying)

FaultyFirstAid(h, maxHp) ==
    [Normalized(h) EXCEPT !.hp = Clamp(@ + 1, 0, maxHp), !.dying = FALSE, !.unc = FALSE]

(* A success gives a point, wakes up, and stabilizes the dying; a failure    *)
(* leaves only a record.                                                     *)
FirstAid(h, maxHp) ==
    LET n == Normalized(h)
    IN  [n EXCEPT !.hp = Clamp(@ + 1, 0, maxHp),
                  !.stab = @ \/ n.dying, !.dying = FALSE, !.unc = FALSE]

-----------------------------------------------------------------------------
(* Recovery *)

CanHealNaturally(h, maxHp) == ~h.dead /\ ~h.dying /\ ~h.wound /\ h.hp < maxHp
NaturalDay(h, maxHp) == [Normalized(h) EXCEPT !.hp = Clamp(@ + 1, 0, maxHp)]

(* The wound closes at half of the hit points or on an extreme success, and  *)
(* the stabilization it carried ends with it.                                *)
MaybeClearMajorWound(h, maxHp, extreme) ==
    IF h.wound /\ (extreme \/ h.hp >= (maxHp + 1) \div 2)
    THEN [h EXCEPT !.wound = FALSE, !.stab = FALSE] ELSE h

CanRollWeek(h) == ~h.dead /\ ~h.dying /\ h.wound

(* gain is the sum of the dice: none on a failure, one d3 on a success, two  *)
(* on an extreme one.  The wound may close on a failure too.                 *)
WeekGains(level) == CASE level = "failure" -> {0}
                      [] level = "success" -> 1..3
                      [] level = "extreme" -> 2..6
MajorWoundWeek(h, maxHp, level, gain) ==
    MaybeClearMajorWound([Normalized(h) EXCEPT !.hp = Clamp(@ + gain, 0, maxHp)],
                         maxHp, level = "extreme")

CanUseMedicine(h, maxHp) == ~h.dead /\ ~h.dying /\ (h.hp < maxHp \/ h.wound)
MedicineGains(success) == IF success THEN 1..3 ELSE {0}
Medicine(h, maxHp, success, gain) ==
    LET n == [Normalized(h) EXCEPT !.hp = Clamp(@ + gain, 0, maxHp)]
    IN  IF success THEN MaybeClearMajorWound(n, maxHp, FALSE) ELSE n
=============================================================================
