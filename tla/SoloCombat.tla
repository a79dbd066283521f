----------------------------- MODULE SoloCombat -----------------------------
(* The single-player page's Combat Mode and everything that touches the      *)
(* investigator's health beside it: order and rounds of a combat             *)
(* (src/combat-opposed.js), blows and defeat (src/combat-damage.js), shots   *)
(* (src/firearms-impaling.js), First Aid, dying rounds and recovery by the   *)
(* player, and the hit points the keeper's replies and secret checks change. *)
(*                                                                           *)
(* The health is the character's; the combat keeps a copy of the hit points  *)
(* in its own participant (body).  A request under way refuses what a combat *)
(* and recovery do, but neither First Aid nor a dying round of the player's  *)
(* (src/health-stabilization.js:59-76).  A reply is prepared and committed   *)
(* without a pause, so that its commit is one step.  Dice are results: the   *)
(* bonus and penalty dice of a roll are left out, every level may come up.   *)
EXTENDS SoloHealth, SoloConsequences

CONSTANTS
    Player,
    Roster,      \* the participants as they joined, the player first
    Initiative,  \* [participants -> DEX, +50 with a readied firearm]
    MaxHp,       \* [participants -> Nat]
    Arms,        \* [participants -> [kind, dice, bonus, armor]]
    Blows,       \* the adjustHp amounts a reply or a secret check brings
    Records,     \* the check records a continuation answers
    MaxRound     \* bound: the rounds of one combat

VARIABLES
    health,   \* the character's health record
    combat,   \* state.campaign.combat
    past      \* history: [unchecked, outside, lost]

vars == <<health, combat, past>>

Fighters  == ToSet(Roster)
Opponents == Fighters \ {Player}
Levels    == 0..4   \* COMBAT_SUCCESS_LEVEL: failure .. critical
IsFirearm(p) == Arms[p].kind = "firearm"

(* combatStart and the loadouts clamp what they are given: at least one      *)
(* opponent, a positive maximum of hit points, whole armor that is never     *)
(* negative, dice with a largest total.                                      *)
HasMax(S) == \E top \in S : \A x \in S : x <= top
ASSUME RosterAssumption ==
    /\ Roster \in Seq(Fighters) /\ IsInjective(Roster)
    /\ Player \in Fighters /\ Opponents # {}
ASSUME ProfileAssumption ==
    /\ MaxRound \in Nat
    /\ \A p \in Fighters :
         /\ Initiative[p] \in Int /\ MaxHp[p] \in Nat \ {0} /\ Arms[p].armor \in Nat
         /\ Arms[p].dice \subseteq Int /\ HasMax(Arms[p].dice)
         /\ Arms[p].bonus \subseteq Int /\ HasMax(Arms[p].bonus)

Before(p, q) ==
    LET place(r) == CHOOSE i \in DOMAIN Roster : Roster[i] = r
    IN  \/ Initiative[p] > Initiative[q]
        \/ Initiative[p] = Initiative[q] /\ place(p) < place(q)

(* Some participants by descending initiative, ties as they joined. *)
combatOrder(some) ==
    [i \in 1..Cardinality(some) |->
        CHOOSE p \in some : Cardinality({q \in some : Before(q, p)}) = i - 1]

(* A combat that is over is overwritten by the next one. *)
NoCombat ==
    [on |-> FALSE, round |-> 0, turn |-> 0, order |-> <<>>,
     acted |-> [p \in Fighters |-> 0], hp |-> [p \in Opponents |-> 0], body |-> 0,
     up |-> [p \in Fighters |-> FALSE], forfeit |-> [p \in Fighters |-> 0],
     observed |-> 0, lastCheck |-> 0]

Init ==
    /\ health = NewHealth(MaxHp[Player])
    /\ combat = NoCombat
    /\ past = [unchecked |-> 0, outside |-> FALSE, lost |-> FALSE]

Becomes(h, c, p) ==
    /\ c.round <= MaxRound
    /\ health' = h
    /\ combat' = IF c.on THEN c ELSE NoCombat
    /\ past' = IF c.on THEN p ELSE [p EXCEPT !.unchecked = 0, !.outside = FALSE]

-----------------------------------------------------------------------------
(* Turns and rounds.  A handler turns s = [c, h, p] (combat, health, past)   *)
(* into another one.                                                         *)

Now == [c |-> combat, h |-> health, p |-> past]

Side(p) == IF p = Player THEN "player" ELSE "opposition"
CurrentActor(c) == c.order[(c.turn % Len(c.order)) + 1]

(* combatNormalizeState rebuilds the participants: whoever left the order is *)
(* put back at its end, and an opponent without hit points gets them all     *)
(* back, though not its place among the active.                              *)
NormalizedCombat(c) ==
    [c EXCEPT !.order = @ \o combatOrder(Fighters \ ToSet(c.order)),
              !.hp = [p \in Opponents |-> IF @[p] = 0 THEN MaxHp[p] ELSE @[p]],
              !.turn = @ % Len(Roster)]

(* combatObservePlayerDying: the round the dying was first seen in. *)
Observed(c, h) ==
    IF ~CanAdvanceDying(h) THEN 0
    ELSE IF c.observed = 0 THEN c.round ELSE c.observed
Observe(s) == [s EXCEPT !.c.observed = Observed(s.c, s.h),
                        !.p.unchecked = IF CanAdvanceDying(s.h) THEN @ ELSE 0]

FaultyDyingCheckDue(c, h) == CanAdvanceDying(h) /\ c.observed # 0 /\ c.round > c.observed + 1
DyingCheckDue(c, h) ==
    CanAdvanceDying(h) /\ c.observed # 0 /\ c.round > c.observed /\ c.lastCheck # c.round

(* The end of a round: the dying that began in an earlier one is checked,    *)
(* and the next round starts unless it killed.                               *)
RoundWrap(start, passes) ==
    LET s   == Observe(start)
        due == DyingCheckDue(s.c, s.h)
        h   == IF due THEN DyingRound(s.h, passes) ELSE s.h
        c   == IF due THEN [s.c EXCEPT !.lastCheck = s.c.round] ELSE s.c
        p   == [s.p EXCEPT !.unchecked =
                    IF CanAdvanceDying(s.h) /\ ~due THEN Min({2, @ + 1}) ELSE 0]
    IN  IF due /\ h.dead
        THEN [c |-> [c EXCEPT !.on = FALSE], h |-> h, p |-> p]
        ELSE Observe([c |-> [c EXCEPT !.round = @ + 1, !.turn = 0,
                                      !.acted = [q \in Fighters |-> 0]],
                      h |-> h, p |-> p])

(* combatAdvanceTurn: normalization, the actor's forfeit is used up, the     *)
(* action counted, the turn passed on.                                       *)
AdvanceTurn(start, passes) ==
    LET actor == CurrentActor(start.c)
        c == NormalizedCombat(start.c)
        s == Observe([start EXCEPT
                !.c = [c EXCEPT !.forfeit[actor] = Max({0, @ - 1}),
                                !.acted[actor] = @ + 1]])
        t == [s EXCEPT !.c.turn = @ + 1]
    IN  IF t.c.turn >= Len(t.c.order) THEN RoundWrap(t, passes) ELSE t

-----------------------------------------------------------------------------
(* Blows *)

(* Who deals damage: a tie favours the dodger, and the attacker who is       *)
(* fought back.                                                              *)
combatResolveRanks(a, d, response) ==
    IF response = "dodge" THEN IF a > d THEN "attacker" ELSE "nobody"
    ELSE IF d >= 1 /\ d > a THEN "defender"
    ELSE IF a >= 1 THEN "attacker" ELSE "nobody"

(* The gross damages a blow may roll.  The attacker's extreme success takes  *)
(* the maximum, and an impaling one a roll of the dice on top of it.         *)
GrossDamages(owner, mode) ==
    LET w   == Arms[owner]
        top == Max(w.dice) + Max(w.bonus)
        pierces == mode = "impaling" \/ (mode = "extreme" /\ w.kind = "impaling")
    IN  IF pierces THEN {Max({0, top + x}) : x \in w.dice}
        ELSE IF mode = "extreme" THEN {Max({0, top})}
        ELSE {Max({0, x + y}) : x \in w.dice, y \in w.bonus}

End(s) == [s EXCEPT !.c.on = FALSE]

FaultyRepair(s, target, passes) ==
    LET c == [s.c EXCEPT !.up[target] = FALSE,
                         !.order = RemoveFirst(@, target)]
    IN  IF ~s.c.on THEN s
        ELSE IF target = Player \/ ~\E p \in Opponents : c.up[p] /\ c.hp[p] > 0
             THEN End([s EXCEPT !.c = c])
        ELSE [s EXCEPT !.c = [c EXCEPT !.turn = @ % Len(c.order)]]

(* combatDamageRepairAfterDefeat: the defeated leaves the order, a side      *)
(* without anybody ends the combat, and the turn goes to the first of the    *)
(* order who has not acted in this round.                                    *)
RepairAfterDefeat(s, target, passes) ==
    LET c == [s.c EXCEPT !.up[target] = FALSE,
                         !.order = RemoveFirst(@, target)]
        waiting == {i \in DOMAIN c.order : c.acted[c.order[i]] = 0}
    IN  IF ~s.c.on THEN s
        ELSE IF target = Player \/ ~\E p \in Opponents : c.up[p] /\ c.hp[p] > 0
             THEN End([s EXCEPT !.c = c])
        ELSE IF waiting = {} THEN RoundWrap([s EXCEPT !.c = c], passes)
        ELSE [s EXCEPT !.c = [c EXCEPT !.turn = Min(waiting) - 1]]

FaultyHitPlayer(s, net, conFails, passes) ==
    LET hp == Clamp(s.h.hp - net, 0, MaxHp[Player])
        h  == Damaged([s.h EXCEPT !.hp = hp], MaxHp[Player],
                      [damage |-> net, after |-> hp], conFails)
    IN  [s EXCEPT !.h = h, !.c.body = hp]

HitPlayer(s, net, conFails, passes) ==
    LET hp == Clamp(s.h.hp - net, 0, MaxHp[Player])
        g  == [s.h EXCEPT !.hp = hp]
        h  == IF net > 0
              THEN Damaged(g, MaxHp[Player], [damage |-> net, after |-> hp], conFails)
              ELSE g
        t  == [s EXCEPT !.h = h, !.c.body = hp]
    IN  IF h.dead THEN RepairAfterDefeat(t, Player, passes) ELSE t

HitOpponent(s, p, net, passes) ==
    LET hp == Clamp(s.c.hp[p] - net, 0, MaxHp[p])
        t  == [s EXCEPT !.c.hp[p] = hp]
    IN  IF hp = 0 THEN RepairAfterDefeat(t, p, passes) ELSE t

(* combatDamageApplyDisposition: nothing happens to a participant that is no *)
(* longer active or whose own hit points are 0; armor is subtracted.         *)
ApplyDisposition(s, target, gross, conFails, passes) ==
    LET net  == Max({0, gross - Arms[target].armor})
        hits == s.c.up[target]
                /\ (IF target = Player THEN s.c.body ELSE s.c.hp[target]) > 0
    IN  IF hits THEN IF target = Player THEN HitPlayer(s, net, conFails, passes)
                     ELSE HitOpponent(s, target, net, passes)
        ELSE [s EXCEPT !.p.lost = @ \/ (/\ target = Player /\ s.c.up[Player]
                                        /\ s.h.hp > 0 /\ ~s.h.dead /\ net > 0)]

-----------------------------------------------------------------------------
(* Combat Mode *)

(* The place in the roster of the first foe who is still active, if any. *)
Foe(c, p) == SelectInSeq(Roster, LAMBDA q : Side(q) # Side(p) /\ c.up[q])

combatStart ==
    /\ ~combat.on
    /\ ~health.dead
    /\ Becomes(health,
               [NoCombat EXCEPT !.on = TRUE, !.round = 1, !.order = combatOrder(Fighters),
                                !.hp = [p \in Opponents |-> MaxHp[p]],
                                !.body = health.hp,
                                !.up = [p \in Fighters |-> TRUE],
                                !.observed = IF CanAdvanceDying(health) THEN 1 ELSE 0],
               past)

combatEnd ==
    /\ combat.on
    /\ Becomes(health, [combat EXCEPT !.on = FALSE], past)

combatPassTurn ==
    /\ combat.on
    /\ \E passes \in BOOLEAN :
          LET s == AdvanceTurn(Now, passes) IN Becomes(s.h, s.c, s.p)

(* The disposition of a melee exchange: who deals damage, and whether at     *)
(* the most.                                                                 *)
Dispositions(response) ==
    {[by |-> combatResolveRanks(a, d, response),
      mode |-> IF combatResolveRanks(a, d, response) = "attacker" /\ a >= 3
               THEN "extreme" ELSE "regular"] : a \in Levels, d \in Levels}

(* The exchange passes the turn on first and deals the damage afterwards.    *)
Dealt(start, owner, target, mode) ==
    {ApplyDisposition(AdvanceTurn(start, passes), target, gross, conFails, passes) :
        gross \in GrossDamages(owner, mode), passes \in BOOLEAN, conFails \in BOOLEAN}
Missed(start) == {AdvanceTurn(start, passes) : passes \in BOOLEAN}

(* An attack by the current actor on the first foe who is still active.      *)
combatResolveMelee ==
    /\ combat.on
    /\ LET attacker == CurrentActor(combat)
           start == [Now EXCEPT !.c = NormalizedCombat(combat)]
       IN  /\ combat.forfeit[attacker] = 0
           /\ ~IsFirearm(attacker)
           /\ Foe(combat, attacker) # 0
           /\ LET defender == Roster[Foe(combat, attacker)] IN
              \E response \in {"dodge", "fight_back"} : \E x \in Dispositions(response) :
              \E s \in CASE x.by = "attacker" -> Dealt(start, attacker, defender, x.mode)
                         [] x.by = "defender" -> Dealt(start, defender, attacker, x.mode)
                         [] x.by = "nobody"   -> Missed(start) :
                 Becomes(s.h, s.c, s.p)

(* A single shot at the first foe.  Diving for cover costs the target its    *)
(* next attack whether or not it helps.                                      *)
firearmsResolveShot ==
    /\ combat.on
    /\ LET shooter == CurrentActor(combat) IN
       /\ IsFirearm(shooter)
       /\ combat.forfeit[shooter] = 0
       /\ Foe(combat, shooter) # 0
       /\ LET target == Roster[Foe(combat, shooter)]
              c == NormalizedCombat(combat)
          IN  \E dives \in BOOLEAN, result \in {"miss", "regular", "impaling"} :
              LET start == [Now EXCEPT !.c = IF dives
                                THEN [c EXCEPT !.forfeit[target] = Max({1, @})] ELSE c]
              IN  \E s \in IF result = "miss" THEN Missed(start)
                           ELSE Dealt(start, shooter, target, result) :
                     Becomes(s.h, s.c, s.p)

-----------------------------------------------------------------------------
(* Health beside the combat *)

HealthBecomes(h) == health' = h /\ UNCHANGED <<combat, past>>

(* The button is suppressed during a combat. *)
dyingRound ==
    /\ ~combat.on
    /\ CanAdvanceDying(health)
    /\ \E passes \in BOOLEAN : HealthBecomes(DyingRound(health, passes))

firstAid ==
    /\ CanTreat(health, MaxHp[Player])
    /\ \E success \in BOOLEAN :
          HealthBecomes(IF success THEN FirstAid(health, MaxHp[Player])
                        ELSE Normalized(health))

naturalDay ==
    /\ CanHealNaturally(health, MaxHp[Player])
    /\ HealthBecomes(NaturalDay(health, MaxHp[Player]))

majorWoundWeek ==
    /\ CanRollWeek(health)
    /\ \E level \in {"failure", "success", "extreme"} : \E gain \in WeekGains(level) :
          HealthBecomes(MajorWoundWeek(health, MaxHp[Player], level, gain))

medicine ==
    /\ CanUseMedicine(health, MaxHp[Player])
    /\ \E success \in BOOLEAN : \E gain \in MedicineGains(success) :
          HealthBecomes(Medicine(health, MaxHp[Player], success, gain))

(* A save that is loaded normalizes both. *)
reload ==
    /\ health' = Normalized(health)
    /\ combat' = IF combat.on THEN NormalizedCombat(combat) ELSE combat
    /\ UNCHANGED past

-----------------------------------------------------------------------------
(* Hit points from the keeper and from secret checks *)

Replies == {<<>>} \union {<<a>> : a \in Blows} \union {<<a, b>> : a, b \in Blows}

(* prepareAiTransaction takes every adjustHp out of a reply during a combat. *)
StrippedInCombat(amounts) == IF combat.on THEN <<>> ELSE amounts

(* A reply without a check may hurt and heal. *)
plainReply ==
    \E h \in {AdjustHp(health, MaxHp[Player], StrippedInCombat(amounts), conFails) :
               amounts \in Replies, conFails \in BOOLEAN} : HealthBecomes(h)

(* A reply to a check: no healing beside First Aid and Medicine, then the    *)
(* consequence contract; what it puts in is applied during a combat, too.    *)
ContinuationHp(record, amounts, hp) ==
    LET own     == SelectSeq(amounts, LAMBDA a : ~record.care \/ a <= 0)
        changes == [i \in DOMAIN own |-> Change("adjustHp", None, own[i])] \o record.reveals
        purse   == [hp |-> hp, san |-> 0, tension |-> 1, maxTension |-> 1, progress |-> 0]
    IN  Amounts(cocConsequencePrepareParsed(changes, record, purse), "adjustHp")

Wounds(ways) ==
    /\ \E amounts \in ways, conFails \in BOOLEAN :
          health' = AdjustHp(health, MaxHp[Player], amounts, conFails)
    /\ past' = [past EXCEPT !.outside = @ \/ (combat.on /\ health' # health)]
    /\ UNCHANGED combat

(* The amounts of the scenario, the replies and the costs are whole numbers. *)
ASSUME AmountsAssumption ==
    /\ Blows \subseteq Int
    /\ \A record \in Records, amounts \in Replies, hp \in 0..MaxHp[Player] :
         ContinuationHp(record, amounts, hp) \in Seq(Int)

continuation ==
    Wounds({ContinuationHp(record, StrippedInCombat(amounts), health.hp) :
               record \in Records, amounts \in Replies})

(* A secret check commits its authored effects itself. *)
secretCheck == Wounds({<<amount>> : amount \in Blows})

Fight == combatStart \/ combatEnd \/ combatPassTurn \/ combatResolveMelee \/ firearmsResolveShot
Care  == dyingRound \/ firstAid \/ naturalDay \/ majorWoundWeek \/ medicine \/ reload
Story == plainReply \/ continuation \/ secretCheck

Next == Fight \/ Care \/ Story
Spec == Init /\ [][Next]_vars
=============================================================================
