---------------------------- MODULE CombatProofs ----------------------------
(***************************************************************************)
(* The combat session and the records it keeps, for every roster, profile  *)
(* and roll.  First the session: the type invariant of the canonical game  *)
(* and the lemmas about the turn order; an active combat always has a      *)
(* standing current actor and nobody falls without reason; one thing is    *)
(* open at a time, and the open attack is the current actor's; every       *)
(* fighter still standing acts exactly once a round.  Then the records:    *)
(* the health of the characters, whatever mix of trusted operations, hits  *)
(* and round ends they go through; the schedule of the dying; the hits     *)
(* settled on each record; and the books of the exchanges, from which      *)
(* responses, outnumbering and the opponents' losses follow.               *)
(***************************************************************************)
EXTENDS CombatProperties, HealthProofs, FiniteSetTheorems, FunctionTheorems,
        WellFoundedInduction

(* What the assumptions say of one fighter, one roll, one blow.            *)
LEMMA ProfileTypes ==
  /\ \A c \in Characters : MaxHp[c] \in Nat \ {0} /\ Con[c] \in Nat
  /\ \A o \in Opponents : OpponentHp[o] \in Nat
  /\ \A p \in Fighters : Armor[p] \in Nat
<1>1. \A c \in Characters : MaxHp[c] \in Nat \ {0}
  BY ProfileAssumption
<1>2. \A c \in Characters : Con[c] \in 0..100
  BY ProfileAssumption
<1>3. \A o \in Opponents : OpponentHp[o] \in Nat \ {0}
  BY ProfileAssumption
<1>4. \A p \in Fighters : Armor[p] \in 0..99
  BY ProfileAssumption
<1>5. /\ \A n \in 0..100 : n \in Nat
      /\ \A n \in 0..99 : n \in Nat
      /\ \A n \in Nat \ {0} : n \in Nat
  OBVIOUS
<1> QED
  BY <1>1, <1>2, <1>3, <1>4, <1>5, Zenon

LEMMA InputTypes ==
  /\ \A roll \in Rolls : roll \in Nat
  /\ \A blow \in Blows : blow \in Nat \ {0}
  /\ \A target \in AidTargets : target \in Nat
  BY InputAssumption DEF Percentile

-----------------------------------------------------------------------------
(* The turn order *)

(* A set of natural numbers that is not empty has a least member.          *)
LEMMA Minimum ==
  ASSUME NEW T \in SUBSET Nat, T # {}
  PROVE  \E m \in T : \A n \in T : m <= n
<1> DEFINE R == OpToRel(<, Nat)
<1>1. IsWellFoundedOn(R, Nat)
  BY NatLessThanWellFounded
<1>2. \A m, n \in Nat : n < m => <<n, m>> \in R
  BY DEF OpToRel
<1> HIDE DEF R
<1>3. PICK m \in T : \A n \in T : ~ (<<n, m>> \in R)
  BY <1>1, WFMin
<1>4. m \in Nat /\ \A n \in T : n \in Nat
  OBVIOUS
<1>5. ASSUME NEW n \in T PROVE ~ (n < m)
  BY <1>2, <1>3, <1>4, Zenon
<1>6. \A n \in T : m <= n
  BY <1>4, <1>5
<1> QED
  BY <1>6

(* FindNextActiveTurn returns the first standing fighter's turn from start *)
(* on, or one past the end exactly when nobody stands from there on.       *)
LEMMA NextActiveIsFirst ==
  ASSUME NEW st, NEW start \in Nat, order \in Seq(Fighters)
  PROVE  /\ NextActive(st, start) \in Nat
         /\ NextActive(st, start) <= Len(order) =>
              /\ start <= NextActive(st, start)
              /\ order[NextActive(st, start)] \in st
         /\ NextActive(st, start) > Len(order) =>
              \A i \in start..Len(order) : order[i] \notin st
         /\ \A i \in start..Len(order) :
              i < NextActive(st, start) => order[i] \notin st
<1> DEFINE turns == {i \in start..Len(order) : order[i] \in st}
<1>1. Len(order) \in Nat
  OBVIOUS
<1>2. CASE turns = {}
  <2>1. NextActive(st, start) = Len(order) + 1
    BY <1>2 DEF NextActive
  <2> QED
    BY <1>1, <1>2, <2>1
<1>3. CASE turns # {}
  <2>1. turns \in SUBSET Nat
    BY <1>1
  <2>2. \E m \in turns : \A n \in turns : m <= n
    BY <1>3, <2>1, Minimum
  <2>3. NextActive(st, start) = CHOOSE i \in turns : \A j \in turns : i <= j
    BY <1>3 DEF NextActive
  <2>4. /\ NextActive(st, start) \in turns
        /\ \A j \in turns : NextActive(st, start) <= j
    BY <2>2, <2>3
  <2> QED
    BY <1>1, <2>4
<1> QED
  BY <1>2, <1>3

-----------------------------------------------------------------------------
(* What a turn leaves behind *)

Healths == [Characters -> HealthRecord(DamageKeys)]
Schedules == [Characters -> [observed : Nat, last : Nat]]
Counts == [Fighters -> Nat]

WithinBodies(hl) == \A c \in Characters : hl[c].hp <= MaxHp[c]

(* The record that AdvanceTurn and Repaired return.                        *)
TurnTypes(r) ==
  /\ r.health \in Healths /\ WithinBodies(r.health)
  /\ r.standing \subseteq InFight
  /\ r.schedule \in Schedules
  /\ r.round \in Nat /\ r.turn \in Nat
  /\ r.acted \in Counts /\ r.responded \in Counts

LEMMA NoCountsType == NoCounts \in Counts
  BY DEF NoCounts, Counts

LEMMA BumpType ==
  ASSUME NEW counts \in Counts, NEW p \in Fighters
  PROVE  Bump(counts, p) \in Counts
  BY DEF Bump, Counts

LEMMA WrapTypes ==
  ASSUME order \in Seq(Fighters), round \in Nat,
         NEW hl \in Healths, WithinBodies(hl), NEW st \in SUBSET InFight,
         NEW sch \in Schedules, NEW rolls \in [Checked(hl, st, sch) -> Rolls]
  PROVE  TurnTypes(WrapRound(hl, st, sch, rolls))
<1> DEFINE checked == Checked(hl, st, sch)
           after   == [c \in Characters |->
                         IF c \in checked THEN AfterDyingRound(hl[c], Con[c], rolls[c])
                         ELSE hl[c]]
           fallen  == {c \in checked : after[c].dead}
           wrapped == WrapRound(hl, st, sch, rolls)
<1>1. ASSUME NEW c \in Characters
      PROVE  after[c] \in HealthRecord(DamageKeys) /\ after[c].hp <= MaxHp[c]
  <2>1. hl[c] \in HealthRecord(DamageKeys) /\ hl[c].hp <= MaxHp[c]
    BY DEF Healths, WithinBodies
  <2>2. CASE c \in checked
    <3>1. rolls[c] \in Rolls
      BY <2>2
    <3>2. rolls[c] \in Nat /\ Con[c] \in Nat
      BY <3>1, InputTypes, ProfileTypes, Zenon
    <3>3. after[c] = AfterDyingRound(hl[c], Con[c], rolls[c])
      BY <2>2
    <3> QED
      BY <2>1, <3>2, <3>3, AfterDyingRoundType
  <2>3. CASE c \notin checked
    BY <2>1, <2>3
  <2> QED
    BY <2>2, <2>3
<1>2. wrapped.health = after /\ wrapped.standing = st \ fallen
  BY DEF WrapRound
<1>3. wrapped.health \in Healths /\ WithinBodies(wrapped.health)
  <2> HIDE DEF checked, wrapped
  <2> QED
    BY <1>1, <1>2 DEF Healths, WithinBodies
<1>4. wrapped.schedule \in Schedules
  <2> DEFINE entry(c) == IF c \notin InFight THEN sch[c]
                         ELSE IF c \notin st \/ ~ CanScheduleDying(hl[c]) \/ c \in fallen
                         THEN NotScheduled
                         ELSE IF sch[c] = NotScheduled
                         THEN [observed |-> round, last |-> 0]
                         ELSE IF c \in checked THEN [sch[c] EXCEPT !.last = round]
                         ELSE sch[c]
  <2>1. wrapped.schedule = [c \in Characters |-> entry(c)]
    BY DEF WrapRound
  <2>2. ASSUME NEW c \in Characters PROVE entry(c) \in [observed : Nat, last : Nat]
    <3>1. sch[c] \in [observed : Nat, last : Nat]
      BY DEF Schedules
    <3>2. /\ NotScheduled \in [observed : Nat, last : Nat]
          /\ [observed |-> round, last |-> 0] \in [observed : Nat, last : Nat]
          /\ [sch[c] EXCEPT !.last = round] \in [observed : Nat, last : Nat]
      BY <3>1 DEF NotScheduled
    <3> HIDE DEF fallen, checked
    <3> QED
      BY <3>1, <3>2
  <2> HIDE DEF entry, wrapped
  <2> QED
    BY <2>1, <2>2 DEF Schedules
<1>5. wrapped.round \in Nat
  BY DEF WrapRound
<1>6. wrapped.turn \in Nat
  <2>1. NextActive(st \ fallen, 1) \in Nat
    BY NextActiveIsFirst
  <2>2. wrapped.turn = NextActive(st \ fallen, 1)
    BY DEF WrapRound
  <2> QED
    BY <2>1, <2>2
<1>7. wrapped.acted \in Counts /\ wrapped.responded \in Counts
  BY NoCountsType DEF WrapRound
<1>8. wrapped.standing \subseteq InFight
  BY <1>2
<1> QED
  BY <1>3, <1>4, <1>5, <1>6, <1>7, <1>8 DEF TurnTypes

LEMMA AdvanceTypes ==
  ASSUME order \in Seq(Fighters), round \in Nat, turn \in Nat,
         NEW hl \in Healths, WithinBodies(hl), NEW st \in SUBSET InFight,
         NEW sch \in Schedules, NEW act \in Counts, NEW resp \in Counts,
         NEW rolls \in WrapRolls(hl, st, sch)
  PROVE  TurnTypes(AdvanceTurn(hl, st, sch, act, resp, rolls))
<1> DEFINE next == NextActive(st, turn + 1)
<1>1. next \in Nat
  BY NextActiveIsFirst
<1>2. CASE next <= Len(order)
  <2>1. AdvanceTurn(hl, st, sch, act, resp, rolls) =
          [health |-> hl, standing |-> st, schedule |-> sch, round |-> round,
           turn |-> next, acted |-> act, responded |-> resp]
    BY <1>2 DEF AdvanceTurn
  <2> HIDE DEF next
  <2> QED
    BY <1>1, <2>1 DEF TurnTypes
<1>3. CASE ~ (next <= Len(order))
  <2>1. rolls \in [Checked(hl, st, sch) -> Rolls]
    BY <1>3 DEF WrapRolls
  <2>2. AdvanceTurn(hl, st, sch, act, resp, rolls) = WrapRound(hl, st, sch, rolls)
    BY <1>3 DEF AdvanceTurn
  <2> QED
    BY <2>1, <2>2, WrapTypes
<1> QED
  BY <1>2, <1>3

LEMMA RepairedTypes ==
  ASSUME order \in Seq(Fighters), round \in Nat, turn \in Nat,
         acted \in Counts, responded \in Counts,
         NEW hl \in Healths, WithinBodies(hl), NEW st \in SUBSET InFight,
         NEW sch \in Schedules, NEW rolls \in RepairRolls(hl, st, sch)
  PROVE  TurnTypes(Repaired(hl, st, sch, rolls))
<1>1. CASE NeedsWrap(st)
  <2>1. rolls \in WrapRolls(hl, st, sch)
    BY <1>1 DEF RepairRolls
  <2>2. Repaired(hl, st, sch, rolls) = AdvanceTurn(hl, st, sch, acted, responded, rolls)
    BY <1>1 DEF Repaired
  <2> QED
    BY <2>1, <2>2, AdvanceTypes
<1>2. CASE ~ NeedsWrap(st)
  <2>1. RepairTurn(st) \in Nat
    <3>1. NextActive(st, turn) \in Nat
      BY NextActiveIsFirst
    <3> QED
      BY <3>1 DEF RepairTurn
  <2>2. Repaired(hl, st, sch, rolls) =
          [health |-> hl, standing |-> st, schedule |-> sch, round |-> round,
           turn |-> RepairTurn(st), acted |-> acted, responded |-> responded]
    BY <1>2 DEF Repaired
  <2> QED
    BY <2>1, <2>2 DEF TurnTypes
<1> QED
  BY <1>1, <1>2

-----------------------------------------------------------------------------
(* The parts of the state *)

TurnState ==
  /\ health \in Healths /\ WithinBodies(health)
  /\ order \in Seq(Fighters) /\ standing \subseteq InFight
  /\ schedule \in Schedules
  /\ round \in Nat /\ turn \in Nat
  /\ acted \in Counts /\ responded \in Counts

DamageState ==
  /\ DOMAIN damage \subseteq 1..issued
  /\ damage \in [DOMAIN damage -> Dispositions]

PendingState ==
  /\ pending \in PendingExchanges \union {NoExchange}
  /\ pending # NoExchange => pending.id \in 1..issued

HistoryState ==
  /\ exchanges \in Seq(Exchanges)
  /\ Len(exchanges) <= ExchangeHistoryLimit

Reasons == {"none", "opposition_defeated", "investigators_defeated",
            "combat_ended_before_resolution"}

GameState ==
  /\ stage \in {"lobby", "running", "closed"}
  /\ revision \in Nat /\ issued \in Nat
  /\ roster \subseteq Characters
  /\ phase \in {"none", "active", "ended"}
  /\ endReason \in Reasons
  /\ vitality \in [Opponents -> Nat]

AllParts == TurnState /\ DamageState /\ PendingState /\ HistoryState /\ GameState

LEMMA TypeParts == TypeOK <=> AllParts
  BY DEF TypeOK, SessionTypeOK, AllParts, TurnState, DamageState, PendingState, HistoryState,
         GameState, Healths, Schedules, Counts, WithinBodies, Reasons

LEMMA NextTypeParts == TypeOK' <=> AllParts'
  BY DEF TypeOK, SessionTypeOK, AllParts, TurnState, DamageState, PendingState, HistoryState,
         GameState, Healths, Schedules, Counts, WithinBodies, Reasons

(* A part keeps its type when its variables do not change.                 *)
LEMMA KeepTurnState ==
  ASSUME TurnState, UNCHANGED <<health, turnVars>>
  PROVE  TurnState'
  BY DEF TurnState, turnVars, InFight, WithinBodies

LEMMA KeepDamageState ==
  ASSUME DamageState, issued \in Nat, issued' \in {issued, issued + 1}, UNCHANGED damage
  PROVE  DamageState'
  BY DEF DamageState

LEMMA KeepPendingState ==
  ASSUME PendingState, UNCHANGED <<pending, issued>>
  PROVE  PendingState'
  BY DEF PendingState

LEMMA KeepHistoryState ==
  ASSUME HistoryState, UNCHANGED exchanges
  PROVE  HistoryState'
  BY DEF HistoryState

LEMMA CommitType ==
  ASSUME revision \in Nat, Commit
  PROVE  revision' \in Nat
  BY DEF Commit

(* A turn taken in a well typed state leaves one.                          *)
LEMMA TakeTurnTypes ==
  ASSUME order \in Seq(Fighters), NEW after, TurnTypes(after), TakeTurn(after)
  PROVE  TurnState'
  BY DEF TurnTypes, TakeTurn, TurnState, InFight, WithinBodies

-----------------------------------------------------------------------------
(* The dice and the verdict *)

LEMMA VerdictType ==
  ASSUME NEW attack, NEW defence, NEW response
  PROVE  /\ ResolveOpposed(attack, defence, response).winner \in
                {"attacker", "defender", "nobody"}
         /\ ResolveOpposed(attack, defence, response).mode \in DamageModes \union {"none"}
  BY DEF ResolveOpposed, ResolveDodge, ResolveFightBack, AttackerHits, NobodyHits,
         Verdict, DamageModes

LEMMA NetBlowTypes ==
  ASSUME NEW id, damage[id] \in Dispositions
  PROVE  NetBlows(id) \subseteq Nat
<1> DEFINE weapon == Weapon[damage[id].owner]
           bonus  == DamageBonus[damage[id].owner]
           mode   == damage[id].mode
           armor  == Armor[damage[id].target]
<1>1. damage[id].owner \in Fighters /\ damage[id].target \in Fighters
  BY DEF Dispositions
<1>2. weapon \in [count : Nat \ {0}, faces : Nat \ {0}, modifier : Int, addsBonus : BOOLEAN]
  BY <1>1, ProfileAssumption
<1>3. bonus \in [kind : {"flat", "dice"}, flat : Int, count : Nat, faces : Nat]
  BY <1>1, ProfileAssumption
<1>4. armor \in Nat
  BY <1>1, ProfileTypes, Zenon
<1> HIDE DEF weapon, bonus, mode, armor
<1>5. WeaponTotals(weapon, mode) \subseteq Int
  BY <1>2 DEF WeaponTotals, DiceTotals
<1>6. BonusTotals(weapon, bonus, mode) \subseteq Int
  BY <1>3 DEF BonusTotals, DiceTotals
<1>7. ASSUME NEW w \in Int, NEW b \in Int
      PROVE  NetDamage(weapon, bonus, mode, w, b, armor) \in Nat
  <2>1. weapon.count \in Int /\ weapon.faces \in Int /\ bonus.count \in Int /\ bonus.faces \in Int
    BY <1>2, <1>3
  <2>2. weapon.count * weapon.faces \in Int /\ bonus.count * bonus.faces \in Int
    BY <2>1
  <2>3. WeaponDamage(weapon, mode, w) \in Int
    BY <1>2, <2>2 DEF WeaponDamage
  <2>4. BonusDamage(weapon, bonus, mode, b) \in Int
    BY <1>3, <2>2 DEF BonusDamage
  <2>5. GrossDamage(weapon, bonus, mode, w, b) \in Int
    BY <2>3, <2>4 DEF GrossDamage, AtLeastZero
  <2> QED
    BY <1>4, <2>5 DEF NetDamage, AtLeastZero
<1>8. NetBlows(id) = {NetDamage(weapon, bonus, mode, w, b, armor) :
                        w \in WeaponTotals(weapon, mode), b \in BonusTotals(weapon, bonus, mode)}
  BY DEF NetBlows, weapon, bonus, mode, armor
<1> QED
  BY <1>5, <1>6, <1>7, <1>8

-----------------------------------------------------------------------------
(* The operations of the game and of health *)

LEMMA InitTypes == Init => TypeOK
<1> SUFFICES ASSUME Init PROVE AllParts
  BY TypeParts
<1> USE DEF Init, NoSession
<1>1. health \in Healths /\ WithinBodies(health)
  <2>1. ASSUME NEW c \in Characters
        PROVE  NewHealth(MaxHp[c]) \in HealthRecord(DamageKeys) /\ NewHealth(MaxHp[c]).hp = MaxHp[c]
    <3>1. MaxHp[c] \in Nat
      BY ProfileTypes
    <3> QED
      BY <3>1, NewHealthType
  <2>2. \A c \in Characters : MaxHp[c] \in Nat
    BY ProfileTypes
  <2> QED
    BY <2>1, <2>2 DEF Healths, WithinBodies
<1>2. NoCounts \in Counts
  BY NoCountsType
<1>3. schedule \in Schedules
  BY DEF Schedules, NotScheduled
<1>4. TurnState
  BY <1>1, <1>2, <1>3 DEF TurnState
<1>5. DamageState
  BY DEF DamageState, NoDamage
<1>6. PendingState /\ HistoryState
  BY HistoryAssumption DEF PendingState, HistoryState
<1>7. GameState
  BY DEF GameState, Reasons
<1> QED
  BY <1>4, <1>5, <1>6, <1>7 DEF AllParts

LEMMA InitializeTypes ==
  ASSUME TypeOK, NEW player \in Players, NEW chosen \in SUBSET Characters,
         NEW hp \in StartHps, Initialize(player, chosen, hp)
  PROVE  TypeOK'
<1>1. AllParts
  BY TypeParts
<1>2. UNCHANGED <<turnVars, phase, vitality, pending, damage, exchanges, endReason, issued>>
  BY DEF Initialize, sessionVars
<1>3. health' \in Healths /\ WithinBodies(health')
  <2>1. ASSUME NEW c \in Characters
        PROVE  health'[c] \in HealthRecord(DamageKeys) /\ health'[c].hp <= MaxHp[c]
    <3>1. health[c] \in HealthRecord(DamageKeys) /\ health[c].hp <= MaxHp[c]
      BY <1>1 DEF AllParts, TurnState, Healths, WithinBodies
    <3>2. CASE c \in chosen
      <4>1. hp[c] \in 0..MaxHp[c] /\ MaxHp[c] \in Nat
        BY <3>2, ProfileTypes DEF Initialize
      <4>2. hp[c] \in Nat /\ hp[c] <= MaxHp[c]
        BY <4>1
      <4>3. health'[c] = NewHealth(hp[c])
        BY <3>2 DEF Initialize
      <4>4. NewHealth(hp[c]) \in HealthRecord(DamageKeys) /\ NewHealth(hp[c]).hp = hp[c]
        BY <4>2, NewHealthType
      <4> QED
        BY <4>2, <4>3, <4>4
    <3>3. CASE c \notin chosen
      <4>1. health'[c] = health[c]
        BY <3>3 DEF Initialize
      <4> QED
        BY <3>1, <4>1
    <3> QED
      BY <3>2, <3>3
  <2>2. health' = [c \in Characters |-> IF c \in chosen THEN NewHealth(hp[c]) ELSE health[c]]
    BY DEF Initialize
  <2>3. health' = [c \in Characters |-> health'[c]]
    BY <2>2
  <2> QED
    BY <2>1, <2>3 DEF Healths, WithinBodies
<1>4. TurnState'
  BY <1>1, <1>2, <1>3 DEF AllParts, TurnState, turnVars, InFight, WithinBodies
<1>5. DamageState' /\ PendingState' /\ HistoryState'
  BY <1>1, <1>2, KeepDamageState, KeepPendingState, KeepHistoryState DEF AllParts, GameState
<1>6. GameState'
  BY <1>1, <1>2 DEF AllParts, GameState, Initialize
<1> QED
  BY <1>4, <1>5, <1>6, NextTypeParts DEF AllParts

LEMMA RemoveTypes ==
  ASSUME TypeOK, Remove
  PROVE  TypeOK'
<1>1. AllParts
  BY TypeParts
<1> USE DEF Remove
<1>2. TurnState'
  <2>1. NoCounts \in Counts
    BY NoCountsType
  <2>2. schedule' \in Schedules
    BY DEF Schedules, NotScheduled
  <2>3. /\ health' = health /\ order' = << >> /\ standing' = {} /\ round' = 0 /\ turn' = 0
        /\ acted' = NoCounts /\ responded' = NoCounts
    OBVIOUS
  <2> QED
    BY <1>1, <2>1, <2>2, <2>3 DEF AllParts, TurnState, WithinBodies
<1>3. DamageState'
  BY DEF DamageState, NoDamage
<1>4. PendingState' /\ HistoryState'
  BY HistoryAssumption DEF PendingState, HistoryState
<1>5. GameState'
  BY DEF GameState, Reasons
<1> QED
  BY <1>2, <1>3, <1>4, <1>5, NextTypeParts DEF AllParts

(* The operations that change only the health of one character, and        *)
(* perhaps its place in the schedule.                                      *)
LEMMA HealthStepTypes ==
  ASSUME TypeOK, NEW c \in Characters, NEW record \in HealthRecord(DamageKeys),
         record.hp <= MaxHp[c], NEW sch \in Schedules,
         health' = [health EXCEPT ![c] = record], schedule' = sch, Commit,
         UNCHANGED <<stage, roster, round, turn, order, standing, acted, responded,
                     phase, vitality, pending, damage, exchanges, endReason, issued>>
  PROVE  TypeOK'
<1>1. AllParts
  BY TypeParts
<1>2. health' \in Healths /\ WithinBodies(health')
  <2>1. health \in Healths /\ WithinBodies(health)
    BY <1>1 DEF AllParts, TurnState
  <2> QED
    BY <2>1 DEF Healths, WithinBodies
<1>3. TurnState'
  BY <1>1, <1>2 DEF AllParts, TurnState, InFight, WithinBodies
<1>4. DamageState' /\ PendingState' /\ HistoryState'
  BY <1>1, KeepDamageState, KeepPendingState, KeepHistoryState DEF AllParts, GameState
<1>5. GameState'
  BY <1>1, CommitType DEF AllParts, GameState
<1> QED
  BY <1>3, <1>4, <1>5, NextTypeParts DEF AllParts

LEMMA ApplyDamageTypes ==
  ASSUME TypeOK, NEW c \in Characters, NEW key \in EventKeys, NEW blow \in Blows,
         NEW conRoll \in Rolls, ApplyDamage(c, key, blow, conRoll)
  PROVE  TypeOK'
<1> DEFINE after == Damaged(health[c], MaxHp[c], Con[c], TrustedKey(key), blow, conRoll)
<1>1. /\ health[c] \in HealthRecord(DamageKeys) /\ health[c].hp <= MaxHp[c]
      /\ schedule \in Schedules /\ round \in Nat
  BY TypeParts DEF AllParts, TurnState, Healths, WithinBodies
<1>2. /\ MaxHp[c] \in Nat /\ Con[c] \in Nat /\ blow \in Nat /\ conRoll \in Nat
      /\ TrustedKey(key) \in DamageKeys
  BY ProfileTypes, InputTypes DEF TrustedKey, DamageKeys
<1>3. after \in HealthRecord(DamageKeys) /\ after.hp <= MaxHp[c]
  BY <1>1, <1>2, DamagedType
<1> HIDE DEF after
<1>4. schedule' \in Schedules
  BY <1>1 DEF ApplyDamage, Schedules
<1>5. health' = [health EXCEPT ![c] = after]
  BY DEF ApplyDamage, after
<1>6. /\ Commit
      /\ UNCHANGED <<stage, roster, round, turn, order, standing, acted, responded,
                     phase, vitality, pending, damage, exchanges, endReason, issued>>
  BY DEF ApplyDamage
<1> QED
  BY <1>3, <1>4, <1>5, <1>6, HealthStepTypes

LEMMA ResolveDyingRoundTypes ==
  ASSUME TypeOK, NEW c \in Characters, NEW roll \in Rolls, ResolveDyingRound(c, roll)
  PROVE  TypeOK'
<1> DEFINE after == AfterDyingRound(health[c], Con[c], roll)
<1>1. /\ health[c] \in HealthRecord(DamageKeys) /\ health[c].hp <= MaxHp[c]
      /\ schedule \in Schedules /\ health \in Healths
  BY TypeParts DEF AllParts, TurnState, Healths, WithinBodies
<1>2. Con[c] \in Nat /\ roll \in Nat
  BY ProfileTypes, InputTypes
<1>3. after \in HealthRecord(DamageKeys) /\ after.hp = health[c].hp
  BY <1>1, <1>2, AfterDyingRoundType
<1>4. health' = [health EXCEPT ![c] = after]
  BY <1>1 DEF ResolveDyingRound, Healths
<1>5. /\ Commit /\ schedule' = schedule
      /\ UNCHANGED <<stage, roster, round, turn, order, standing, acted, responded,
                     phase, vitality, pending, damage, exchanges, endReason, issued>>
  BY DEF ResolveDyingRound, sessionVars, turnVars
<1> HIDE DEF after
<1> QED
  BY <1>1, <1>3, <1>4, <1>5, HealthStepTypes

LEMMA ResolveFirstAidTypes ==
  ASSUME TypeOK, NEW c \in Characters, NEW target \in AidTargets, NEW roll \in Rolls,
         ResolveFirstAid(c, target, roll)
  PROVE  TypeOK'
<1> DEFINE after == AfterFirstAid(health[c], MaxHp[c], target, roll)
<1>1. /\ health[c] \in HealthRecord(DamageKeys) /\ health[c].hp <= MaxHp[c]
      /\ schedule \in Schedules /\ health \in Healths
  BY TypeParts DEF AllParts, TurnState, Healths, WithinBodies
<1>2. MaxHp[c] \in Nat /\ target \in Nat /\ roll \in Nat
  BY ProfileTypes, InputTypes
<1>3. after \in HealthRecord(DamageKeys) /\ after.hp <= MaxHp[c]
  BY <1>1, <1>2, AfterFirstAidType
<1>4. health' = [health EXCEPT ![c] = after]
  BY <1>1 DEF ResolveFirstAid, Healths
<1>5. /\ Commit /\ schedule' = schedule
      /\ UNCHANGED <<stage, roster, round, turn, order, standing, acted, responded,
                     phase, vitality, pending, damage, exchanges, endReason, issued>>
  BY DEF ResolveFirstAid, sessionVars, turnVars
<1> HIDE DEF after
<1> QED
  BY <1>1, <1>3, <1>4, <1>5, HealthStepTypes

-----------------------------------------------------------------------------
(* The operations of a combat session *)

LEMMA StartCombatTypes ==
  ASSUME TypeOK, NEW player \in Players, NEW expected,
         NEW chars \in SUBSET Characters, NEW opps \in SUBSET Opponents,
         StartCombat(player, expected, chars, opps)
  PROVE  TypeOK'
<1> DEFINE fighters == chars \union opps
<1>1. AllParts
  BY TypeParts
<1>2. fighters \in SUBSET Fighters
  BY DEF Fighters
<1>3. order' \in [1..Cardinality(fighters) -> fighters]
  BY DEF StartCombat, TurnOrders
<1>4. \A p \in fighters : \E i \in 1..Cardinality(fighters) : order'[i] = p
  BY DEF StartCombat, TurnOrders
<1>5. Cardinality(fighters) \in Nat
  BY <1>2, RosterAssumption, FS_Subset, FS_CardinalityType
<1> HIDE DEF fighters
<1>6. order' \in Seq(Fighters) /\ Len(order') = Cardinality(fighters)
  BY <1>2, <1>3, <1>5
<1>7. standing' \subseteq InFight'
  <2>1. standing' = fighters
    BY DEF StartCombat, fighters
  <2> QED
    BY <1>4, <1>6, <2>1 DEF InFight
<1>8. schedule' \in Schedules
  BY DEF StartCombat, Schedules, NotScheduled
<1>9. acted' \in Counts /\ responded' \in Counts
  BY NoCountsType DEF StartCombat
<1>10. health' = health /\ round' = 1 /\ turn' = 1
  BY DEF StartCombat
<1>11. TurnState'
  BY <1>1, <1>6, <1>7, <1>8, <1>9, <1>10 DEF AllParts, TurnState, WithinBodies
<1>12. DamageState'
  BY DEF StartCombat, DamageState, NoDamage
<1>13. PendingState' /\ HistoryState'
  BY HistoryAssumption DEF StartCombat, PendingState, HistoryState
<1>14. vitality' \in [Opponents -> Nat]
  <2>1. \A o \in Opponents : OpponentHp[o] \in Nat
    BY ProfileTypes
  <2> QED
    BY <2>1 DEF StartCombat
<1>15. /\ Commit /\ phase' = "active" /\ endReason' = "none"
       /\ UNCHANGED <<stage, roster, issued>>
  BY DEF StartCombat
<1>16. GameState'
  BY <1>1, <1>14, <1>15, CommitType DEF AllParts, GameState, Reasons
<1> QED
  BY <1>11, <1>12, <1>13, <1>16, NextTypeParts DEF AllParts

LEMMA EndCombatTypes ==
  ASSUME TypeOK, NEW player, NEW expected, EndCombat(player, expected)
  PROVE  TypeOK'
<1>1. AllParts
  BY TypeParts
<1>2. /\ Commit /\ phase' = "ended" /\ pending' = NoExchange
      /\ endReason' = "combat_ended_before_resolution"
      /\ UNCHANGED <<stage, roster, health, turnVars, vitality, damage, exchanges, issued>>
  BY DEF EndCombat
<1>3. TurnState' /\ DamageState' /\ HistoryState'
  BY <1>1, <1>2, KeepTurnState, KeepDamageState, KeepHistoryState DEF AllParts, GameState
<1>4. PendingState'
  BY <1>2 DEF PendingState
<1>5. GameState'
  BY <1>1, <1>2, CommitType DEF AllParts, GameState, Reasons
<1> QED
  BY <1>3, <1>4, <1>5, NextTypeParts DEF AllParts

LEMMA CommitBeginTypes ==
  ASSUME TypeOK, NEW a \in Fighters, NEW d \in Fighters, CommitBegin(a, d)
  PROVE  TypeOK'
<1>1. AllParts
  BY TypeParts
<1>2. /\ Commit /\ issued' = issued + 1
      /\ UNCHANGED <<stage, roster, health, turnVars, phase, vitality, damage,
                     exchanges, endReason>>
  BY DEF CommitBegin
<1>3. TurnState' /\ DamageState' /\ HistoryState'
  BY <1>1, <1>2, KeepTurnState, KeepDamageState, KeepHistoryState DEF AllParts, GameState
<1>4. PendingState'
  <2>1. /\ issued \in Nat /\ revision \in Nat /\ round \in Nat /\ turn \in Nat
        /\ responded[d] \in Nat
    BY <1>1 DEF AllParts, GameState, TurnState, Counts
  <2>2. pending' = [id |-> issued + 1, round |-> round, turn |-> turn, attacker |-> a,
                    defender |-> d, responsesBefore |-> responded[d], created |-> revision]
    BY DEF CommitBegin
  <2>3. pending' \in PendingExchanges /\ pending'.id = issued + 1
    BY <2>1, <2>2 DEF PendingExchanges
  <2> QED
    BY <1>2, <2>1, <2>3 DEF PendingState
<1>5. GameState'
  BY <1>1, <1>2, CommitType DEF AllParts, GameState
<1> QED
  BY <1>3, <1>4, <1>5, NextTypeParts DEF AllParts

LEMMA CommitPassTypes ==
  ASSUME TypeOK, NEW a \in Fighters, CommitPass(a)
  PROVE  TypeOK'
<1>1. AllParts
  BY TypeParts
<1>2. /\ Commit
      /\ UNCHANGED <<stage, roster, phase, vitality, pending, damage, exchanges,
                     endReason, issued>>
  BY DEF CommitPass
<1>3. PICK rolls \in WrapRolls(health, standing, schedule) :
        TakeTurn(AdvanceTurn(health, standing, schedule, Bump(acted, a), responded, rolls))
  BY DEF CommitPass
<1>4. Bump(acted, a) \in Counts
  BY <1>1, BumpType DEF AllParts, TurnState
<1>5. TurnTypes(AdvanceTurn(health, standing, schedule, Bump(acted, a), responded, rolls))
  BY <1>1, <1>4, AdvanceTypes DEF AllParts, TurnState
<1>6. TurnState'
  BY <1>1, <1>3, <1>5, TakeTurnTypes DEF AllParts, TurnState
<1>7. DamageState' /\ PendingState' /\ HistoryState'
  BY <1>1, <1>2, KeepDamageState, KeepPendingState, KeepHistoryState DEF AllParts, GameState
<1>8. GameState'
  BY <1>1, <1>2, CommitType DEF AllParts, GameState
<1> QED
  BY <1>6, <1>7, <1>8, NextTypeParts DEF AllParts

LEMMA CommitResolveTypes ==
  ASSUME TypeOK, pending # NoExchange,
         NEW verdict, verdict.winner \in {"attacker", "defender", "nobody"},
         verdict.mode \in DamageModes \union {"none"},
         NEW rolls \in WrapRolls(health, standing, schedule),
         CommitResolve(verdict, rolls)
  PROVE  TypeOK'
<1> DEFINE act  == Bump(acted, pending.attacker)
           resp == Bump(responded, pending.defender)
<1>1. AllParts
  BY TypeParts
<1>2. /\ Commit /\ pending' = NoExchange
      /\ UNCHANGED <<stage, roster, phase, vitality, endReason, issued>>
      /\ TakeTurn(AdvanceTurn(health, standing, schedule, act, resp, rolls))
  BY DEF CommitResolve
<1>3. pending \in PendingExchanges /\ pending.id \in 1..issued
  BY <1>1 DEF AllParts, PendingState
<1>4. /\ pending.attacker \in Fighters /\ pending.defender \in Fighters
      /\ pending.id \in Nat /\ pending.round \in Nat /\ pending.responsesBefore \in Nat
  BY <1>3 DEF PendingExchanges
<1>5. TurnState'
  <2>1. act \in Counts /\ resp \in Counts
    BY <1>1, <1>4, BumpType DEF AllParts, TurnState
  <2> HIDE DEF act, resp
  <2>2. TurnTypes(AdvanceTurn(health, standing, schedule, act, resp, rolls))
    BY <1>1, <2>1, AdvanceTypes DEF AllParts, TurnState
  <2> QED
    BY <1>1, <1>2, <2>2, TakeTurnTypes DEF AllParts, TurnState
<1>6. DamageState'
  <2>1. DamageState
    BY <1>1 DEF AllParts
  <2>2. CASE verdict.mode = "none"
    <3>1. damage' = damage /\ issued' = issued
      BY <1>2, <2>2 DEF CommitResolve
    <3> QED
      BY <2>1, <3>1 DEF DamageState
  <2>3. CASE verdict.mode # "none"
    <3> DEFINE new == NewDisposition(verdict)
    <3>1. damage' = [i \in DOMAIN damage \union {pending.id} |->
                       IF i = pending.id THEN new ELSE damage[i]]
      BY <2>3 DEF CommitResolve
    <3>2. new \in Dispositions
      <4>1. Winner(verdict) \in Fighters /\ Loser(verdict) \in Fighters
        BY <1>4 DEF Winner, Loser
      <4>2. verdict.mode \in DamageModes /\ revision + 1 \in Nat
        BY <1>1, <2>3 DEF AllParts, GameState
      <4> QED
        BY <4>1, <4>2 DEF NewDisposition, Dispositions
    <3> HIDE DEF new
    <3> QED
      BY <1>2, <1>3, <2>1, <3>1, <3>2 DEF DamageState
  <2> QED
    BY <2>2, <2>3
<1>7. HistoryState'
  <2> DEFINE entry == [id |-> pending.id, round |-> pending.round,
                       attacker |-> pending.attacker, defender |-> pending.defender,
                       outnumbered |-> Outnumbered, winner |-> verdict.winner]
  <2>1. entry \in Exchanges
    <3>1. Outnumbered \in BOOLEAN
      BY DEF Outnumbered
    <3> QED
      BY <1>4, <3>1 DEF Exchanges
  <2>2. exchanges' = TakeLast(Append(exchanges, entry), ExchangeHistoryLimit)
    BY DEF CommitResolve
  <2> HIDE DEF entry
  <2>3. Append(exchanges, entry) \in Seq(Exchanges)
    BY <1>1, <2>1 DEF AllParts, HistoryState
  <2> QED
    BY <2>2, <2>3, HistoryAssumption, TakeLastType DEF HistoryState
<1>8. PendingState'
  BY <1>2 DEF PendingState
<1>9. GameState'
  BY <1>1, <1>2, CommitType DEF AllParts, GameState
<1> QED
  BY <1>5, <1>6, <1>7, <1>8, <1>9, NextTypeParts DEF AllParts

LEMMA ResolveExchangeTypes ==
  ASSUME TypeOK, NEW player, NEW expected, NEW id, NEW response,
         ResolveExchange(player, expected, id, response)
  PROVE  TypeOK'
<1>1. PICK attackRoll \in Rolls, defenceRoll \in Rolls,
           rolls \in WrapRolls(health, standing, schedule) :
        CommitResolve(Opposed(response, attackRoll, defenceRoll), rolls)
  BY DEF ResolveExchange
<1>2. /\ Opposed(response, attackRoll, defenceRoll).winner \in {"attacker", "defender", "nobody"}
      /\ Opposed(response, attackRoll, defenceRoll).mode \in DamageModes \union {"none"}
  BY VerdictType DEF Opposed
<1>3. pending # NoExchange
  BY DEF ResolveExchange
<1> QED
  BY <1>1, <1>2, <1>3, CommitResolveTypes

-----------------------------------------------------------------------------
(* Settling a hit *)

LEMMA TargetType ==
  ASSUME TypeOK, NEW id \in DOMAIN damage
  PROVE  /\ damage[id] \in Dispositions /\ id \in Nat
         /\ damage[id].target \in Fighters
         /\ TargetHp(damage[id].target) \in Nat
<1>1. AllParts
  BY TypeParts
<1>2. damage[id] \in Dispositions /\ id \in 1..issued /\ issued \in Nat
  BY <1>1 DEF AllParts, DamageState, GameState
<1>3. damage[id].target \in Fighters /\ id \in Nat
  BY <1>2 DEF Dispositions
<1>4. \A c \in Characters : health[c].hp \in Nat
  BY <1>1 DEF AllParts, TurnState, Healths, HealthRecord
<1>5. \A o \in Opponents : vitality[o] \in Nat
  BY <1>1 DEF AllParts, GameState
<1> QED
  BY <1>2, <1>3, <1>4, <1>5 DEF TargetHp, Fighters

LEMMA ConsumeTypes ==
  ASSUME TypeOK, NEW id \in DOMAIN damage, NEW outcome \in {"applied", "ineligible"},
         NEW net \in Nat, NEW hp \in Nat, Consume(id, outcome, net, hp), issued' = issued
  PROVE  DamageState'
<1> DEFINE before  == TargetHp(damage[id].target)
           settled == [damage[id] EXCEPT !.status = "consumed", !.outcome = outcome, !.net = net,
                                         !.hpBefore = before, !.hpAfter = hp]
<1>1. DamageState
  BY TypeParts DEF AllParts
<1>2. damage[id] \in Dispositions /\ before \in Nat
  BY TargetType
<1>3. damage' = [damage EXCEPT ![id] = settled]
  BY <1>1 DEF Consume, DamageState
<1> HIDE DEF before
<1>4. settled \in Dispositions
  BY <1>2 DEF Dispositions
<1> HIDE DEF settled
<1> QED
  BY <1>1, <1>3, <1>4 DEF DamageState

LEMMA SettledTypes ==
  ASSUME TypeOK, NEW st, Settled(DefeatReason(st)), issued' = issued
  PROVE  /\ PendingState' /\ phase' \in {"none", "active", "ended"} /\ endReason' \in Reasons
<1>1. PendingState
  BY TypeParts DEF AllParts
<1>2. DefeatReason(st) \in Reasons
  BY DEF DefeatReason, Reasons
<1> QED
  BY <1>1, <1>2 DEF Settled, PendingState

LEMMA ConsumeIneligibleTypes ==
  ASSUME TypeOK, NEW expected, NEW id \in DOMAIN damage, ConsumeIneligible(expected, id)
  PROVE  TypeOK'
<1> DEFINE hp == TargetHp(damage[id].target)
<1>1. AllParts
  BY TypeParts
<1>2. /\ Commit /\ Consume(id, "ineligible", 0, hp)
      /\ UNCHANGED <<stage, roster, health, turnVars, phase, vitality, pending,
                     exchanges, endReason, issued>>
  BY DEF ConsumeIneligible
<1>3. hp \in Nat
  BY TargetType
<1> HIDE DEF hp
<1>4. DamageState'
  BY <1>2, <1>3, ConsumeTypes
<1>5. TurnState' /\ PendingState' /\ HistoryState'
  BY <1>1, <1>2, KeepTurnState, KeepPendingState, KeepHistoryState DEF AllParts
<1>6. GameState'
  BY <1>1, <1>2, CommitType DEF AllParts, GameState
<1> QED
  BY <1>4, <1>5, <1>6, NextTypeParts DEF AllParts

LEMMA StruckType ==
  ASSUME TypeOK, NEW id \in DOMAIN damage, damage[id].target \in Characters,
         NEW net \in Nat, NEW conRoll \in Rolls
  PROVE  /\ HealthAfter(id, net, conRoll) \in Healths
         /\ WithinBodies(HealthAfter(id, net, conRoll))
<1> DEFINE c      == damage[id].target
           struck == Struck(c, id, net, conRoll)
           blown  == Damaged(health[c], MaxHp[c], Con[c], CombatKey(id), net, conRoll)
<1>1. /\ health \in Healths /\ WithinBodies(health)
      /\ health[c] \in HealthRecord(DamageKeys) /\ health[c].hp <= MaxHp[c]
  BY TypeParts DEF AllParts, TurnState, Healths, WithinBodies
<1>2. id \in Nat
  BY TargetType
<1>3. /\ MaxHp[c] \in Nat /\ Con[c] \in Nat /\ conRoll \in Nat /\ CombatKey(id) \in DamageKeys
  BY <1>2, ProfileTypes, InputTypes DEF CombatKey, DamageKeys
<1>4. blown \in HealthRecord(DamageKeys) /\ blown.hp <= MaxHp[c]
  BY <1>1, <1>3, DamagedType
<1>5. struck \in HealthRecord(DamageKeys) /\ struck.hp <= MaxHp[c]
  <2>1. struck = blown \/ struck = health[c]
    BY DEF Struck
  <2> HIDE DEF struck, blown
  <2> QED
    BY <1>1, <1>4, <2>1
<1>6. HealthAfter(id, net, conRoll) = [health EXCEPT ![c] = struck]
  BY DEF HealthAfter
<1> HIDE DEF struck
<1> QED
  BY <1>1, <1>5, <1>6 DEF Healths, WithinBodies

LEMMA HitCharacterTypes ==
  ASSUME TypeOK, NEW expected, NEW id \in DOMAIN damage, HitCharacter(expected, id)
  PROVE  TypeOK'
<1> DEFINE c == damage[id].target
<1>1. AllParts
  BY TypeParts
<1>2. /\ Commit /\ c \in Characters
      /\ UNCHANGED <<stage, roster, vitality, exchanges, issued>>
  BY DEF HitCharacter
<1>3. PICK net \in NetBlows(id), conRoll \in Rolls :
        /\ Consume(id, "applied", net, HealthAfter(id, net, conRoll)[c].hp)
        /\ \E rolls \in RepairRolls(HealthAfter(id, net, conRoll),
                                    StandingAfter(id, net, conRoll),
                                    ScheduleAfter(id, net, conRoll)) :
             Repair(HealthAfter(id, net, conRoll), StandingAfter(id, net, conRoll),
                    ScheduleAfter(id, net, conRoll), rolls)
  BY DEF HitCharacter
<1> DEFINE hl  == HealthAfter(id, net, conRoll)
           st  == StandingAfter(id, net, conRoll)
           sch == ScheduleAfter(id, net, conRoll)
<1>4. PICK rolls \in RepairRolls(hl, st, sch) : Repair(hl, st, sch, rolls)
  BY <1>3
<1> DEFINE after == Repaired(hl, st, sch, rolls)
<1>5. net \in Nat
  BY NetBlowTypes, TargetType
<1>6. hl \in Healths /\ WithinBodies(hl)
  BY <1>2, <1>5, StruckType
<1>7. st \in SUBSET InFight
  BY <1>1 DEF StandingAfter, AllParts, TurnState
<1>8. sch \in Schedules
  BY <1>1 DEF ScheduleAfter, AllParts, TurnState, Schedules, NotScheduled
<1>9. Consume(id, "applied", net, hl[c].hp) /\ hl[c].hp \in Nat
  BY <1>2, <1>3, <1>6 DEF Healths, HealthRecord
<1> HIDE DEF hl, st, sch
<1>10. TurnTypes(after)
  BY <1>1, <1>6, <1>7, <1>8, RepairedTypes DEF AllParts, TurnState
<1>11. TakeTurn(after) /\ Settled(DefeatReason(after.standing))
  BY <1>4 DEF Repair
<1> HIDE DEF after
<1>12. TurnState'
  BY <1>1, <1>10, <1>11, TakeTurnTypes DEF AllParts, TurnState
<1>13. DamageState'
  BY <1>2, <1>5, <1>9, ConsumeTypes
<1>14. PendingState' /\ phase' \in {"none", "active", "ended"} /\ endReason' \in Reasons
  BY <1>2, <1>11, SettledTypes
<1>15. HistoryState'
  BY <1>1, <1>2, KeepHistoryState DEF AllParts
<1>16. GameState'
  BY <1>1, <1>2, <1>14, CommitType DEF AllParts, GameState
<1> QED
  BY <1>12, <1>13, <1>14, <1>15, <1>16, NextTypeParts DEF AllParts

LEMMA HitOpponentTypes ==
  ASSUME TypeOK, NEW expected, NEW id \in DOMAIN damage, HitOpponent(expected, id)
  PROVE  TypeOK'
<1> DEFINE o          == damage[id].target
           left(net)  == AtLeastZero(vitality[o] - net)
           still(net) == IF left(net) = 0 THEN standing \ {o} ELSE standing
<1>1. AllParts
  BY TypeParts
<1>2. /\ Commit /\ o \in Opponents
      /\ UNCHANGED <<stage, roster, exchanges, issued>>
  BY DEF HitOpponent
<1>3. PICK net \in NetBlows(id) :
        /\ Consume(id, "applied", net, left(net))
        /\ vitality' = [vitality EXCEPT ![o] = left(net)]
        /\ \E rolls \in RepairRolls(health, still(net), schedule) :
             Repair(health, still(net), schedule, rolls)
  BY DEF HitOpponent
<1> DEFINE hp == left(net)
           st == still(net)
<1>4. PICK rolls \in RepairRolls(health, st, schedule) : Repair(health, st, schedule, rolls)
  BY <1>3
<1> DEFINE after == Repaired(health, st, schedule, rolls)
<1>5. net \in Nat
  BY NetBlowTypes, TargetType
<1>6. hp \in Nat
  <2>1. vitality[o] \in Nat
    BY <1>1, <1>2 DEF AllParts, GameState
  <2> QED
    BY <1>5, <2>1 DEF AtLeastZero
<1>7. st \in SUBSET InFight
  BY <1>1 DEF AllParts, TurnState
<1>8. Consume(id, "applied", net, hp) /\ vitality' = [vitality EXCEPT ![o] = hp]
  BY <1>3
<1> HIDE DEF hp, st
<1>9. TurnTypes(after)
  BY <1>1, <1>7, RepairedTypes DEF AllParts, TurnState
<1>10. TakeTurn(after) /\ Settled(DefeatReason(after.standing))
  BY <1>4 DEF Repair
<1> HIDE DEF after
<1>11. TurnState'
  BY <1>1, <1>9, <1>10, TakeTurnTypes DEF AllParts, TurnState
<1>12. DamageState'
  BY <1>2, <1>5, <1>6, <1>8, ConsumeTypes
<1>13. PendingState' /\ phase' \in {"none", "active", "ended"} /\ endReason' \in Reasons
  BY <1>2, <1>10, SettledTypes
<1>14. HistoryState'
  BY <1>1, <1>2, KeepHistoryState DEF AllParts
<1>15. GameState'
  BY <1>1, <1>2, <1>6, <1>8, <1>13, CommitType DEF AllParts, GameState
<1> QED
  BY <1>11, <1>12, <1>13, <1>14, <1>15, NextTypeParts DEF AllParts

-----------------------------------------------------------------------------
(* Every step, and every behaviour *)

LEMMA ResolveCheckTypes ==
  ASSUME TypeOK, NEW player, NEW c, ResolveCheck(player, c)
  PROVE  TypeOK'
<1>1. AllParts
  BY TypeParts
<1>2. /\ Commit
      /\ UNCHANGED <<stage, roster, health, turnVars, phase, vitality, pending, damage,
                     exchanges, endReason, issued>>
  BY DEF ResolveCheck, sessionVars
<1>3. TurnState' /\ DamageState' /\ PendingState' /\ HistoryState'
  BY <1>1, <1>2, KeepTurnState, KeepDamageState, KeepPendingState, KeepHistoryState
     DEF AllParts, GameState
<1>4. GameState'
  BY <1>1, <1>2, CommitType DEF AllParts, GameState
<1> QED
  BY <1>3, <1>4, NextTypeParts DEF AllParts

LEMMA TurnStepTypes == TypeOK /\ TurnStep => TypeOK'
<1> SUFFICES ASSUME TypeOK, NEW expected \in 0..revision,
                    \/ \E player \in Players, a, d \in Fighters :
                          BeginExchange(player, expected, a, d)
                    \/ \E a, d \in Fighters : BeginNpcExchange(expected, a, d)
                    \/ \E player \in Players \union {Server}, id \in 1..issued,
                         response \in CombatResponses :
                          ResolveExchange(player, expected, id, response)
                    \/ \E player \in Players, a \in Fighters : PassTurn(player, expected, a)
                    \/ \E a \in Fighters : PassNpcTurn(expected, a)
             PROVE  TypeOK'
  BY DEF TurnStep
<1>1. ASSUME NEW player \in Players, NEW a \in Fighters, NEW d \in Fighters,
             BeginExchange(player, expected, a, d)
      PROVE  TypeOK'
  BY <1>1, CommitBeginTypes DEF BeginExchange
<1>2. ASSUME NEW a \in Fighters, NEW d \in Fighters, BeginNpcExchange(expected, a, d)
      PROVE  TypeOK'
  BY <1>2, CommitBeginTypes DEF BeginNpcExchange
<1>3. ASSUME NEW player, NEW id, NEW response, ResolveExchange(player, expected, id, response)
      PROVE  TypeOK'
  BY <1>3, ResolveExchangeTypes
<1>4. ASSUME NEW player \in Players, NEW a \in Fighters, PassTurn(player, expected, a)
      PROVE  TypeOK'
  BY <1>4, CommitPassTypes DEF PassTurn
<1>5. ASSUME NEW a \in Fighters, PassNpcTurn(expected, a)
      PROVE  TypeOK'
  BY <1>5, CommitPassTypes DEF PassNpcTurn
<1> QED
  BY <1>1, <1>2, <1>3, <1>4, <1>5

LEMMA CombatStepTypes == TypeOK /\ CombatStep => TypeOK'
<1>1. TypeOK /\ SessionStep => TypeOK'
  BY StartCombatTypes, EndCombatTypes DEF SessionStep
<1>2. TypeOK /\ DamageStep => TypeOK'
  BY ConsumeIneligibleTypes, HitCharacterTypes, HitOpponentTypes DEF DamageStep
<1> QED
  BY <1>1, <1>2, TurnStepTypes DEF CombatStep

LEMMA NextTypes == TypeOK /\ [Next]_vars => TypeOK'
<1>1. ASSUME TypeOK, GameStep PROVE TypeOK'
  BY <1>1, InitializeTypes, RemoveTypes, ResolveCheckTypes DEF GameStep
<1>2. ASSUME TypeOK, HealthStep PROVE TypeOK'
  BY <1>2, ApplyDamageTypes, ResolveDyingRoundTypes, ResolveFirstAidTypes DEF HealthStep
<1>3. ASSUME TypeOK, UNCHANGED vars PROVE TypeOK'
  <2>1. AllParts
    BY <1>3, TypeParts
  <2>2. UNCHANGED <<stage, revision, roster, health, turnVars, phase, vitality, pending,
                    damage, exchanges, endReason, issued>>
    BY <1>3 DEF vars, sessionVars
  <2>3. TurnState' /\ DamageState' /\ PendingState' /\ HistoryState'
    BY <2>1, <2>2, KeepTurnState, KeepDamageState, KeepPendingState, KeepHistoryState
       DEF AllParts, GameState
  <2>4. GameState'
    BY <2>1, <2>2 DEF AllParts, GameState
  <2> QED
    BY <2>3, <2>4, NextTypeParts DEF AllParts
<1> QED
  BY <1>1, <1>2, <1>3, CombatStepTypes DEF Next

(* The state of the game and of its combat session is always well formed:  *)
(* hit points stay between 0 and the maximum, the turn order, the schedule *)
(* and the disposition of every exchange keep their shape, an open attack  *)
(* and every disposition have an exchange id that was handed out, and the  *)
(* history never exceeds its limit, for every roster, profile and roll.    *)
THEOREM CombatTypeCorrect == Spec => []TypeOK
<1> QED
  BY InitTypes, NextTypes, PTL DEF Spec

-----------------------------------------------------------------------------
(* Who stands: an active combat always has a standing current actor, whoever *)
(* falls to a settled hit or at the end of a round.                        *)

(* The only fighters who drop out at the end of a round are characters, so *)
(* an opponent that stood still stands, and somebody can take the turn.    *)
FoundActor(r) ==
  /\ r.turn \in 1..Len(order)
  /\ order[r.turn] \in r.standing
  /\ r.standing \intersect Opponents # {}

LEMMA WrapFindsActor ==
  ASSUME order \in Seq(Fighters), NEW hl, NEW st \in SUBSET InFight, NEW sch, NEW rolls,
         st \intersect Opponents # {}
  PROVE  FoundActor(WrapRound(hl, st, sch, rolls))
<1> DEFINE wrapped == WrapRound(hl, st, sch, rolls)
           next    == NextActive(wrapped.standing, 1)
<1>1. PICK fallen \in SUBSET Characters : wrapped.standing = st \ fallen
  <2>1. Checked(hl, st, sch) \subseteq Characters
    BY DEF Checked, DueForCheck
  <2> QED
    BY <2>1 DEF WrapRound
<1>2. PICK o \in Opponents : o \in wrapped.standing
  BY <1>1, RosterAssumption
<1>3. wrapped.turn = next
  BY DEF WrapRound
<1> HIDE DEF wrapped
<1>4. PICK i \in 1..Len(order) : order[i] = o
  BY <1>1, <1>2 DEF InFight
<1>5. next \in Nat /\ Len(order) \in Nat
  BY NextActiveIsFirst
<1>6. ~ (next > Len(order))
  <2>1. next > Len(order) => \A j \in 1..Len(order) : order[j] \notin wrapped.standing
    BY NextActiveIsFirst
  <2> QED
    BY <1>2, <1>4, <2>1
<1>7. 1 <= next /\ order[next] \in wrapped.standing
  BY <1>5, <1>6, NextActiveIsFirst
<1>8. FoundActor(wrapped)
  BY <1>2, <1>3, <1>5, <1>6, <1>7 DEF FoundActor
<1> QED
  BY <1>8 DEF wrapped

LEMMA AdvanceFindsActor ==
  ASSUME order \in Seq(Fighters), turn \in Nat, NEW hl, NEW st \in SUBSET InFight,
         NEW sch, NEW act, NEW resp, NEW rolls, st \intersect Opponents # {}
  PROVE  FoundActor(AdvanceTurn(hl, st, sch, act, resp, rolls))
<1> DEFINE next == NextActive(st, turn + 1)
<1>1. CASE next <= Len(order)
  <2>1. AdvanceTurn(hl, st, sch, act, resp, rolls) =
          [health |-> hl, standing |-> st, schedule |-> sch, round |-> round,
           turn |-> next, acted |-> act, responded |-> resp]
    BY <1>1 DEF AdvanceTurn
  <2>2. next \in Nat /\ turn + 1 <= next /\ order[next] \in st
    BY <1>1, NextActiveIsFirst
  <2> HIDE DEF next
  <2> QED
    BY <1>1, <2>1, <2>2 DEF FoundActor
<1>2. CASE ~ (next <= Len(order))
  BY <1>2, WrapFindsActor DEF AdvanceTurn
<1> QED
  BY <1>1, <1>2

(* The repair after a settled hit finds a current actor unless a side is   *)
(* beaten, in which case the combat is over.                               *)
LEMMA RepairFindsActor ==
  ASSUME order \in Seq(Fighters), turn \in Nat \ {0}, NEW hl, NEW st \in SUBSET InFight,
         NEW sch, NEW rolls, DefeatReason(Repaired(hl, st, sch, rolls).standing) = "none"
  PROVE  FoundActor(Repaired(hl, st, sch, rolls))
<1>1. CASE NeedsWrap(st)
  <2>1. st \intersect Opponents # {}
    BY <1>1 DEF NeedsWrap, DefeatReason
  <2>2. Repaired(hl, st, sch, rolls) = AdvanceTurn(hl, st, sch, acted, responded, rolls)
    BY <1>1 DEF Repaired
  <2> QED
    BY <2>1, <2>2, AdvanceFindsActor
<1>2. CASE ~ NeedsWrap(st)
  <2>1. Repaired(hl, st, sch, rolls) =
          [health |-> hl, standing |-> st, schedule |-> sch, round |-> round,
           turn |-> RepairTurn(st), acted |-> acted, responded |-> responded]
    BY <1>2 DEF Repaired
  <2>2. DefeatReason(st) = "none"
    BY <2>1
  <2>3. st \intersect Opponents # {}
    BY <2>2 DEF DefeatReason
  <2>4. NextActive(st, turn) \in Nat /\ ~ (NextActive(st, turn) > Len(order)) /\ Len(order) \in Nat
    BY <1>2, <2>2, NextActiveIsFirst DEF NeedsWrap
  <2>5. turn <= NextActive(st, turn) /\ order[NextActive(st, turn)] \in st
    BY <2>4, NextActiveIsFirst
  <2>6. RepairTurn(st) = NextActive(st, turn)
    BY <2>2 DEF RepairTurn
  <2> QED
    BY <2>1, <2>3, <2>4, <2>5, <2>6 DEF FoundActor
<1> QED
  BY <1>1, <1>2

-----------------------------------------------------------------------------
(* The invariant: besides the current actor, an opponent stands, or the    *)
(* end of a round could leave nobody to take the turn.                     *)
TurnInv ==
  /\ TypeOK
  /\ CurrentActorStands
  /\ phase = "active" => standing \intersect Opponents # {}

LEMMA KeepTurnInv ==
  ASSUME TurnInv, TypeOK', UNCHANGED <<phase, order, turn, standing>>
  PROVE  TurnInv'
  BY DEF TurnInv, CurrentActorStands

LEMMA TakeTurnInv ==
  ASSUME NEW after, FoundActor(after), TakeTurn(after), TypeOK'
  PROVE  TurnInv'
  BY DEF FoundActor, TakeTurn, TurnInv, CurrentActorStands

LEMMA StartCombatTurnInv ==
  ASSUME TypeOK', NEW player, NEW expected,
         NEW chars \in SUBSET Characters, NEW opps \in SUBSET Opponents,
         StartCombat(player, expected, chars, opps)
  PROVE  TurnInv'
<1> DEFINE fighters == chars \union opps
<1>1. /\ order' \in [1..Cardinality(fighters) -> fighters] /\ standing' = fighters
      /\ turn' = 1 /\ opps # {}
  BY DEF StartCombat, TurnOrders
<1>2. fighters \in SUBSET Fighters /\ fighters # {} /\ fighters \intersect Opponents # {}
  BY <1>1 DEF Fighters
<1> HIDE DEF fighters
<1>3. Cardinality(fighters) \in Nat /\ Cardinality(fighters) # 0
  BY <1>2, RosterAssumption, FS_Subset, FS_CardinalityType, FS_EmptySet
<1>4. Len(order') = Cardinality(fighters) /\ order'[1] \in fighters
  BY <1>1, <1>3
<1> QED
  BY <1>1, <1>2, <1>3, <1>4 DEF TurnInv, CurrentActorStands

LEMMA CommitPassTurnInv ==
  ASSUME TurnInv, phase = "active", TypeOK', NEW a, CommitPass(a)
  PROVE  TurnInv'
<1>1. PICK rolls : TakeTurn(AdvanceTurn(health, standing, schedule, Bump(acted, a), responded, rolls))
  BY DEF CommitPass
<1>2. /\ order \in Seq(Fighters) /\ turn \in Nat /\ standing \in SUBSET InFight
      /\ standing \intersect Opponents # {}
  BY DEF TurnInv, TypeOK, SessionTypeOK
<1> QED
  BY <1>1, <1>2, AdvanceFindsActor, TakeTurnInv

LEMMA CommitResolveTurnInv ==
  ASSUME TurnInv, phase = "active", TypeOK', NEW verdict, NEW rolls,
         CommitResolve(verdict, rolls)
  PROVE  TurnInv'
<1>1. PICK act, resp : TakeTurn(AdvanceTurn(health, standing, schedule, act, resp, rolls))
  BY DEF CommitResolve
<1>2. /\ order \in Seq(Fighters) /\ turn \in Nat /\ standing \in SUBSET InFight
      /\ standing \intersect Opponents # {}
  BY DEF TurnInv, TypeOK, SessionTypeOK
<1> QED
  BY <1>1, <1>2, AdvanceFindsActor, TakeTurnInv

LEMMA RepairTurnInv ==
  ASSUME TurnInv, phase = "active", TypeOK', NEW hl, NEW st \in SUBSET InFight,
         NEW sch, NEW rolls, Repair(hl, st, sch, rolls)
  PROVE  TurnInv'
<1> DEFINE after == Repaired(hl, st, sch, rolls)
<1>1. order \in Seq(Fighters) /\ turn \in Nat \ {0}
  BY DEF TurnInv, CurrentActorStands, TypeOK, SessionTypeOK
<1>2. TakeTurn(after) /\ Settled(DefeatReason(after.standing))
  BY DEF Repair
<1>3. CASE DefeatReason(after.standing) = "none"
  <2>1. FoundActor(after)
    BY <1>1, <1>3, RepairFindsActor
  <2> QED
    BY <1>2, <2>1, TakeTurnInv
<1>4. CASE DefeatReason(after.standing) # "none"
  <2>1. phase' = "ended"
    BY <1>2, <1>4 DEF Settled
  <2> QED
    BY <2>1 DEF TurnInv, CurrentActorStands
<1> QED
  BY <1>3, <1>4

LEMMA NextTurnInv == TurnInv /\ [Next]_vars => TurnInv'
<1> SUFFICES ASSUME TurnInv, [Next]_vars PROVE TurnInv'
  OBVIOUS
<1>1. TypeOK /\ TypeOK'
  BY NextTypes DEF TurnInv
<1>2. ASSUME GameStep \/ HealthStep \/ UNCHANGED vars PROVE TurnInv'
  <2>1. phase' = "none" \/ UNCHANGED <<phase, order, turn, standing>>
    BY <1>2 DEF GameStep, HealthStep, Initialize, Remove, ResolveCheck, ApplyDamage,
                ResolveDyingRound, ResolveFirstAid, vars, sessionVars, turnVars
  <2> QED
    BY <1>1, <2>1, KeepTurnInv DEF TurnInv, CurrentActorStands
<1>3. ASSUME SessionStep PROVE TurnInv'
  <2>1. ASSUME NEW player, NEW expected, EndCombat(player, expected) PROVE TurnInv'
    BY <1>1, <2>1 DEF EndCombat, TurnInv, CurrentActorStands
  <2> QED
    BY <1>1, <1>3, <2>1, StartCombatTurnInv DEF SessionStep
<1>4. ASSUME TurnStep PROVE TurnInv'
  <2>1. ASSUME NEW a, NEW d, CommitBegin(a, d) PROVE TurnInv'
    BY <1>1, <2>1, KeepTurnInv DEF CommitBegin, turnVars
  <2>2. ASSUME NEW player, NEW expected, NEW id, NEW response,
               ResolveExchange(player, expected, id, response)
        PROVE  TurnInv'
    BY <1>1, <2>2, CommitResolveTurnInv DEF ResolveExchange
  <2>3. ASSUME NEW expected, NEW a, MayPass(expected, a), CommitPass(a) PROVE TurnInv'
    BY <1>1, <2>3, CommitPassTurnInv DEF MayPass
  <2> QED
    BY <1>4, <2>1, <2>2, <2>3
       DEF TurnStep, BeginExchange, BeginNpcExchange, PassTurn, PassNpcTurn
<1>5. ASSUME DamageStep PROVE TurnInv'
  <2>1. PICK expected \in 0..revision, id \in DOMAIN damage :
          \/ ConsumeIneligible(expected, id)
          \/ HitCharacter(expected, id)
          \/ HitOpponent(expected, id)
    BY <1>5 DEF DamageStep
  <2>2. standing \in SUBSET InFight
    BY <1>1 DEF TypeOK, SessionTypeOK
  <2>3. CASE ConsumeIneligible(expected, id)
    BY <1>1, <2>3, KeepTurnInv DEF ConsumeIneligible, turnVars
  <2>4. CASE HitCharacter(expected, id)
    <3>1. PICK net, conRoll, hl, sch, rolls :
            Repair(hl, StandingAfter(id, net, conRoll), sch, rolls)
      BY <2>4 DEF HitCharacter
    <3>2. StandingAfter(id, net, conRoll) \in SUBSET InFight /\ phase = "active"
      BY <2>2, <2>4 DEF StandingAfter, HitCharacter, MayResolveDamage
    <3> QED
      BY <1>1, <3>1, <3>2, RepairTurnInv
  <2>5. CASE HitOpponent(expected, id)
    <3>1. PICK st, rolls : /\ st = standing \/ st = standing \ {damage[id].target}
                           /\ Repair(health, st, schedule, rolls)
      BY <2>5 DEF HitOpponent
    <3>2. st \in SUBSET InFight /\ phase = "active"
      BY <2>2, <2>5, <3>1 DEF HitOpponent, MayResolveDamage
    <3> QED
      BY <1>1, <3>1, <3>2, RepairTurnInv
  <2> QED
    BY <2>1, <2>3, <2>4, <2>5
<1> QED
  BY <1>2, <1>3, <1>4, <1>5 DEF Next, CombatStep

(* An active combat always has a current actor that stands: the repair     *)
(* after a settled hit and the end of a round never leave the turn with a  *)
(* fallen fighter or past the end of the order.                            *)
THEOREM CombatHasAnActor == Spec => []CurrentActorStands
<1>1. Init => TurnInv
  BY InitTypes DEF Init, NoSession, TurnInv, CurrentActorStands
<1>2. TurnInv => CurrentActorStands
  BY DEF TurnInv
<1> QED
  BY <1>1, <1>2, NextTurnInv, PTL DEF Spec

-----------------------------------------------------------------------------
(* Who is out, and why.  The parts of OutForAReason, for the health, the   *)
(* opponents' hit points and the standing fighters a step leaves behind.   *)
OutAreDead(hl, st) == \A c \in (Characters \intersect InFight) \ st : hl[c].dead

OutAtZero(hps, st) == \A o \in Opponents \intersect InFight : o \in st <=> hps[o] > 0

LEMMA WrapLeavesTheDeadOut ==
  ASSUME NEW hl, NEW st, NEW sch, NEW rolls, NEW hps, OutAreDead(hl, st), OutAtZero(hps, st)
  PROVE  LET r == WrapRound(hl, st, sch, rolls)
         IN  OutAreDead(r.health, r.standing) /\ OutAtZero(hps, r.standing)
<1> DEFINE checked == Checked(hl, st, sch)
           r       == WrapRound(hl, st, sch, rolls)
<1>1. checked \subseteq Characters \intersect st
  BY DEF Checked, DueForCheck
<1>2. /\ \A c \in Characters : c \notin checked => r.health[c] = hl[c]
      /\ r.standing = st \ {c \in checked : r.health[c].dead}
  BY <1>1 DEF WrapRound
<1> HIDE DEF checked, r
<1>3. OutAreDead(r.health, r.standing)
  BY <1>1, <1>2 DEF OutAreDead
<1>4. OutAtZero(hps, r.standing)
  BY <1>1, <1>2, RosterAssumption DEF OutAtZero
<1> QED
  BY <1>3, <1>4 DEF r

LEMMA AdvanceLeavesTheDeadOut ==
  ASSUME NEW hl, NEW st, NEW sch, NEW act, NEW resp, NEW rolls, NEW hps,
         OutAreDead(hl, st), OutAtZero(hps, st)
  PROVE  LET r == AdvanceTurn(hl, st, sch, act, resp, rolls)
         IN  OutAreDead(r.health, r.standing) /\ OutAtZero(hps, r.standing)
<1> DEFINE r    == AdvanceTurn(hl, st, sch, act, resp, rolls)
           next == NextActive(st, turn + 1)
<1>1. CASE next <= Len(order)
  <2>1. r = [health |-> hl, standing |-> st, schedule |-> sch, round |-> round,
             turn |-> next, acted |-> act, responded |-> resp]
    BY <1>1 DEF AdvanceTurn
  <2>2. r.health = hl /\ r.standing = st
    BY <2>1
  <2> QED
    BY <2>2
<1>2. CASE ~ (next <= Len(order))
  <2>1. r = WrapRound(hl, st, sch, rolls)
    BY <1>2 DEF AdvanceTurn
  <2> QED
    BY <2>1, WrapLeavesTheDeadOut
<1> QED
  BY <1>1, <1>2

LEMMA RepairLeavesTheDeadOut ==
  ASSUME NEW hl, NEW st, NEW sch, NEW rolls, NEW hps, OutAreDead(hl, st), OutAtZero(hps, st)
  PROVE  LET r == Repaired(hl, st, sch, rolls)
         IN  OutAreDead(r.health, r.standing) /\ OutAtZero(hps, r.standing)
<1> DEFINE r == Repaired(hl, st, sch, rolls)
<1>1. CASE NeedsWrap(st)
  <2>1. r = AdvanceTurn(hl, st, sch, acted, responded, rolls)
    BY <1>1 DEF Repaired
  <2> QED
    BY <2>1, AdvanceLeavesTheDeadOut
<1>2. CASE ~ NeedsWrap(st)
  <2>1. r = [health |-> hl, standing |-> st, schedule |-> sch, round |-> round,
             turn |-> RepairTurn(st), acted |-> acted, responded |-> responded]
    BY <1>2 DEF Repaired
  <2>2. r.health = hl /\ r.standing = st
    BY <2>1
  <2> QED
    BY <2>2
<1> QED
  BY <1>1, <1>2

(* A combat needs a game that runs: nothing initialises a game over one.   *)
NoGameNoCombat == stage # "running" => phase = "none"

OutInv == TurnInv /\ NoGameNoCombat /\ OutForAReason

(* OutForAReason, by its parts; the opponent that stands is in TurnInv.    *)
ReasonGiven ==
  /\ endReason = "opposition_defeated" => standing \intersect Opponents = {}
  /\ endReason = "investigators_defeated" => standing \intersect Characters = {}
  /\ phase = "ended" <=> endReason # "none"

LEMMA OutParts ==
  OutInv <=> /\ TurnInv /\ NoGameNoCombat
             /\ phase # "none" => /\ OutAreDead(health, standing)
                                  /\ OutAtZero(vitality, standing)
                                  /\ ReasonGiven
  BY DEF OutInv, TurnInv, OutForAReason, OutAreDead, OutAtZero, ReasonGiven

LEMMA NextOutParts ==
  OutInv' <=> /\ TurnInv' /\ NoGameNoCombat'
              /\ phase' # "none" => /\ OutAreDead(health, standing)'
                                    /\ OutAtZero(vitality, standing)'
                                    /\ ReasonGiven'
  BY DEF OutInv, TurnInv, OutForAReason, OutAreDead, OutAtZero, ReasonGiven

LEMMA KeepOutInv ==
  ASSUME OutInv, TurnInv', NoGameNoCombat', UNCHANGED <<phase, order, standing, vitality, endReason>>,
         \A c \in Characters : health[c].dead => health'[c] = health[c]
  PROVE  OutInv'
<1> SUFFICES ASSUME phase # "none"
             PROVE  /\ OutAreDead(health, standing)'
                    /\ OutAtZero(vitality, standing)'
                    /\ ReasonGiven'
  BY NextOutParts
<1>1. OutAreDead(health, standing) /\ OutAtZero(vitality, standing) /\ ReasonGiven
  BY OutParts
<1> QED
  BY <1>1 DEF OutAreDead, OutAtZero, ReasonGiven, InFight

LEMMA TakeTurnOutInv ==
  ASSUME OutInv, phase = "active", TurnInv', NoGameNoCombat', NEW after, TakeTurn(after),
         UNCHANGED <<phase, vitality, endReason>>,
         OutAreDead(after.health, after.standing), OutAtZero(vitality, after.standing)
  PROVE  OutInv'
<1>1. endReason = "none"
  BY OutParts DEF ReasonGiven
<1>2. ReasonGiven'
  BY <1>1 DEF ReasonGiven
<1>3. OutAreDead(health, standing)' /\ OutAtZero(vitality, standing)'
  BY DEF TakeTurn, OutAreDead, OutAtZero, InFight
<1> QED
  BY <1>2, <1>3, NextOutParts

LEMMA RepairOutInv ==
  ASSUME TurnInv', NoGameNoCombat', NEW hl, NEW st, NEW sch, NEW rolls, Repair(hl, st, sch, rolls),
         OutAreDead(hl, st), OutAtZero(vitality', st)
  PROVE  OutInv'
<1> DEFINE r == Repaired(hl, st, sch, rolls)
<1>1. TakeTurn(r) /\ Settled(DefeatReason(r.standing))
  BY DEF Repair
<1>2. OutAreDead(r.health, r.standing) /\ OutAtZero(vitality', r.standing)
  BY RepairLeavesTheDeadOut
<1> HIDE DEF r
<1>3. OutAreDead(health, standing)' /\ OutAtZero(vitality, standing)'
  BY <1>1, <1>2 DEF TakeTurn, OutAreDead, OutAtZero, InFight
<1>4. ReasonGiven'
  BY <1>1 DEF TakeTurn, Settled, DefeatReason, ReasonGiven
<1> QED
  BY <1>3, <1>4, NextOutParts

LEMMA StartCombatOutInv ==
  ASSUME TurnInv', NoGameNoCombat', NEW player, NEW expected,
         NEW chars \in SUBSET Characters, NEW opps \in SUBSET Opponents,
         StartCombat(player, expected, chars, opps)
  PROVE  OutInv'
<1>1. InFight' \subseteq chars \union opps
  <2> DEFINE fighters == chars \union opps
  <2>1. order' \in [1..Cardinality(fighters) -> fighters]
    BY DEF StartCombat, TurnOrders
  <2>2. fighters \in SUBSET Fighters
    BY DEF Fighters
  <2> HIDE DEF fighters
  <2>3. Cardinality(fighters) \in Nat
    BY <2>2, RosterAssumption, FS_Subset, FS_CardinalityType
  <2>4. \A i \in 1..Len(order') : order'[i] \in fighters
    BY <2>1, <2>3
  <2> QED
    BY <2>4 DEF InFight, fighters
<1>2. /\ standing' = chars \union opps
      /\ vitality' = [o \in Opponents |-> IF o \in opps THEN OpponentHp[o] ELSE 0]
      /\ phase' = "active" /\ endReason' = "none"
  BY DEF StartCombat
<1>3. OutAreDead(health, standing)'
  BY <1>1, <1>2 DEF OutAreDead
<1>4. OutAtZero(vitality, standing)'
  <2> SUFFICES ASSUME NEW o \in Opponents, o \in InFight'
               PROVE  o \in standing' <=> vitality'[o] > 0
    BY DEF OutAtZero
  <2>1. o \in opps
    BY <1>1, RosterAssumption
  <2>2. OpponentHp[o] \in Nat \ {0}
    BY ProfileAssumption
  <2> QED
    BY <1>2, <2>1, <2>2
<1>5. ReasonGiven'
  BY <1>2 DEF ReasonGiven
<1> QED
  BY <1>3, <1>4, <1>5, NextOutParts

LEMMA QuietOutInv ==
  ASSUME OutInv, TurnInv', NoGameNoCombat', GameStep \/ HealthStep \/ UNCHANGED vars
  PROVE  OutInv'
<1>1. TypeOK
  BY DEF OutInv, TurnInv
<1>2. ASSUME NEW c \in Characters, NEW key, NEW blow, NEW conRoll,
             ApplyDamage(c, key, blow, conRoll)
      PROVE  OutInv'
  <2>1. /\ ~ health[c].dead
        /\ \A other \in Characters : other # c => health'[other] = health[other]
        /\ UNCHANGED <<phase, order, standing, vitality, endReason>>
    BY <1>1, <1>2 DEF ApplyDamage, TakesDamage, TypeOK
  <2> QED
    BY <2>1, KeepOutInv
<1>3. ASSUME NEW c \in Characters, NEW roll, ResolveDyingRound(c, roll) PROVE OutInv'
  <2>1. /\ ~ health[c].dead
        /\ \A other \in Characters : other # c => health'[other] = health[other]
        /\ UNCHANGED <<phase, order, standing, vitality, endReason>>
    BY <1>1, <1>3 DEF ResolveDyingRound, AcceptsDyingRound, TypeOK, sessionVars, turnVars
  <2> QED
    BY <2>1, KeepOutInv
<1>4. ASSUME NEW c \in Characters, NEW target, NEW roll, ResolveFirstAid(c, target, roll)
      PROVE  OutInv'
  <2>1. /\ ~ health[c].dead
        /\ \A other \in Characters : other # c => health'[other] = health[other]
        /\ UNCHANGED <<phase, order, standing, vitality, endReason>>
    BY <1>1, <1>4 DEF ResolveFirstAid, AcceptsFirstAid, TypeOK, sessionVars, turnVars
  <2> QED
    BY <2>1, KeepOutInv
<1>5. ASSUME NEW player, NEW chosen, NEW hp, Initialize(player, chosen, hp)
      PROVE  OutInv'
  <2>1. UNCHANGED <<phase, order, standing, vitality, endReason>> /\ stage = "lobby"
    BY <1>5 DEF Initialize, sessionVars, turnVars
  <2>2. phase = "none"
    BY <2>1 DEF OutInv, NoGameNoCombat
  <2> QED
    BY <2>1, <2>2, NextOutParts
<1>6. ASSUME Remove PROVE OutInv'
  BY <1>6, NextOutParts DEF Remove
<1>7. ASSUME NEW player, NEW c, ResolveCheck(player, c) PROVE OutInv'
  BY <1>7, KeepOutInv DEF ResolveCheck, sessionVars, turnVars
<1>8. ASSUME UNCHANGED vars PROVE OutInv'
  BY <1>8, KeepOutInv DEF vars, sessionVars, turnVars
<1> QED
  BY <1>2, <1>3, <1>4, <1>5, <1>6, <1>7, <1>8 DEF GameStep, HealthStep

LEMMA NextNoGameNoCombat == NoGameNoCombat /\ [Next]_vars => NoGameNoCombat'
<1> SUFFICES ASSUME NoGameNoCombat, [Next]_vars PROVE NoGameNoCombat'
  OBVIOUS
<1>1. ASSUME CombatStep PROVE stage' = "running"
  <2>1. ASSUME SessionStep PROVE stage' = "running"
    BY <2>1 DEF SessionStep, StartCombat, EndCombat, MayEnd
  <2>2. ASSUME TurnStep PROVE stage' = "running"
    <3>1. ASSUME NEW e, NEW a, NEW d, MayBegin(e, a, d), CommitBegin(a, d)
          PROVE  stage' = "running"
      BY <3>1 DEF MayBegin, CommitBegin
    <3>2. ASSUME NEW e, NEW a, MayPass(e, a), CommitPass(a)
          PROVE  stage' = "running"
      BY <3>2 DEF MayPass, CommitPass
    <3>3. ASSUME NEW player, NEW e, NEW id, NEW response, ResolveExchange(player, e, id, response)
          PROVE  stage' = "running"
      BY <3>3 DEF ResolveExchange, CommitResolve
    <3> QED
      BY <2>2, <3>1, <3>2, <3>3 DEF TurnStep, BeginExchange, BeginNpcExchange, PassTurn,
                                    PassNpcTurn
  <2>3. ASSUME DamageStep PROVE stage' = "running"
    BY <2>3 DEF DamageStep, ConsumeIneligible, HitCharacter, HitOpponent, MayResolveDamage
  <2> QED
    BY <1>1, <2>1, <2>2, <2>3 DEF CombatStep
<1>2. ASSUME GameStep PROVE NoGameNoCombat'
  BY <1>2 DEF GameStep, Initialize, Remove, ResolveCheck, NoGameNoCombat
<1>3. ASSUME HealthStep PROVE stage' = "running"
  BY <1>3 DEF HealthStep, ApplyDamage, ResolveDyingRound, ResolveFirstAid
<1>4. ASSUME UNCHANGED vars PROVE NoGameNoCombat'
  BY <1>4 DEF vars, sessionVars, NoGameNoCombat
<1> QED
  BY <1>1, <1>2, <1>3, <1>4 DEF Next, NoGameNoCombat

LEMMA DamageStepOutInv ==
  ASSUME OutInv, TurnInv', NoGameNoCombat', DamageStep
  PROVE  OutInv'
<1>1. PICK expected \in 0..revision, id \in DOMAIN damage :
        \/ ConsumeIneligible(expected, id)
        \/ HitCharacter(expected, id)
        \/ HitOpponent(expected, id)
  BY DEF DamageStep
<1>2. phase = "active"
  BY <1>1 DEF ConsumeIneligible, HitCharacter, HitOpponent, MayResolveDamage
<1>3. OutAreDead(health, standing) /\ OutAtZero(vitality, standing)
  BY <1>2, OutParts
<1>4. /\ health = [c \in Characters |-> health[c]]
      /\ vitality = [o \in Opponents |-> vitality[o]]
      /\ \A o \in Opponents : vitality[o] \in Nat
  BY DEF OutInv, TurnInv, TypeOK, SessionTypeOK
<1>5. CASE ConsumeIneligible(expected, id)
  BY <1>5, KeepOutInv DEF ConsumeIneligible, turnVars
<1>6. CASE HitCharacter(expected, id)
  <2> DEFINE c == damage[id].target
  <2>1. PICK net, conRoll, sch, rolls :
          Repair(HealthAfter(id, net, conRoll), StandingAfter(id, net, conRoll), sch, rolls)
    BY <1>6 DEF HitCharacter
  <2> DEFINE hl     == HealthAfter(id, net, conRoll)
             st     == StandingAfter(id, net, conRoll)
             struck == Struck(c, id, net, conRoll)
  <2>2. c \in Characters /\ c \in standing /\ vitality' = vitality
    BY <1>6 DEF HitCharacter, Ineligible
  <2>3. /\ hl = [health EXCEPT ![c] = struck]
        /\ st = IF struck.dead THEN standing \ {c} ELSE standing
    BY DEF HealthAfter, StandingAfter
  <2> HIDE DEF hl, st, struck
  <2>4. OutAreDead(hl, st)
    BY <1>3, <1>4, <2>2, <2>3 DEF OutAreDead
  <2>5. OutAtZero(vitality', st)
    BY <1>3, <2>2, <2>3, RosterAssumption DEF OutAtZero
  <2> QED
    BY <2>1, <2>4, <2>5, RepairOutInv DEF hl, st
<1>7. CASE HitOpponent(expected, id)
  <2> DEFINE o          == damage[id].target
             left(net)  == AtLeastZero(vitality[o] - net)
             still(net) == IF left(net) = 0 THEN standing \ {o} ELSE standing
  <2>1. PICK net \in NetBlows(id) :
          /\ vitality' = [vitality EXCEPT ![o] = left(net)]
          /\ \E rolls : Repair(health, still(net), schedule, rolls)
    BY <1>7 DEF HitOpponent
  <2> DEFINE hp == left(net)
             st == still(net)
  <2>2. o \in Opponents /\ o \in standing
    BY <1>7 DEF HitOpponent, Ineligible
  <2>3. hp \in Nat
    <3>1. net \in Nat
      BY NetBlowTypes, TargetType DEF OutInv, TurnInv
    <3> QED
      BY <1>4, <2>2, <3>1 DEF AtLeastZero
  <2>4. /\ vitality' = [vitality EXCEPT ![o] = hp]
        /\ \E rolls : Repair(health, st, schedule, rolls)
        /\ st = IF hp = 0 THEN standing \ {o} ELSE standing
    BY <2>1
  <2> HIDE DEF hp, st
  <2>5. OutAreDead(health, st)
    BY <1>3, <2>2, <2>4, RosterAssumption DEF OutAreDead
  <2>6. OutAtZero(vitality', st)
    BY <1>3, <1>4, <2>2, <2>3, <2>4 DEF OutAtZero
  <2> QED
    BY <2>4, <2>5, <2>6, RepairOutInv
<1> QED
  BY <1>1, <1>5, <1>6, <1>7

LEMMA NextOutInv == OutInv /\ [Next]_vars => OutInv'
<1> SUFFICES ASSUME OutInv, [Next]_vars PROVE OutInv'
  OBVIOUS
<1>1. TurnInv' /\ NoGameNoCombat'
  BY NextTurnInv, NextNoGameNoCombat DEF OutInv
<1>2. ASSUME GameStep \/ HealthStep \/ UNCHANGED vars PROVE OutInv'
  BY <1>1, <1>2, QuietOutInv
<1>3. ASSUME SessionStep PROVE OutInv'
  <2>1. ASSUME NEW player, NEW expected, EndCombat(player, expected) PROVE OutInv'
    <3>1. /\ phase = "active" /\ phase' = "ended"
          /\ endReason' = "combat_ended_before_resolution"
          /\ UNCHANGED <<health, order, standing, vitality>>
      BY <2>1 DEF EndCombat, MayEnd, turnVars
    <3>2. OutAreDead(health, standing) /\ OutAtZero(vitality, standing)
      BY <3>1, OutParts
    <3>3. OutAreDead(health, standing)' /\ OutAtZero(vitality, standing)'
      BY <3>1, <3>2 DEF OutAreDead, OutAtZero, InFight
    <3> QED
      BY <1>1, <3>1, <3>3, NextOutParts DEF ReasonGiven
  <2> QED
    BY <1>1, <1>3, <2>1, StartCombatOutInv DEF SessionStep
<1>4. ASSUME TurnStep PROVE OutInv'
  <2>1. ASSUME NEW a, NEW d, CommitBegin(a, d) PROVE OutInv'
    BY <1>1, <2>1, KeepOutInv DEF CommitBegin, turnVars
  <2>2. ASSUME phase = "active", NEW after, TakeTurn(after), NEW sch, NEW act, NEW resp, NEW rolls,
               after = AdvanceTurn(health, standing, sch, act, resp, rolls),
               UNCHANGED <<phase, vitality, endReason>>
        PROVE  OutInv'
    BY <1>1, <2>2, OutParts, AdvanceLeavesTheDeadOut, TakeTurnOutInv
  <2>3. ASSUME NEW player, NEW expected, NEW id, NEW response,
               ResolveExchange(player, expected, id, response)
        PROVE  OutInv'
    <3>1. phase = "active" /\ UNCHANGED <<phase, vitality, endReason>>
      BY <2>3 DEF ResolveExchange, CommitResolve
    <3>2. PICK act, resp, rolls : TakeTurn(AdvanceTurn(health, standing, schedule, act, resp, rolls))
      BY <2>3 DEF ResolveExchange, CommitResolve
    <3> QED
      BY <2>2, <3>1, <3>2
  <2>4. ASSUME NEW expected, NEW a, MayPass(expected, a), CommitPass(a) PROVE OutInv'
    <3>1. phase = "active" /\ UNCHANGED <<phase, vitality, endReason>>
      BY <2>4 DEF MayPass, CommitPass
    <3>2. PICK act, resp, rolls : TakeTurn(AdvanceTurn(health, standing, schedule, act, resp, rolls))
      BY <2>4 DEF CommitPass
    <3> QED
      BY <2>2, <3>1, <3>2
  <2> QED
    BY <1>4, <2>1, <2>3, <2>4
       DEF TurnStep, BeginExchange, BeginNpcExchange, PassTurn, PassNpcTurn
<1>5. ASSUME DamageStep PROVE OutInv'
  BY <1>1, <1>5, DamageStepOutInv
<1> QED
  BY <1>2, <1>3, <1>4, <1>5 DEF Next, CombatStep

(* Fighters leave the fight only for good reason: a character that is out  *)
(* is dead, an opponent is out exactly at 0 HP, an active combat has an    *)
(* opponent to fight, and a side that is said to be beaten is.             *)
THEOREM FightersFallForAReason == Spec => []OutForAReason
<1>1. Init => OutInv
  <2>1. Init => TurnInv
    BY InitTypes DEF Init, NoSession, TurnInv, CurrentActorStands
  <2> QED
    BY <2>1 DEF Init, NoSession, OutInv, NoGameNoCombat, OutForAReason
<1>2. OutInv => OutForAReason
  BY DEF OutInv
<1> QED
  BY <1>1, <1>2, NextOutInv, PTL DEF Spec

-----------------------------------------------------------------------------
(* Exchanges and hits: one thing is open at a time, the open attack stays  *)
(* the current actor's, a settled hit is final, and the session implements *)
(* the protocol of its clients.                                            *)

OpenInv ==
  /\ TypeOK
  /\ OneThingOpen
  /\ PendingExchangeIsCurrent

-----------------------------------------------------------------------------
(* What settling a hit and answering an attack do to the dispositions      *)

LEMMA SettledOne ==
  ASSUME TypeOK, OneThingOpen, NEW id \in DOMAIN damage, IsBlocker(id),
         NEW outcome, NEW net, NEW hp, Consume(id, outcome, net, hp)
  PROVE  /\ DOMAIN damage' = DOMAIN damage
         /\ \A other \in DOMAIN damage : other # id => damage'[other] = damage[other]
         /\ ~ Blocked'
         /\ Blocked /\ damage[id].status = "pending"
<1>1. damage[id] \in Dispositions /\ damage \in [DOMAIN damage -> Dispositions]
  BY DEF TypeOK, SessionTypeOK
<1>2. id \in PendingDamage
  BY DEF IsBlocker
<1>3. \A other \in PendingDamage : other = id
  BY <1>2 DEF OneThingOpen
<1>4. /\ DOMAIN damage' = DOMAIN damage
      /\ \A other \in DOMAIN damage : other # id => damage'[other] = damage[other]
      /\ damage'[id].status = "consumed"
  BY <1>1 DEF Consume, Dispositions
<1>5. PendingDamage' = {}
  BY <1>3, <1>4 DEF PendingDamage
<1> QED
  BY <1>2, <1>4, <1>5 DEF Blocked, PendingDamage

LEMMA AnsweredOne ==
  ASSUME TypeOK, ~ Blocked, NEW verdict, NEW rolls, CommitResolve(verdict, rolls)
  PROVE  /\ DOMAIN damage' \in {DOMAIN damage, DOMAIN damage \union {pending.id}}
         /\ \A other \in DOMAIN damage : other # pending.id => damage'[other] = damage[other]
         /\ PendingDamage' \subseteq {pending.id}
<1>1. PendingDamage = {}
  BY DEF Blocked
<1>2. CASE damage' = damage
  BY <1>1, <1>2 DEF PendingDamage
<1>3. CASE damage' # damage
  <2>1. damage' = [i \in DOMAIN damage \union {pending.id} |->
                     IF i = pending.id THEN NewDisposition(verdict) ELSE damage[i]]
    BY <1>3 DEF CommitResolve
  <2> QED
    BY <1>1, <2>1 DEF PendingDamage
<1> QED
  BY <1>2, <1>3

-----------------------------------------------------------------------------
(* The invariant                                                           *)

LEMMA KeepOpenInv ==
  ASSUME OpenInv, TypeOK', UNCHANGED <<phase, pending, damage>>,
         UNCHANGED <<order, turn, round, standing, responded>>
  PROVE  OpenInv'
<1> USE DEF OpenInv
<1>1. OneThingOpen'
  BY DEF OneThingOpen, Blocked, PendingDamage
<1>2. PendingExchangeIsCurrent'
  BY DEF PendingExchangeIsCurrent
<1> QED
  BY <1>1, <1>2

(* Where no attack and no hit is left open, the invariant is immediate.    *)
LEMMA NothingOpen ==
  ASSUME TypeOK', pending' = NoExchange, ~ Blocked'
  PROVE  OpenInv'
  BY DEF OpenInv, OneThingOpen, PendingExchangeIsCurrent, Blocked

LEMMA CommitBeginOpenInv ==
  ASSUME OpenInv, TypeOK', phase = "active", ~ Blocked,
         NEW a, NEW d, a = order[turn], {a, d} \subseteq standing, Side(a) # Side(d),
         CommitBegin(a, d)
  PROVE  OpenInv'
<1> USE DEF OpenInv
<1>1. /\ pending' = [id |-> issued + 1, round |-> round, turn |-> turn, attacker |-> a,
                     defender |-> d, responsesBefore |-> responded[d], created |-> revision]
      /\ UNCHANGED <<turnVars, phase, damage>>
  BY DEF CommitBegin
<1>2. issued \in Nat /\ DOMAIN damage \subseteq 1..issued
  BY DEF TypeOK, SessionTypeOK
<1>3. issued + 1 \notin DOMAIN damage
  BY <1>2
<1>4. OneThingOpen'
  BY <1>1 DEF OneThingOpen, Blocked, PendingDamage
<1>5. PendingExchangeIsCurrent'
  BY <1>1, <1>3 DEF PendingExchangeIsCurrent, turnVars
<1> QED
  BY <1>4, <1>5

LEMMA CommitResolveOpenInv ==
  ASSUME OpenInv, TypeOK', phase = "active", ~ Blocked,
         NEW verdict, NEW rolls, CommitResolve(verdict, rolls)
  PROVE  OpenInv'
<1>1. phase' = "active" /\ pending' = NoExchange
  BY DEF CommitResolve
<1>2. PendingDamage' \subseteq {pending.id}
  BY AnsweredOne DEF OpenInv
<1>3. OneThingOpen'
  BY <1>1, <1>2 DEF OneThingOpen
<1> QED
  BY <1>1, <1>3 DEF OpenInv, PendingExchangeIsCurrent

LEMMA CommitPassOpenInv ==
  ASSUME OpenInv, TypeOK', pending = NoExchange, ~ Blocked, NEW a, CommitPass(a)
  PROVE  OpenInv'
<1>1. UNCHANGED <<pending, damage>>
  BY DEF CommitPass
<1> QED
  BY <1>1, NothingOpen DEF Blocked, PendingDamage

(* A hit is settled only while no attack is open, and none opens then.     *)
LEMMA DamageStepOpens ==
  ASSUME OpenInv, NEW expected, NEW id \in DOMAIN damage,
         \/ ConsumeIneligible(expected, id)
         \/ HitCharacter(expected, id)
         \/ HitOpponent(expected, id)
  PROVE  /\ phase = "active" /\ phase' \in {"active", "ended"}
         /\ pending = NoExchange /\ pending' = NoExchange
         /\ \E outcome, net, hp : Consume(id, outcome, net, hp)
         /\ IsBlocker(id)
<1>1. MayResolveDamage(expected, id)
  BY DEF ConsumeIneligible, HitCharacter, HitOpponent
<1>2. phase = "active" /\ IsBlocker(id)
  BY <1>1 DEF MayResolveDamage
<1>3. pending = NoExchange
  BY <1>2 DEF OpenInv, OneThingOpen, Blocked, IsBlocker
<1>4. CASE ConsumeIneligible(expected, id)
  BY <1>2, <1>3, <1>4 DEF ConsumeIneligible
<1>5. CASE HitCharacter(expected, id)
  <2>1. PICK hl, st, sch, rolls : Repair(hl, st, sch, rolls)
    BY <1>5 DEF HitCharacter
  <2>2. \E outcome, net, hp : Consume(id, outcome, net, hp)
    BY <1>5 DEF HitCharacter
  <2>3. phase' \in {"active", "ended"} /\ pending' = NoExchange
    BY <1>3, <2>1 DEF Repair, Settled
  <2> QED
    BY <1>2, <1>3, <2>2, <2>3
<1>6. CASE HitOpponent(expected, id)
  <2>1. PICK hl, st, sch, rolls : Repair(hl, st, sch, rolls)
    BY <1>6 DEF HitOpponent
  <2>2. \E outcome, net, hp : Consume(id, outcome, net, hp)
    BY <1>6 DEF HitOpponent
  <2>3. phase' \in {"active", "ended"} /\ pending' = NoExchange
    BY <1>3, <2>1 DEF Repair, Settled
  <2> QED
    BY <1>2, <1>3, <2>2, <2>3
<1> QED
  BY <1>4, <1>5, <1>6

LEMMA DamageStepOpenInv ==
  ASSUME OpenInv, TypeOK', DamageStep
  PROVE  OpenInv' /\ ~ Blocked'
<1>1. PICK expected \in 0..revision, id \in DOMAIN damage :
        \/ ConsumeIneligible(expected, id)
        \/ HitCharacter(expected, id)
        \/ HitOpponent(expected, id)
  BY DEF DamageStep
<1>2. PICK outcome, net, hp : Consume(id, outcome, net, hp)
  BY <1>1, DamageStepOpens
<1>3. IsBlocker(id) /\ pending' = NoExchange
  BY <1>1, DamageStepOpens
<1>4. ~ Blocked'
  BY <1>2, <1>3, SettledOne DEF OpenInv
<1> QED
  BY <1>3, <1>4, NothingOpen

(* The steps that leave what is open alone, or drop the whole game.        *)
LEMMA QuietStep ==
  ASSUME GameStep \/ HealthStep \/ UNCHANGED vars
  PROVE  \/ /\ UNCHANGED <<phase, pending, damage>>
            /\ UNCHANGED <<order, turn, round, standing, responded>>
         \/ Remove
  BY DEF GameStep, HealthStep, Initialize, ResolveCheck, ApplyDamage,
         ResolveDyingRound, ResolveFirstAid, vars, sessionVars, turnVars

LEMMA NextOpenInv == OpenInv /\ [Next]_vars => OpenInv'
<1> SUFFICES ASSUME OpenInv, [Next]_vars PROVE OpenInv'
  OBVIOUS
<1>1. TypeOK /\ TypeOK'
  BY NextTypes DEF OpenInv
<1>2. ASSUME GameStep \/ HealthStep \/ UNCHANGED vars PROVE OpenInv'
  <2>1. CASE Remove
    BY <1>1, <2>1, NothingOpen DEF Remove, Blocked, PendingDamage, NoDamage
  <2>2. CASE ~ Remove
    BY <1>1, <1>2, <2>2, QuietStep, KeepOpenInv
  <2> QED
    BY <2>1, <2>2
<1>3. ASSUME SessionStep PROVE OpenInv'
  <2>1. pending' = NoExchange
    BY <1>3 DEF SessionStep, StartCombat, EndCombat
  <2>2. ~ Blocked'
    BY <1>3 DEF SessionStep, StartCombat, EndCombat, MayEnd, Blocked, PendingDamage, NoDamage
  <2> QED
    BY <1>1, <2>1, <2>2, NothingOpen
<1>4. ASSUME TurnStep PROVE OpenInv'
  <2>1. ASSUME NEW expected, NEW a, NEW d, MayBegin(expected, a, d), CommitBegin(a, d)
        PROVE  OpenInv'
    BY <1>1, <2>1, CommitBeginOpenInv DEF MayBegin
  <2>2. ASSUME NEW player, NEW expected, NEW id, NEW response,
               ResolveExchange(player, expected, id, response)
        PROVE  OpenInv'
    BY <1>1, <2>2, CommitResolveOpenInv DEF ResolveExchange
  <2>3. ASSUME NEW expected, NEW a, MayPass(expected, a), CommitPass(a) PROVE OpenInv'
    BY <1>1, <2>3, CommitPassOpenInv DEF MayPass
  <2> QED
    BY <1>4, <2>1, <2>2, <2>3
       DEF TurnStep, BeginExchange, BeginNpcExchange, PassTurn, PassNpcTurn
<1>5. ASSUME DamageStep PROVE OpenInv'
  BY <1>1, <1>5, DamageStepOpenInv
<1> QED
  BY <1>2, <1>3, <1>4, <1>5 DEF Next, CombatStep

LEMMA InitOpenInv == Init => OpenInv
  BY InitTypes DEF Init, NoSession, OpenInv, OneThingOpen, PendingExchangeIsCurrent,
                   Blocked, PendingDamage, NoDamage

(* One thing is open at a time: an unanswered attack or a single unsettled *)
(* hit, never both, and nothing stays open once the combat is over.        *)
THEOREM CombatHasOneThingOpen == Spec => []OneThingOpen
<1>1. OpenInv => OneThingOpen
  BY DEF OpenInv
<1> QED
  BY <1>1, InitOpenInv, NextOpenInv, PTL DEF Spec

(* The open attack is the current actor's, in the current round, between   *)
(* two standing fighters of different sides, with the defender's response  *)
(* count as it still is.                                                   *)
THEOREM PendingAttackIsCurrent == Spec => []PendingExchangeIsCurrent
<1>1. OpenInv => PendingExchangeIsCurrent
  BY DEF OpenInv
<1> QED
  BY <1>1, InitOpenInv, NextOpenInv, PTL DEF Spec

-----------------------------------------------------------------------------
(* Settled hits *)

LEMMA StepKeepsSettled ==
  ASSUME OpenInv, [Next]_vars,
         NEW id \in DOMAIN damage, damage[id].status = "consumed"
  PROVE  \/ id \in DOMAIN damage' /\ damage'[id] = damage[id]
         \/ phase # "active"
         \/ stage' = "closed"
<1>1. ASSUME GameStep \/ HealthStep \/ UNCHANGED vars
      PROVE  UNCHANGED damage \/ stage' = "closed"
  BY <1>1, QuietStep DEF Remove
<1>2. ASSUME SessionStep PROVE UNCHANGED damage \/ phase # "active"
  BY <1>2 DEF SessionStep, StartCombat, EndCombat
<1>3. ASSUME TurnStep PROVE id \in DOMAIN damage' /\ damage'[id] = damage[id]
  <2>1. ASSUME NEW player, NEW expected, NEW exchange, NEW response,
               ResolveExchange(player, expected, exchange, response)
        PROVE  id \in DOMAIN damage' /\ damage'[id] = damage[id]
    <3>1. PICK verdict, rolls : CommitResolve(verdict, rolls)
      BY <2>1 DEF ResolveExchange
    <3>2. pending.id # id /\ ~ Blocked
      BY <2>1 DEF ResolveExchange, OpenInv, PendingExchangeIsCurrent
    <3> QED
      BY <3>1, <3>2, AnsweredOne DEF OpenInv
  <2>2. ASSUME NEW a, NEW d, CommitBegin(a, d) PROVE damage' = damage
    BY <2>2 DEF CommitBegin
  <2>3. ASSUME NEW a, CommitPass(a) PROVE damage' = damage
    BY <2>3 DEF CommitPass
  <2> QED
    BY <1>3, <2>1, <2>2, <2>3
       DEF TurnStep, BeginExchange, BeginNpcExchange, PassTurn, PassNpcTurn
<1>4. ASSUME DamageStep PROVE id \in DOMAIN damage' /\ damage'[id] = damage[id]
  <2>1. PICK expected \in 0..revision, hit \in DOMAIN damage :
          \/ ConsumeIneligible(expected, hit)
          \/ HitCharacter(expected, hit)
          \/ HitOpponent(expected, hit)
    BY <1>4 DEF DamageStep
  <2>2. PICK outcome, net, hp : Consume(hit, outcome, net, hp)
    BY <2>1, DamageStepOpens
  <2>3. IsBlocker(hit)
    BY <2>1, DamageStepOpens
  <2> QED
    BY <2>2, <2>3, SettledOne DEF OpenInv
<1> QED
  BY <1>1, <1>2, <1>3, <1>4 DEF Next, CombatStep

(* A settled hit is never settled again nor changed as long as its session *)
(* is active.                                                              *)
THEOREM SettledHitIsFinal == Spec => SettledIsFinal
<1>1. OpenInv /\ [Next]_vars =>
        [\A id \in DOMAIN damage :
           damage[id].status = "consumed" =>
             \/ id \in DOMAIN damage' /\ damage'[id] = damage[id]
             \/ phase # "active"
             \/ stage' = "closed"]_vars
  BY StepKeepsSettled
<1> QED
  BY <1>1, InitOpenInv, NextOpenInv, PTL DEF Spec, SettledIsFinal

-----------------------------------------------------------------------------
(* The session implements the protocol of its clients *)

(* Where the session is, by what is open.                                  *)
LEMMA ProtocolStepIs ==
  ASSUME TypeOK, OneThingOpen
  PROVE  /\ phase = "none" => ProtocolStep = "none"
         /\ phase = "ended" => ProtocolStep = "over"
         /\ phase = "active" /\ Blocked => ProtocolStep = "settling"
         /\ phase = "active" /\ ~ Blocked /\ pending # NoExchange => ProtocolStep = "answering"
         /\ phase = "active" /\ ~ Blocked /\ pending = NoExchange => ProtocolStep = "choosing"
  BY DEF ProtocolStep, OneThingOpen

LEMMA NextProtocolStepIs ==
  ASSUME TypeOK', OneThingOpen'
  PROVE  /\ phase' = "none" => ProtocolStep' = "none"
         /\ phase' = "ended" => ProtocolStep' = "over"
         /\ phase' = "active" /\ Blocked' => ProtocolStep' = "settling"
         /\ phase' = "active" /\ ~ Blocked' /\ pending' # NoExchange => ProtocolStep' = "answering"
         /\ phase' = "active" /\ ~ Blocked' /\ pending' = NoExchange => ProtocolStep' = "choosing"
  BY DEF ProtocolStep, OneThingOpen

LEMMA StepFollowsProtocol ==
  ASSUME OpenInv, [Next]_vars
  PROVE  Protocol!Next \/ UNCHANGED ProtocolStep
<1>1. OpenInv' /\ TypeOK /\ TypeOK' /\ OneThingOpen /\ OneThingOpen'
  BY NextOpenInv DEF OpenInv
<1>2. phase \in {"none", "active", "ended"}
  BY <1>1 DEF TypeOK, SessionTypeOK
<1> USE DEF Protocol!Next, Protocol!Start, Protocol!Attack, Protocol!Answer,
            Protocol!Settle, Protocol!Stop, Protocol!Leave
<1>3. ASSUME GameStep \/ HealthStep \/ UNCHANGED vars
      PROVE  Protocol!Next \/ UNCHANGED ProtocolStep
  <2>1. CASE Remove
    <3>1. ProtocolStep' = "none"
      BY <1>1, <2>1, NextProtocolStepIs DEF Remove
    <3> QED
      BY <3>1
  <2>2. CASE ~ Remove
    <3>1. UNCHANGED <<phase, pending, damage>>
      BY <1>3, <2>2, QuietStep
    <3> QED
      BY <3>1 DEF ProtocolStep, Blocked, PendingDamage
  <2> QED
    BY <2>1, <2>2
<1>4. ASSUME NEW player, NEW expected, NEW chars, NEW opps,
             StartCombat(player, expected, chars, opps)
      PROVE  Protocol!Next
  <2>1. ProtocolStep \in {"none", "over"}
    BY <1>1, <1>2, <1>4, ProtocolStepIs DEF StartCombat
  <2>2. ~ Blocked' /\ pending' = NoExchange /\ phase' = "active"
    BY <1>4 DEF StartCombat, Blocked, PendingDamage, NoDamage
  <2> QED
    BY <1>1, <2>1, <2>2, NextProtocolStepIs
<1>5. ASSUME NEW player, NEW expected, EndCombat(player, expected) PROVE Protocol!Next
  <2>1. ProtocolStep \in {"choosing", "answering"}
    BY <1>1, <1>5, ProtocolStepIs DEF EndCombat, MayEnd
  <2>2. ProtocolStep' = "over"
    BY <1>1, <1>5, NextProtocolStepIs DEF EndCombat
  <2> QED
    BY <2>1, <2>2
<1>6. ASSUME NEW expected, NEW a, NEW d, MayBegin(expected, a, d), CommitBegin(a, d)
      PROVE  Protocol!Next
  <2>1. ProtocolStep = "choosing"
    BY <1>1, <1>6, ProtocolStepIs DEF MayBegin
  <2>2. pending' # NoExchange /\ phase' = "active" /\ ~ Blocked'
    <3>1. pending' = [id |-> issued + 1, round |-> round, turn |-> turn, attacker |-> a,
                      defender |-> d, responsesBefore |-> responded[d], created |-> revision]
      BY <1>6 DEF CommitBegin
    <3>2. issued \in Nat /\ round \in Nat /\ turn \in Nat /\ revision \in Nat
      BY <1>1 DEF TypeOK, SessionTypeOK
    <3>3. a \in Fighters /\ d \in Fighters
      <4>1. standing \subseteq InFight /\ order \in Seq(Fighters)
        BY <1>1 DEF TypeOK, SessionTypeOK
      <4>2. InFight \subseteq Fighters
        BY <4>1 DEF InFight
      <4> QED
        BY <1>6, <4>1, <4>2 DEF MayBegin
    <3>4. responded[d] \in Nat
      BY <1>1, <3>3 DEF TypeOK, SessionTypeOK
    <3>5. pending' # NoExchange
      BY <3>1, <3>2, <3>3, <3>4, InputAssumption
    <3> QED
      BY <1>6, <3>5 DEF MayBegin, CommitBegin, Blocked, PendingDamage
  <2>3. ProtocolStep' = "answering"
    BY <1>1, <2>2, NextProtocolStepIs
  <2> QED
    BY <2>1, <2>3
<1>7. ASSUME NEW player, NEW expected, NEW id, NEW response,
             ResolveExchange(player, expected, id, response)
      PROVE  Protocol!Next
  <2>1. ProtocolStep = "answering"
    BY <1>1, <1>7, ProtocolStepIs DEF ResolveExchange
  <2>2. phase' = "active" /\ pending' = NoExchange
    BY <1>7 DEF ResolveExchange, CommitResolve
  <2>3. ProtocolStep' \in {"choosing", "settling"}
    BY <1>1, <2>2, NextProtocolStepIs
  <2> QED
    BY <2>1, <2>3
<1>8. ASSUME NEW a, CommitPass(a) PROVE UNCHANGED ProtocolStep
  BY <1>8 DEF CommitPass, ProtocolStep, Blocked, PendingDamage
<1>9. ASSUME DamageStep PROVE Protocol!Next
  <2>1. PICK expected \in 0..revision, id \in DOMAIN damage :
          \/ ConsumeIneligible(expected, id)
          \/ HitCharacter(expected, id)
          \/ HitOpponent(expected, id)
    BY <1>9 DEF DamageStep
  <2>2. /\ phase = "active" /\ phase' \in {"active", "ended"} /\ pending' = NoExchange
        /\ IsBlocker(id)
    BY <2>1, DamageStepOpens
  <2>3. Blocked /\ ~ Blocked'
    BY <1>1, <1>9, <2>2, DamageStepOpenInv DEF IsBlocker, Blocked
  <2>4. ProtocolStep = "settling"
    BY <1>1, <2>2, <2>3, ProtocolStepIs
  <2>5. ProtocolStep' \in {"choosing", "over"}
    BY <1>1, <2>2, <2>3, NextProtocolStepIs
  <2> QED
    BY <2>4, <2>5
<1> QED
  BY <1>3, <1>4, <1>5, <1>6, <1>7, <1>8, <1>9
     DEF Next, CombatStep, SessionStep, TurnStep, BeginExchange, BeginNpcExchange,
         PassTurn, PassNpcTurn

(* The session implements the protocol of its clients: an attack is        *)
(* answered, then its hit settled, before anyone else acts, and a manual   *)
(* end never drops a hit.                                                  *)
THEOREM SessionFollowsProtocol == Spec => FollowsProtocol
<1>1. Init => Protocol!Init
  BY DEF Init, NoSession, Protocol!Init, ProtocolStep
<1>2. OpenInv /\ [Next]_vars => [Protocol!Next]_ProtocolStep
  BY StepFollowsProtocol
<1> QED
  BY <1>1, <1>2, InitOpenInv, NextOpenInv, PTL DEF Spec, FollowsProtocol, Protocol!Spec

-----------------------------------------------------------------------------
(* The round: every fighter still standing acts exactly once in it.        *)

\* EveryoneActsOncePerRound, for the fighters, the counts and the turn a step
\* leaves behind.
ActedOnce(st, act, t) ==
  \A i \in 1..Len(order) : order[i] \in st => act[order[i]] = (IF i < t THEN 1 ELSE 0)

\* Nobody has two places in the order of turns.
OnePlaceEach == \A i, j \in 1..Len(order) : order[i] = order[j] => i = j

LEMMA WrapActedOnce ==
  ASSUME order \in Seq(Fighters), NEW hl, NEW st \in SUBSET InFight, NEW sch, NEW rolls
  PROVE  LET r == WrapRound(hl, st, sch, rolls)
         IN  ActedOnce(r.standing, r.acted, r.turn)
<1> DEFINE r == WrapRound(hl, st, sch, rolls)
<1>1. r.turn = NextActive(r.standing, 1) /\ r.acted = NoCounts
  BY DEF WrapRound
<1> HIDE DEF r
<1>2. ASSUME NEW i \in 1..Len(order), order[i] \in r.standing
      PROVE  r.acted[order[i]] = (IF i < r.turn THEN 1 ELSE 0)
  <2>1. r.acted[order[i]] = 0
    BY <1>1 DEF NoCounts
  <2>2. ~ (i < r.turn)
    BY <1>1, <1>2, NextActiveIsFirst
  <2> QED
    BY <2>1, <2>2
<1> QED
  BY <1>2 DEF ActedOnce, r

(* The actor's turn is counted, and those between it and the next one are  *)
(* not standing.                                                           *)
LEMMA AdvanceActedOnce ==
  ASSUME order \in Seq(Fighters), OnePlaceEach, turn \in 1..Len(order), acted \in Counts,
         NEW hl, NEW st \in SUBSET InFight, NEW sch, NEW resp, NEW rolls,
         order[turn] \in st, ActedOnce(st, acted, turn)
  PROVE  LET r == AdvanceTurn(hl, st, sch, Bump(acted, order[turn]), resp, rolls)
         IN  ActedOnce(r.standing, r.acted, r.turn)
<1> DEFINE act  == Bump(acted, order[turn])
           next == NextActive(st, turn + 1)
<1>1. CASE next <= Len(order)
  <2>1. AdvanceTurn(hl, st, sch, act, resp, rolls) =
          [health |-> hl, standing |-> st, schedule |-> sch, round |-> round,
           turn |-> next, acted |-> act, responded |-> resp]
    BY <1>1 DEF AdvanceTurn
  <2>2. /\ next \in Nat /\ turn + 1 <= next
        /\ \A i \in turn + 1..Len(order) : i < next => order[i] \notin st
    BY <1>1, NextActiveIsFirst
  <2> HIDE DEF next
  <2>3. ASSUME NEW i \in 1..Len(order), order[i] \in st
        PROVE  act[order[i]] = (IF i < next THEN 1 ELSE 0)
    <3>1. order[i] \in Fighters /\ order[turn] \in Fighters
      OBVIOUS
    <3>2. CASE i = turn
      <4>1. acted[order[turn]] = 0
        BY <3>2, <2>3 DEF ActedOnce
      <4>2. act[order[turn]] = acted[order[turn]] + 1
        BY <3>1 DEF Bump, Counts
      <4> QED
        BY <2>2, <3>2, <4>1, <4>2
    <3>3. CASE i # turn
      <4>1. order[i] # order[turn]
        BY <3>3 DEF OnePlaceEach
      <4>2. act[order[i]] = acted[order[i]]
        BY <3>1, <4>1 DEF Bump, Counts
      <4>3. acted[order[i]] = (IF i < turn THEN 1 ELSE 0)
        BY <2>3 DEF ActedOnce
      <4>4. i < next <=> i < turn
        BY <2>2, <2>3, <3>3
      <4> QED
        BY <4>2, <4>3, <4>4
    <3> QED
      BY <3>2, <3>3
  <2> HIDE DEF act
  <2> QED
    BY <2>1, <2>3 DEF ActedOnce, act
<1>2. CASE ~ (next <= Len(order))
  <2>1. AdvanceTurn(hl, st, sch, act, resp, rolls) = WrapRound(hl, st, sch, rolls)
    BY <1>2 DEF AdvanceTurn
  <2> QED
    BY <2>1, WrapActedOnce
<1> QED
  BY <1>1, <1>2

(* Repair counts nothing: the place of a fallen actor goes to the next one *)
(* that stands, and a round nobody is left in is over.                     *)
LEMMA RepairActedOnce ==
  ASSUME order \in Seq(Fighters), turn \in 1..Len(order),
         NEW hl, NEW st \in SUBSET InFight, NEW sch, NEW rolls,
         ActedOnce(st, acted, turn),
         DefeatReason(Repaired(hl, st, sch, rolls).standing) = "none"
  PROVE  LET r == Repaired(hl, st, sch, rolls)
         IN  ActedOnce(r.standing, r.acted, r.turn)
<1> DEFINE next == NextActive(st, turn)
<1>1. /\ next \in Nat /\ Len(order) \in Nat
      /\ next <= Len(order) => turn <= next
      /\ next > Len(order) => \A i \in turn..Len(order) : order[i] \notin st
      /\ \A i \in turn..Len(order) : i < next => order[i] \notin st
  BY NextActiveIsFirst
<1>2. CASE NeedsWrap(st)
  <2>1. \A i \in turn..Len(order) : order[i] \notin st
    BY <1>1, <1>2 DEF NeedsWrap
  <2>2. /\ NextActive(st, turn + 1) \in Nat
        /\ NextActive(st, turn + 1) <= Len(order) =>
             /\ turn + 1 <= NextActive(st, turn + 1)
             /\ order[NextActive(st, turn + 1)] \in st
    BY NextActiveIsFirst
  <2>3. ~ (NextActive(st, turn + 1) <= Len(order))
    BY <2>1, <2>2
  <2>4. Repaired(hl, st, sch, rolls) = WrapRound(hl, st, sch, rolls)
    BY <1>2, <2>3 DEF Repaired, AdvanceTurn
  <2> QED
    BY <2>4, WrapActedOnce
<1>3. CASE ~ NeedsWrap(st)
  <2>1. Repaired(hl, st, sch, rolls) =
          [health |-> hl, standing |-> st, schedule |-> sch, round |-> round,
           turn |-> RepairTurn(st), acted |-> acted, responded |-> responded]
    BY <1>3 DEF Repaired
  <2>2. DefeatReason(st) = "none"
    BY <2>1
  <2>3. RepairTurn(st) = next /\ next <= Len(order)
    BY <1>1, <1>3, <2>2 DEF RepairTurn, NeedsWrap
  <2> HIDE DEF next
  <2>4. ActedOnce(st, acted, next)
    BY <1>1, <2>3 DEF ActedOnce
  <2> QED
    BY <2>1, <2>3, <2>4
<1> QED
  BY <1>2, <1>3

-----------------------------------------------------------------------------
(* The invariant.  The attacker of the open exchange is the current actor, *)
(* so that its answer counts the turn of the right fighter.                *)
RoundInv ==
  /\ TurnInv /\ OpenInv
  /\ phase = "active" =>
       /\ round > 0 /\ OnePlaceEach
       /\ ActedOnce(standing, acted, turn)

LEMMA KeepRoundInv ==
  ASSUME RoundInv, TurnInv', OpenInv', UNCHANGED <<phase, round, order, turn, standing, acted>>
  PROVE  RoundInv'
  BY DEF RoundInv, OnePlaceEach, ActedOnce

LEMMA TakeTurnRoundInv ==
  ASSUME RoundInv, phase = "active", TurnInv', OpenInv', NEW after, TakeTurn(after),
         after.round > 0, ActedOnce(after.standing, after.acted, after.turn)
  PROVE  RoundInv'
  BY DEF RoundInv, OnePlaceEach, ActedOnce, TakeTurn

LEMMA AdvanceRound ==
  ASSUME round \in Nat, round > 0, NEW hl, NEW st, NEW sch, NEW act, NEW resp, NEW rolls
  PROVE  AdvanceTurn(hl, st, sch, act, resp, rolls).round \in {round, round + 1}
  BY DEF AdvanceTurn, WrapRound

LEMMA RepairRound ==
  ASSUME round \in Nat, round > 0, NEW hl, NEW st, NEW sch, NEW rolls
  PROVE  Repaired(hl, st, sch, rolls).round \in {round, round + 1}
<1>1. CASE NeedsWrap(st)
  BY <1>1, AdvanceRound DEF Repaired
<1>2. CASE ~ NeedsWrap(st)
  BY <1>2 DEF Repaired
<1> QED
  BY <1>1, <1>2

LEMMA AdvanceRoundInv ==
  ASSUME RoundInv, phase = "active", TurnInv', OpenInv', NEW resp, NEW rolls,
         TakeTurn(AdvanceTurn(health, standing, schedule, Bump(acted, order[turn]), resp, rolls))
  PROVE  RoundInv'
<1> DEFINE after == AdvanceTurn(health, standing, schedule, Bump(acted, order[turn]), resp, rolls)
<1>1. /\ order \in Seq(Fighters) /\ standing \in SUBSET InFight /\ round \in Nat
      /\ turn \in 1..Len(order) /\ order[turn] \in standing /\ acted \in Counts
  BY TypeParts DEF RoundInv, TurnInv, CurrentActorStands, AllParts, TurnState
<1>2. round > 0 /\ OnePlaceEach /\ ActedOnce(standing, acted, turn)
  BY DEF RoundInv
<1>3. ActedOnce(after.standing, after.acted, after.turn)
  BY <1>1, <1>2, AdvanceActedOnce
<1>4. after.round > 0
  BY <1>1, <1>2, AdvanceRound
<1> QED
  BY <1>3, <1>4, TakeTurnRoundInv

LEMMA RepairRoundInv ==
  ASSUME RoundInv, phase = "active", TurnInv', OpenInv',
         NEW hl, NEW st \in SUBSET standing, NEW sch, NEW rolls, Repair(hl, st, sch, rolls)
  PROVE  RoundInv'
<1> DEFINE after == Repaired(hl, st, sch, rolls)
<1>1. /\ order \in Seq(Fighters) /\ st \in SUBSET InFight /\ round \in Nat
      /\ turn \in 1..Len(order)
  BY TypeParts DEF RoundInv, TurnInv, CurrentActorStands, AllParts, TurnState
<1>2. round > 0 /\ ActedOnce(st, acted, turn)
  BY DEF RoundInv, ActedOnce
<1>3. TakeTurn(after) /\ Settled(DefeatReason(after.standing))
  BY DEF Repair
<1>4. CASE DefeatReason(after.standing) = "none"
  <2>1. ActedOnce(after.standing, after.acted, after.turn)
    BY <1>1, <1>2, <1>4, RepairActedOnce
  <2>2. after.round > 0
    BY <1>1, <1>2, RepairRound
  <2> QED
    BY <1>3, <2>1, <2>2, TakeTurnRoundInv
<1>5. CASE DefeatReason(after.standing) # "none"
  BY <1>3, <1>5 DEF Settled, RoundInv
<1> QED
  BY <1>4, <1>5

LEMMA StartCombatRoundInv ==
  ASSUME TurnInv', OpenInv', NEW player, NEW expected,
         NEW chars \in SUBSET Characters, NEW opps \in SUBSET Opponents,
         StartCombat(player, expected, chars, opps)
  PROVE  RoundInv'
<1> DEFINE fighters == chars \union opps
<1>1. /\ order' \in TurnOrders(fighters)
      /\ turn' = 1 /\ round' = 1 /\ acted' = NoCounts
  BY DEF StartCombat
<1>2. fighters \in SUBSET Fighters
  BY DEF Fighters
<1> HIDE DEF fighters
<1>3. Cardinality(fighters) \in Nat
  BY <1>2, RosterAssumption, FS_Subset, FS_CardinalityType
<1>4. /\ order' \in [1..Cardinality(fighters) -> fighters]
      /\ \A i, j \in 1..Cardinality(fighters) : i < j => order'[i] # order'[j]
  BY <1>1 DEF TurnOrders
<1>5. Len(order') = Cardinality(fighters)
  BY <1>3, <1>4
<1>6. OnePlaceEach'
  BY <1>3, <1>4, <1>5 DEF OnePlaceEach
<1>7. ActedOnce(standing, acted, turn)'
  BY <1>1, <1>2, <1>3, <1>4, <1>5 DEF ActedOnce, NoCounts
<1> QED
  BY <1>1, <1>6, <1>7 DEF RoundInv

LEMMA NextRoundInv == RoundInv /\ [Next]_vars => RoundInv'
<1> SUFFICES ASSUME RoundInv, [Next]_vars PROVE RoundInv'
  OBVIOUS
<1>1. TurnInv' /\ OpenInv'
  BY NextTurnInv, NextOpenInv DEF RoundInv
<1>2. ASSUME GameStep \/ HealthStep \/ UNCHANGED vars PROVE RoundInv'
  <2>1. phase' = "none" \/ UNCHANGED <<phase, round, order, turn, standing, acted>>
    BY <1>2 DEF GameStep, HealthStep, Initialize, Remove, ResolveCheck, ApplyDamage,
                ResolveDyingRound, ResolveFirstAid, vars, sessionVars, turnVars
  <2> QED
    BY <1>1, <2>1, KeepRoundInv DEF RoundInv
<1>3. ASSUME SessionStep PROVE RoundInv'
  <2>1. ASSUME NEW player, NEW expected, EndCombat(player, expected) PROVE RoundInv'
    BY <1>1, <2>1 DEF EndCombat, RoundInv
  <2> QED
    BY <1>1, <1>3, <2>1, StartCombatRoundInv DEF SessionStep
<1>4. ASSUME TurnStep PROVE RoundInv'
  <2>1. ASSUME NEW a, NEW d, CommitBegin(a, d) PROVE RoundInv'
    BY <1>1, <2>1, KeepRoundInv DEF CommitBegin, turnVars
  <2>2. ASSUME NEW player, NEW expected, NEW id, NEW response,
               ResolveExchange(player, expected, id, response)
        PROVE  RoundInv'
    <3>1. pending.attacker = order[turn] /\ phase = "active"
      BY <2>2 DEF ResolveExchange, RoundInv, OpenInv, PendingExchangeIsCurrent
    <3>2. \E resp, rolls :
            TakeTurn(AdvanceTurn(health, standing, schedule, Bump(acted, pending.attacker), resp, rolls))
      BY <2>2 DEF ResolveExchange, CommitResolve
    <3> QED
      BY <1>1, <3>1, <3>2, AdvanceRoundInv
  <2>3. ASSUME NEW expected, NEW a, MayPass(expected, a), CommitPass(a) PROVE RoundInv'
    <3>1. a = order[turn] /\ phase = "active"
      BY <2>3 DEF MayPass
    <3>2. \E resp, rolls :
            TakeTurn(AdvanceTurn(health, standing, schedule, Bump(acted, a), resp, rolls))
      BY <2>3 DEF CommitPass
    <3> QED
      BY <1>1, <3>1, <3>2, AdvanceRoundInv
  <2> QED
    BY <1>4, <2>1, <2>2, <2>3
       DEF TurnStep, BeginExchange, BeginNpcExchange, PassTurn, PassNpcTurn
<1>5. ASSUME DamageStep PROVE RoundInv'
  <2>1. PICK expected \in 0..revision, id \in DOMAIN damage :
          \/ ConsumeIneligible(expected, id)
          \/ HitCharacter(expected, id)
          \/ HitOpponent(expected, id)
    BY <1>5 DEF DamageStep
  <2>2. phase = "active"
    BY <2>1 DEF ConsumeIneligible, HitCharacter, HitOpponent, MayResolveDamage
  <2>3. CASE ConsumeIneligible(expected, id)
    BY <1>1, <2>3, KeepRoundInv DEF ConsumeIneligible, turnVars
  <2>4. CASE HitCharacter(expected, id)
    <3>1. PICK net, conRoll, hl, sch, rolls :
            Repair(hl, StandingAfter(id, net, conRoll), sch, rolls)
      BY <2>4 DEF HitCharacter
    <3>2. StandingAfter(id, net, conRoll) \in SUBSET standing
      BY DEF StandingAfter
    <3> QED
      BY <1>1, <2>2, <3>1, <3>2, RepairRoundInv
  <2>5. CASE HitOpponent(expected, id)
    <3>1. PICK st, rolls : st \in SUBSET standing /\ Repair(health, st, schedule, rolls)
      BY <2>5 DEF HitOpponent
    <3> QED
      BY <1>1, <2>2, <3>1, RepairRoundInv
  <2> QED
    BY <2>1, <2>3, <2>4, <2>5
<1> QED
  BY <1>2, <1>3, <1>4, <1>5 DEF Next, CombatStep

LEMMA InitRoundInv == Init => RoundInv
  BY InitTypes, InitOpenInv DEF Init, NoSession, RoundInv, TurnInv, CurrentActorStands

(* In every round each fighter still standing has acted exactly once if    *)
(* its turn is past and not at all if it is to come, whatever deaths,      *)
(* repairs and round ends happen.                                          *)
THEOREM FightersActOncePerRound == Spec => []EveryoneActsOncePerRound
<1>1. RoundInv => EveryoneActsOncePerRound
  BY DEF RoundInv, ActedOnce, EveryoneActsOncePerRound
<1> QED
  BY <1>1, InitRoundInv, NextRoundInv, PTL DEF Spec


-----------------------------------------------------------------------------
(* Health: conditions never contradict each other, and each character      *)
(* follows the life cycle, one step per commit.                            *)

AllConsistent(hl) == \A c \in Characters : ConditionsConsistent(hl[c])

-----------------------------------------------------------------------------
(* What the turn does to health: nothing, or one dying check of whoever is *)
(* due for it.                                                             *)
ChecksOnly(hl, st, sch, after) ==
  \A c \in Characters :
    \/ after[c] = hl[c]
    \/ /\ c \in st /\ CanScheduleDying(hl[c]) /\ sch[c].observed < round
       /\ \E roll \in Rolls : after[c] = AfterDyingRound(hl[c], Con[c], roll)

LEMMA WrapChecksOnly ==
  ASSUME NEW hl, NEW st, NEW sch, NEW rolls \in [Checked(hl, st, sch) -> Rolls]
  PROVE  ChecksOnly(hl, st, sch, WrapRound(hl, st, sch, rolls).health)
<1> DEFINE checked == Checked(hl, st, sch)
           after   == WrapRound(hl, st, sch, rolls).health
<1> SUFFICES ASSUME NEW c \in Characters
             PROVE  \/ after[c] = hl[c]
                    \/ /\ c \in st /\ CanScheduleDying(hl[c]) /\ sch[c].observed < round
                       /\ \E roll \in Rolls : after[c] = AfterDyingRound(hl[c], Con[c], roll)
  BY DEF ChecksOnly
<1>1. CASE c \notin checked
  BY <1>1 DEF WrapRound
<1>2. CASE c \in checked
  <2>1. after[c] = AfterDyingRound(hl[c], Con[c], rolls[c]) /\ rolls[c] \in Rolls
    BY <1>2 DEF WrapRound
  <2>2. c \in st /\ CanScheduleDying(hl[c]) /\ sch[c].observed < round
    BY <1>2 DEF Checked, DueForCheck
  <2> QED
    BY <2>1, <2>2
<1> QED
  BY <1>1, <1>2

LEMMA AdvanceChecksOnly ==
  ASSUME NEW hl, NEW st, NEW sch, NEW act, NEW resp, NEW rolls \in WrapRolls(hl, st, sch)
  PROVE  ChecksOnly(hl, st, sch, AdvanceTurn(hl, st, sch, act, resp, rolls).health)
<1>1. CASE NextActive(st, turn + 1) <= Len(order)
  <2>1. AdvanceTurn(hl, st, sch, act, resp, rolls).health = hl
    BY <1>1 DEF AdvanceTurn
  <2> QED
    BY <2>1 DEF ChecksOnly
<1>2. CASE ~ (NextActive(st, turn + 1) <= Len(order))
  <2>1. rolls \in [Checked(hl, st, sch) -> Rolls]
    BY <1>2 DEF WrapRolls
  <2>2. AdvanceTurn(hl, st, sch, act, resp, rolls) = WrapRound(hl, st, sch, rolls)
    BY <1>2 DEF AdvanceTurn
  <2> QED
    BY <2>1, <2>2, WrapChecksOnly
<1> QED
  BY <1>1, <1>2

LEMMA RepairChecksOnly ==
  ASSUME NEW hl, NEW st, NEW sch, NEW rolls \in RepairRolls(hl, st, sch)
  PROVE  ChecksOnly(hl, st, sch, Repaired(hl, st, sch, rolls).health)
<1>1. CASE NeedsWrap(st)
  <2>1. rolls \in WrapRolls(hl, st, sch)
    BY <1>1 DEF RepairRolls
  <2>2. Repaired(hl, st, sch, rolls) = AdvanceTurn(hl, st, sch, acted, responded, rolls)
    BY <1>1 DEF Repaired
  <2> QED
    BY <2>1, <2>2, AdvanceChecksOnly
<1>2. CASE ~ NeedsWrap(st)
  <2>1. Repaired(hl, st, sch, rolls).health = hl
    BY <1>2 DEF Repaired
  <2> QED
    BY <2>1 DEF ChecksOnly
<1> QED
  BY <1>1, <1>2

-----------------------------------------------------------------------------
(* How each operation may change one record.  A blow falls on the living;  *)
(* what the hit of an exchange does may be followed by a dying check of    *)
(* the same commit, but only for a character that was dying before it.     *)
Blown(c, h, after) ==
  \E key \in DamageKeys, blow \in Nat \ {0}, roll \in Rolls :
    TakesDamage(h, key) /\ after = Damaged(h, MaxHp[c], Con[c], key, blow, roll)

DyingChecked(c, h, after) ==
  /\ CanScheduleDying(h)
  /\ \E roll \in Rolls : after = AfterDyingRound(h, Con[c], roll)

TrustedChecked(c, h, after) ==
  AcceptsDyingRound(h, Con[c]) /\ \E roll \in Rolls : after = AfterDyingRound(h, Con[c], roll)

Treated(c, h, after) ==
  /\ AcceptsFirstAid(h, MaxHp[c])
  /\ \E target \in AidTargets, roll \in Rolls : after = AfterFirstAid(h, MaxHp[c], target, roll)

BlownAndChecked(c, h, after) ==
  /\ h.dying
  /\ \E between \in HealthRecord(DamageKeys) :
       Blown(c, h, between) /\ DyingChecked(c, between, after)

Begun(h, after) ==
  /\ ConditionOf(h) = "up"
  /\ \E hp \in Nat : after = NewHealth(hp)

HealthChange(c, h, after) ==
  \/ after = h
  \/ Begun(h, after)
  \/ Blown(c, h, after)
  \/ DyingChecked(c, h, after)
  \/ TrustedChecked(c, h, after)
  \/ Treated(c, h, after)
  \/ BlownAndChecked(c, h, after)

\* Before the game starts nobody has been hurt.
UpInTheLobby == stage = "lobby" => \A c \in Characters : ConditionOf(health[c]) = "up"

LEMMA NextUpInTheLobby ==
  ASSUME UpInTheLobby, [Next]_vars
  PROVE  UpInTheLobby'
<1>1. ASSUME stage = "lobby", Next PROVE stage' = "running" \/ UNCHANGED <<stage, health>>
  <2>1. ASSUME CombatStep PROVE FALSE
    <3>1. ~ SessionStep
      BY <1>1 DEF SessionStep, StartCombat, EndCombat, MayEnd
    <3>2. ~ TurnStep
      BY <1>1 DEF TurnStep, BeginExchange, BeginNpcExchange, PassTurn, PassNpcTurn, MayBegin,
                  MayPass, ResolveExchange
    <3>3. ~ DamageStep
      BY <1>1 DEF DamageStep, ConsumeIneligible, HitCharacter, HitOpponent, MayResolveDamage
    <3> QED
      BY <2>1, <3>1, <3>2, <3>3 DEF CombatStep
  <2>2. ASSUME GameStep PROVE stage' = "running" \/ UNCHANGED <<stage, health>>
    BY <1>1, <2>2 DEF GameStep, Initialize, Remove, ResolveCheck
  <2>3. ~ HealthStep
    BY <1>1 DEF HealthStep, ApplyDamage, ResolveDyingRound, ResolveFirstAid
  <2> QED
    BY <1>1, <2>1, <2>2, <2>3 DEF Next
<1>2. ASSUME stage # "lobby", Next PROVE stage' # "lobby"
  <2>1. ASSUME CombatStep PROVE stage' = stage
    <3>1. SessionStep => stage' = stage
      BY DEF SessionStep, StartCombat, EndCombat
    <3>2. TurnStep => stage' = stage
      BY DEF TurnStep, BeginExchange, BeginNpcExchange, PassTurn, PassNpcTurn,
             CommitBegin, CommitPass, ResolveExchange, CommitResolve
    <3>3. DamageStep => stage' = stage
      BY DEF DamageStep, ConsumeIneligible, HitCharacter, HitOpponent
    <3> QED
      BY <2>1, <3>1, <3>2, <3>3 DEF CombatStep
  <2>2. GameStep => stage' # "lobby"
    BY <1>2 DEF GameStep, Initialize, Remove, ResolveCheck
  <2>3. HealthStep => stage' = stage
    BY DEF HealthStep, ApplyDamage, ResolveDyingRound, ResolveFirstAid
  <2> QED
    BY <1>2, <2>1, <2>2, <2>3 DEF Next
<1> QED
  BY <1>1, <1>2 DEF UpInTheLobby, vars

-----------------------------------------------------------------------------
(* Every step changes the record of each character in one of these ways.   *)

LEMMA CheckedChanges ==
  ASSUME NEW hl, NEW st, NEW sch, NEW after, ChecksOnly(hl, st, sch, after), NEW c \in Characters
  PROVE  HealthChange(c, hl[c], after[c])
<1>1. CASE after[c] = hl[c]
  BY <1>1 DEF HealthChange
<1>2. CASE after[c] # hl[c]
  <2>1. DyingChecked(c, hl[c], after[c])
    BY <1>2 DEF ChecksOnly, DyingChecked
  <2> QED
    BY <2>1 DEF HealthChange
<1> QED
  BY <1>1, <1>2

LEMMA TurnStepChanges ==
  ASSUME TurnStep, NEW c \in Characters
  PROVE  HealthChange(c, health[c], health'[c])
<1>1. ASSUME NEW a, NEW d, CommitBegin(a, d) PROVE health' = health
  BY <1>1 DEF CommitBegin
<1>2. ASSUME NEW act, NEW resp, NEW rolls \in WrapRolls(health, standing, schedule),
             TakeTurn(AdvanceTurn(health, standing, schedule, act, resp, rolls))
      PROVE  HealthChange(c, health[c], health'[c])
  <2> DEFINE after == AdvanceTurn(health, standing, schedule, act, resp, rolls)
  <2>1. health' = after.health
    BY <1>2 DEF TakeTurn
  <2>2. ChecksOnly(health, standing, schedule, after.health)
    BY AdvanceChecksOnly
  <2> HIDE DEF after
  <2> QED
    BY <2>1, <2>2, CheckedChanges
<1>3. ASSUME NEW player, NEW expected, NEW id, NEW response,
             ResolveExchange(player, expected, id, response)
      PROVE  HealthChange(c, health[c], health'[c])
  <2>1. \E act, resp : \E rolls \in WrapRolls(health, standing, schedule) :
          TakeTurn(AdvanceTurn(health, standing, schedule, act, resp, rolls))
    BY <1>3 DEF ResolveExchange, CommitResolve
  <2> QED
    BY <1>2, <2>1
<1>4. ASSUME NEW a, CommitPass(a) PROVE HealthChange(c, health[c], health'[c])
  <2>1. \E act, resp : \E rolls \in WrapRolls(health, standing, schedule) :
          TakeTurn(AdvanceTurn(health, standing, schedule, act, resp, rolls))
    BY <1>4 DEF CommitPass
  <2> QED
    BY <1>2, <2>1
<1> QED
  BY <1>1, <1>3, <1>4
     DEF TurnStep, BeginExchange, BeginNpcExchange, PassTurn, PassNpcTurn, HealthChange

(* A hit and the end of the round it brings about: both touch the target   *)
(* only if it was dying already, because a character that starts to die is *)
(* scheduled as seen in the round at hand.                                 *)
LEMMA HitCharacterChanges ==
  ASSUME TypeOK, NEW expected, NEW id \in DOMAIN damage, HitCharacter(expected, id),
         NEW c \in Characters
  PROVE  HealthChange(c, health[c], health'[c])
<1> DEFINE target == damage[id].target
<1>1. PICK net \in NetBlows(id), conRoll \in Rolls :
        \E rolls \in RepairRolls(HealthAfter(id, net, conRoll),
                                 StandingAfter(id, net, conRoll),
                                 ScheduleAfter(id, net, conRoll)) :
          Repair(HealthAfter(id, net, conRoll), StandingAfter(id, net, conRoll),
                 ScheduleAfter(id, net, conRoll), rolls)
  BY DEF HitCharacter
<1> DEFINE hl     == HealthAfter(id, net, conRoll)
           st     == StandingAfter(id, net, conRoll)
           sch    == ScheduleAfter(id, net, conRoll)
           struck == Struck(target, id, net, conRoll)
<1>2. PICK rolls \in RepairRolls(hl, st, sch) : Repair(hl, st, sch, rolls)
  BY <1>1
<1>3. ChecksOnly(hl, st, sch, health')
  <2>1. health' = Repaired(hl, st, sch, rolls).health
    BY <1>2 DEF Repair, TakeTurn
  <2> QED
    BY <2>1, RepairChecksOnly
<1>4. /\ target \in Characters
      /\ health \in Healths /\ schedule \in Schedules /\ round \in Nat
  BY TypeParts DEF HitCharacter, AllParts, TurnState
<1>5. hl = [health EXCEPT ![target] = struck]
  BY DEF HealthAfter
<1>6. CASE c # target
  <2>1. hl[c] = health[c]
    BY <1>4, <1>5, <1>6 DEF Healths
  <2> QED
    BY <1>3, <2>1, CheckedChanges
<1>7. CASE c = target
  <2>1. hl[c] = struck
    BY <1>4, <1>5, <1>7 DEF Healths
  <2>2. CASE struck = health[c]
    BY <1>3, <2>1, <2>2, CheckedChanges
  <2>3. CASE struck # health[c]
    <3>1. Blown(c, health[c], struck)
      <4>1. net \in Nat /\ id \in Nat
        BY NetBlowTypes, TargetType
      <4>2. /\ net > 0 /\ TakesDamage(health[c], CombatKey(id))
            /\ struck = Damaged(health[c], MaxHp[c], Con[c], CombatKey(id), net, conRoll)
        BY <1>7, <2>3 DEF Struck
      <4>3. CombatKey(id) \in DamageKeys /\ net \in Nat \ {0}
        BY <4>1, <4>2 DEF CombatKey, DamageKeys
      <4> QED
        BY <4>2, <4>3 DEF Blown
    <3>2. struck \in HealthRecord(DamageKeys)
      <4>1. net \in Nat
        BY NetBlowTypes, TargetType
      <4>2. hl \in Healths
        BY <1>4, <4>1, StruckType
      <4> QED
        BY <2>1, <4>2 DEF Healths
    <3>3. CASE health'[c] = struck
      BY <3>1, <3>3 DEF HealthChange
    <3>4. CASE health'[c] # struck
      <4>1. DyingChecked(c, struck, health'[c]) /\ sch[c].observed < round
        BY <1>3, <2>1, <3>4 DEF ChecksOnly, DyingChecked
      <4>2. struck.dying /\ ~ struck.dead
        BY <4>1 DEF DyingChecked, CanScheduleDying
      <4>3. ~ health[c].dying => sch = [schedule EXCEPT ![c] = [observed |-> round, last |-> 0]]
        BY <1>7, <4>2 DEF ScheduleAfter
      <4>4. ~ health[c].dying => sch[c].observed = round
        BY <1>4, <4>3 DEF Schedules
      <4>5. health[c].dying \in BOOLEAN
        BY <1>4 DEF Healths, HealthRecord
      <4>6. health[c].dying
        <5> HIDE DEF sch
        <5> QED
          BY <1>4, <4>1, <4>4, <4>5
      <4> QED
        BY <3>1, <3>2, <4>1, <4>6 DEF HealthChange, BlownAndChecked
    <3> QED
      BY <3>3, <3>4
  <2> QED
    BY <2>2, <2>3
<1> QED
  BY <1>6, <1>7

LEMMA DamageStepChanges ==
  ASSUME TypeOK, DamageStep, NEW c \in Characters
  PROVE  HealthChange(c, health[c], health'[c])
<1>1. PICK expected \in 0..revision, id \in DOMAIN damage :
        \/ ConsumeIneligible(expected, id)
        \/ HitCharacter(expected, id)
        \/ HitOpponent(expected, id)
  BY DEF DamageStep
<1>2. CASE ConsumeIneligible(expected, id)
  BY <1>2 DEF ConsumeIneligible, HealthChange
<1>3. CASE HitCharacter(expected, id)
  BY <1>3, HitCharacterChanges
<1>4. CASE HitOpponent(expected, id)
  <2>1. PICK st : \E rolls \in RepairRolls(health, st, schedule) :
          Repair(health, st, schedule, rolls)
    BY <1>4 DEF HitOpponent
  <2>2. PICK rolls \in RepairRolls(health, st, schedule) : Repair(health, st, schedule, rolls)
    BY <2>1
  <2>3. health' = Repaired(health, st, schedule, rolls).health
    BY <2>2 DEF Repair, TakeTurn
  <2>4. ChecksOnly(health, st, schedule, health')
    BY <2>3, RepairChecksOnly
  <2> QED
    BY <2>4, CheckedChanges
<1> QED
  BY <1>1, <1>2, <1>3, <1>4

LEMMA HealthStepChanges ==
  ASSUME TypeOK, HealthStep, NEW c \in Characters
  PROVE  HealthChange(c, health[c], health'[c])
<1>1. health \in Healths
  BY TypeParts DEF AllParts, TurnState
<1>2. ASSUME NEW d \in Characters, NEW key \in EventKeys, NEW blow \in Blows,
             NEW conRoll \in Rolls, ApplyDamage(d, key, blow, conRoll)
      PROVE  HealthChange(c, health[c], health'[c])
  <2> DEFINE after == Damaged(health[d], MaxHp[d], Con[d], TrustedKey(key), blow, conRoll)
  <2>1. TrustedKey(key) \in DamageKeys /\ blow \in Nat \ {0}
    BY InputTypes DEF TrustedKey, DamageKeys
  <2>2. TakesDamage(health[d], TrustedKey(key)) /\ health' = [health EXCEPT ![d] = after]
    BY <1>2 DEF ApplyDamage
  <2>3. Blown(d, health[d], after)
    BY <2>1, <2>2 DEF Blown
  <2> HIDE DEF after
  <2> QED
    BY <1>1, <2>2, <2>3 DEF HealthChange, Healths
<1>3. ASSUME NEW d \in Characters, NEW roll \in Rolls, ResolveDyingRound(d, roll)
      PROVE  HealthChange(c, health[c], health'[c])
  <2> DEFINE after == AfterDyingRound(health[d], Con[d], roll)
  <2>1. AcceptsDyingRound(health[d], Con[d]) /\ health' = [health EXCEPT ![d] = after]
    BY <1>1, <1>3 DEF ResolveDyingRound, Healths
  <2>2. TrustedChecked(d, health[d], after)
    BY <2>1 DEF TrustedChecked
  <2> HIDE DEF after
  <2> QED
    BY <1>1, <2>1, <2>2 DEF HealthChange, Healths
<1>4. ASSUME NEW d \in Characters, NEW target \in AidTargets, NEW roll \in Rolls,
             ResolveFirstAid(d, target, roll)
      PROVE  HealthChange(c, health[c], health'[c])
  <2> DEFINE after == AfterFirstAid(health[d], MaxHp[d], target, roll)
  <2>1. AcceptsFirstAid(health[d], MaxHp[d]) /\ health' = [health EXCEPT ![d] = after]
    BY <1>1, <1>4 DEF ResolveFirstAid, Healths
  <2>2. Treated(d, health[d], after)
    BY <2>1 DEF Treated
  <2> HIDE DEF after
  <2> QED
    BY <1>1, <2>1, <2>2 DEF HealthChange, Healths
<1> QED
  BY <1>2, <1>3, <1>4 DEF HealthStep

LEMMA GameStepChanges ==
  ASSUME TypeOK, UpInTheLobby, GameStep, NEW c \in Characters
  PROVE  HealthChange(c, health[c], health'[c])
<1>1. ASSUME NEW player \in Players, NEW chosen \in SUBSET Characters, NEW hp \in StartHps,
             Initialize(player, chosen, hp)
      PROVE  HealthChange(c, health[c], health'[c])
  <2>1. health'[c] = IF c \in chosen THEN NewHealth(hp[c]) ELSE health[c]
    BY <1>1 DEF Initialize
  <2>2. hp[c] \in Nat
    BY InputAssumption, ProfileTypes
  <2>3. ConditionOf(health[c]) = "up"
    BY <1>1 DEF Initialize, UpInTheLobby
  <2> QED
    BY <2>1, <2>2, <2>3 DEF HealthChange, Begun
<1>2. Remove => health' = health
  BY DEF Remove
<1>3. ASSUME NEW player, NEW d, ResolveCheck(player, d) PROVE health' = health
  BY <1>3 DEF ResolveCheck
<1> QED
  BY <1>1, <1>2, <1>3 DEF GameStep, HealthChange

LEMMA StepChanges ==
  ASSUME TypeOK, UpInTheLobby, [Next]_vars, NEW c \in Characters
  PROVE  HealthChange(c, health[c], health'[c])
<1>1. SessionStep \/ UNCHANGED vars => health' = health
  BY DEF SessionStep, StartCombat, EndCombat, vars
<1> QED
  BY <1>1, GameStepChanges, HealthStepChanges, TurnStepChanges, DamageStepChanges
     DEF Next, CombatStep, HealthChange

-----------------------------------------------------------------------------
(* The conditions stay consistent *)

LEMMA ChangeConsistent ==
  ASSUME NEW c \in Characters, NEW h \in HealthRecord(DamageKeys), NEW after,
         HealthChange(c, h, after), ConditionsConsistent(h)
  PROVE  ConditionsConsistent(after)
<1> USE DEF HealthChange
<1>1. MaxHp[c] \in Nat \ {0} /\ Con[c] \in Nat
  BY ProfileTypes
<1>2. /\ \A roll \in Rolls : roll \in Nat
      /\ \A target \in AidTargets : target \in Nat
  BY InputTypes
<1>3. ASSUME NEW r \in HealthRecord(DamageKeys), NEW s, ConditionsConsistent(r), Blown(c, r, s)
      PROVE  ConditionsConsistent(s)
  BY <1>1, <1>2, <1>3, DamagedConsistent DEF Blown, TakesDamage
<1>4. ASSUME NEW r \in HealthRecord(DamageKeys), NEW s, ConditionsConsistent(r),
             DyingChecked(c, r, s) \/ TrustedChecked(c, r, s)
      PROVE  ConditionsConsistent(s)
  BY <1>1, <1>2, <1>4, AfterDyingRoundConsistent
     DEF DyingChecked, TrustedChecked, CanScheduleDying, AcceptsDyingRound
<1>5. CASE Begun(h, after)
  BY <1>5, NewHealthType DEF Begun
<1>6. CASE Treated(c, h, after)
  BY <1>1, <1>2, <1>6, AfterFirstAidConsistent DEF Treated, AcceptsFirstAid
<1>7. CASE BlownAndChecked(c, h, after)
  <2>1. PICK between \in HealthRecord(DamageKeys) :
          Blown(c, h, between) /\ DyingChecked(c, between, after)
    BY <1>7 DEF BlownAndChecked
  <2> QED
    BY <1>3, <1>4, <2>1
<1> QED
  BY <1>3, <1>4, <1>5, <1>6, <1>7

HealthInv == TypeOK /\ UpInTheLobby /\ HealthConsistent

LEMMA InitHealthInv == Init => HealthInv
<1> SUFFICES ASSUME Init PROVE UpInTheLobby /\ HealthConsistent
  BY InitTypes DEF HealthInv
<1>1. \A c \in Characters : health[c] = NewHealth(MaxHp[c]) /\ MaxHp[c] \in Nat
  BY ProfileTypes DEF Init
<1>2. HealthConsistent
  BY <1>1, NewHealthType DEF HealthConsistent
<1>3. \A hp : ConditionOf(NewHealth(hp)) = "up"
  BY DEF NewHealth, ConditionOf
<1>4. UpInTheLobby
  BY <1>1, <1>3 DEF UpInTheLobby
<1> QED
  BY <1>2, <1>4

LEMMA NextHealthInv == HealthInv /\ [Next]_vars => HealthInv'
<1> SUFFICES ASSUME HealthInv, [Next]_vars PROVE HealthInv'
  OBVIOUS
<1>1. TypeOK' /\ UpInTheLobby'
  BY NextTypes, NextUpInTheLobby DEF HealthInv
<1>2. ASSUME NEW c \in Characters PROVE ConditionsConsistent(health'[c])
  <2>1. health[c] \in HealthRecord(DamageKeys) /\ ConditionsConsistent(health[c])
    BY DEF HealthInv, TypeOK, HealthConsistent
  <2>2. HealthChange(c, health[c], health'[c])
    BY StepChanges DEF HealthInv
  <2> QED
    BY <2>1, <2>2, ChangeConsistent
<1> QED
  BY <1>1, <1>2 DEF HealthInv, HealthConsistent

(* The four conditions of every character never contradict each other,     *)
(* through trusted operations, hits and round ends alike.                  *)
THEOREM ConditionsConsistentInCombat == Spec => []HealthConsistent
<1>1. HealthInv => HealthConsistent
  BY DEF HealthInv
<1> QED
  BY <1>1, InitHealthInv, NextHealthInv, PTL DEF Spec

-----------------------------------------------------------------------------
(* The life cycle *)

\* One step of the life cycle, or none, between two records.
MovesOn(h, after) ==
  LET old == ConditionOf(h)
      new == ConditionOf(after)
  IN  \/ new = old
      \/ old \in {"up", "stabilized"} /\ new = "dying"
      \/ old = "dying" /\ new = "stabilized"
      \/ old = "stabilized" /\ new = "up"
      \/ old # "dead" /\ new = "dead"

LEMMA BlownMovesOn ==
  ASSUME NEW c, NEW h \in HealthRecord(DamageKeys), NEW after, Blown(c, h, after)
  PROVE  MovesOn(h, after)
<1>1. PICK key, blow, roll : TakesDamage(h, key) /\ after = Damaged(h, MaxHp[c], Con[c], key, blow, roll)
  BY DEF Blown
<1>2. CASE blow >= MaxHp[c]
  <2>1. after.dead /\ ~ h.dead
    BY <1>1, <1>2 DEF Damaged, Killed, HealthRecord, TakesDamage
  <2> QED
    BY <2>1 DEF MovesOn, ConditionOf
<1>3. CASE ~ (blow >= MaxHp[c])
  <2> DEFINE fresh == FreshDying(h, MaxHp[c], blow)
  <2>1. /\ after.dead = h.dead /\ ~ h.dead
        /\ after.dying = (h.dying \/ fresh)
        /\ after.stabilized = (h.stabilized /\ ~ fresh)
    BY <1>1, <1>3 DEF Damaged, Wounded, HealthRecord, TakesDamage
  <2>2. h.dying \in BOOLEAN /\ h.stabilized \in BOOLEAN /\ fresh \in BOOLEAN
    BY DEF HealthRecord, FreshDying
  <2> HIDE DEF fresh
  <2>3. CASE fresh /\ ~ h.dying
    BY <2>1, <2>3 DEF ConditionOf, MovesOn
  <2>4. CASE ~ fresh \/ h.dying
    BY <2>1, <2>2, <2>4 DEF ConditionOf, MovesOn
  <2> QED
    BY <2>3, <2>4
<1> QED
  BY <1>2, <1>3

\* A dying check leaves the dying as they are or kills them.
LEMMA CheckedIsDyingOrDead ==
  ASSUME NEW h \in HealthRecord(DamageKeys), h.dying, ~ h.dead, NEW con, NEW roll
  PROVE  ConditionOf(AfterDyingRound(h, con, roll)) \in {"dying", "dead"}
  BY DEF ConditionOf, AfterDyingRound, Expired, Survived, HealthRecord

LEMMA TreatedMovesOn ==
  ASSUME NEW c, NEW h \in HealthRecord(DamageKeys), NEW after, Treated(c, h, after)
  PROVE  MovesOn(h, after)
<1>1. PICK target, roll : after = AfterFirstAid(h, MaxHp[c], target, roll) /\ ~ h.dead
  BY DEF Treated, AcceptsFirstAid
<1>2. CASE roll > target
  <2>1. /\ after.dead = h.dead /\ after.dying = h.dying /\ after.stabilized = h.stabilized
    BY <1>1, <1>2 DEF AfterFirstAid, HealthRecord
  <2> QED
    BY <2>1 DEF ConditionOf, MovesOn
<1>3. CASE ~ (roll > target)
  <2>1. /\ after.dead = h.dead /\ after.dying = FALSE /\ after.stabilized = h.dying
    BY <1>1, <1>3 DEF AfterFirstAid, Revived, HealthRecord
  <2> QED
    BY <1>1, <2>1 DEF ConditionOf, MovesOn
<1> QED
  BY <1>2, <1>3

LEMMA ChangeMovesOn ==
  ASSUME NEW c, NEW h \in HealthRecord(DamageKeys), NEW after, HealthChange(c, h, after)
  PROVE  MovesOn(h, after)
<1>1. CASE after = h
  BY <1>1 DEF MovesOn
<1>2. CASE Begun(h, after)
  <2>1. ConditionOf(after) = "up"
    BY <1>2 DEF Begun, NewHealth, ConditionOf
  <2> QED
    BY <1>2, <2>1 DEF Begun, MovesOn
<1>3. CASE Blown(c, h, after)
  BY <1>3, BlownMovesOn
<1>4. CASE DyingChecked(c, h, after) \/ TrustedChecked(c, h, after)
  <2>1. /\ h.dying /\ ~ h.dead
        /\ \E roll : after = AfterDyingRound(h, Con[c], roll)
    BY <1>4 DEF DyingChecked, TrustedChecked, CanScheduleDying, AcceptsDyingRound
  <2>2. ConditionOf(h) = "dying" /\ ConditionOf(after) \in {"dying", "dead"}
    BY <2>1, CheckedIsDyingOrDead DEF ConditionOf
  <2> QED
    BY <2>2 DEF MovesOn
<1>5. CASE Treated(c, h, after)
  BY <1>5, TreatedMovesOn
<1>6. CASE BlownAndChecked(c, h, after)
  <2>1. PICK between \in HealthRecord(DamageKeys) :
          Blown(c, h, between) /\ DyingChecked(c, between, after)
    BY <1>6 DEF BlownAndChecked
  <2>2. h.dying /\ ~ h.dead
    BY <1>6, <2>1 DEF BlownAndChecked, Blown, TakesDamage
  <2>3. /\ between.dying /\ ~ between.dead
        /\ \E roll : after = AfterDyingRound(between, Con[c], roll)
    BY <2>1 DEF DyingChecked, CanScheduleDying
  <2>4. ConditionOf(h) = "dying" /\ ConditionOf(after) \in {"dying", "dead"}
    BY <2>2, <2>3, CheckedIsDyingOrDead DEF ConditionOf
  <2> QED
    BY <2>4 DEF MovesOn
<1> QED
  BY <1>1, <1>2, <1>3, <1>4, <1>5, <1>6 DEF HealthChange

LEMMA StepFollowsLifecycle ==
  ASSUME HealthInv, [Next]_vars, NEW c \in Characters
  PROVE  Life(c)!Next \/ UNCHANGED ConditionOf(health[c])
<1>1. health[c] \in HealthRecord(DamageKeys)
  BY DEF HealthInv, TypeOK
<1>2. MovesOn(health[c], health'[c])
  BY <1>1, StepChanges, ChangeMovesOn DEF HealthInv
<1> QED
  BY <1>2 DEF MovesOn, Life!Next, Life!Collapse, Life!Stabilize, Life!Recover, Life!Die

(* Every character only moves along the life cycle, one step per commit:   *)
(* a hit and the round end it may cause never both count.                  *)
THEOREM CombatFollowsLifecycle == Spec => FollowsLifecycle
<1>1. Init => \A c \in Characters : Life(c)!Init
  BY DEF Init, NewHealth, ConditionOf, Life!Init
<1>2. HealthInv /\ [Next]_vars =>
        [\A c \in Characters : Life(c)!Next \/ UNCHANGED ConditionOf(health[c])]_vars
  BY StepFollowsLifecycle
<1> QED
  BY <1>1, <1>2, InitHealthInv, NextHealthInv, PTL DEF Spec, FollowsLifecycle

-----------------------------------------------------------------------------
(* The dying are checked every round *)

\* DyingCheckedEveryRound, for the health, the fighters, the schedule and the
\* round a step leaves behind.
Scheduled(hl, st, sch, r) ==
  \A c \in Characters \intersect st :
    CanScheduleDying(hl[c]) /\ Con[c] > 0 =>
      sch[c] # NotScheduled /\ (sch[c].observed >= r - 1 \/ sch[c].last = r - 1)

(* Whatever the schedule was, whoever is dying after the end of a round    *)
(* was seen dying in it, or checked at its end.                            *)
LEMMA WrapSchedules ==
  ASSUME round \in Nat, round > 0, NEW hl, NEW st \in SUBSET InFight, NEW sch \in Schedules,
         NEW rolls
  PROVE  LET r == WrapRound(hl, st, sch, rolls)
         IN  Scheduled(r.health, r.standing, r.schedule, r.round)
<1> DEFINE r       == WrapRound(hl, st, sch, rolls)
           checked == Checked(hl, st, sch)
           fallen  == {c \in checked : r.health[c].dead}
<1>1. /\ checked = {c \in DueForCheck(hl, st, sch) : Con[c] \in Percentile}
      /\ checked \subseteq Characters
  BY DEF Checked, DueForCheck
<1>2. /\ \A c \in Characters : c \notin checked => r.health[c] = hl[c]
      /\ r.standing = st \ fallen
      /\ r.round = round + 1
      /\ r.schedule = [c \in Characters |->
                        IF c \notin InFight THEN sch[c]
                        ELSE IF c \notin st \/ ~ CanScheduleDying(hl[c]) \/ c \in fallen
                        THEN NotScheduled
                        ELSE IF sch[c] = NotScheduled
                        THEN [observed |-> round, last |-> 0]
                        ELSE IF c \in checked THEN [sch[c] EXCEPT !.last = round]
                        ELSE sch[c]]
  BY <1>1 DEF WrapRound
<1> HIDE DEF r
<1> SUFFICES ASSUME NEW c \in Characters, c \in r.standing, CanScheduleDying(r.health[c]), Con[c] > 0
             PROVE  /\ r.schedule[c] # NotScheduled
                    /\ r.schedule[c].observed >= round \/ r.schedule[c].last = round
  BY <1>2 DEF Scheduled, r
<1>3. c \in st /\ c \in InFight /\ c \notin fallen
  BY <1>2
<1>4. CanScheduleDying(hl[c])
  BY <1>1, <1>2 DEF DueForCheck
<1>5. Con[c] \in Percentile
  BY ProfileAssumption DEF Percentile
<1>6. sch[c] \in [observed : Nat, last : Nat]
  BY DEF Schedules
<1>7. c \in checked <=> /\ sch[c] # NotScheduled
                        /\ sch[c].observed < round /\ sch[c].last # round
  BY <1>1, <1>3, <1>4, <1>5 DEF DueForCheck
<1> HIDE DEF checked, fallen
<1>8. r.schedule[c] = IF sch[c] = NotScheduled THEN [observed |-> round, last |-> 0]
                      ELSE IF c \in checked THEN [sch[c] EXCEPT !.last = round]
                      ELSE sch[c]
  BY <1>2, <1>3, <1>4
<1>9. CASE sch[c] = NotScheduled
  BY <1>8, <1>9 DEF NotScheduled
<1>10. CASE c \in checked
  BY <1>6, <1>7, <1>8, <1>10 DEF NotScheduled
<1>11. CASE sch[c] # NotScheduled /\ c \notin checked
  BY <1>6, <1>7, <1>8, <1>11
<1> QED
  BY <1>9, <1>10, <1>11

LEMMA AdvanceSchedules ==
  ASSUME round \in Nat, round > 0, NEW hl, NEW st \in SUBSET InFight, NEW sch \in Schedules,
         NEW act, NEW resp, NEW rolls, Scheduled(hl, st, sch, round)
  PROVE  LET r == AdvanceTurn(hl, st, sch, act, resp, rolls)
         IN  Scheduled(r.health, r.standing, r.schedule, r.round)
<1> DEFINE next == NextActive(st, turn + 1)
<1>1. CASE next <= Len(order)
  <2>1. AdvanceTurn(hl, st, sch, act, resp, rolls) =
          [health |-> hl, standing |-> st, schedule |-> sch, round |-> round,
           turn |-> next, acted |-> act, responded |-> resp]
    BY <1>1 DEF AdvanceTurn
  <2> HIDE DEF next
  <2> QED
    BY <2>1
<1>2. CASE ~ (next <= Len(order))
  <2>1. AdvanceTurn(hl, st, sch, act, resp, rolls) = WrapRound(hl, st, sch, rolls)
    BY <1>2 DEF AdvanceTurn
  <2> QED
    BY <2>1, WrapSchedules
<1> QED
  BY <1>1, <1>2

LEMMA RepairSchedules ==
  ASSUME round \in Nat, round > 0, NEW hl, NEW st \in SUBSET InFight, NEW sch \in Schedules,
         NEW rolls, Scheduled(hl, st, sch, round)
  PROVE  LET r == Repaired(hl, st, sch, rolls)
         IN  Scheduled(r.health, r.standing, r.schedule, r.round)
<1>1. CASE NeedsWrap(st)
  <2>1. Repaired(hl, st, sch, rolls) = AdvanceTurn(hl, st, sch, acted, responded, rolls)
    BY <1>1 DEF Repaired
  <2> QED
    BY <2>1, AdvanceSchedules
<1>2. CASE ~ NeedsWrap(st)
  <2>1. Repaired(hl, st, sch, rolls) =
          [health |-> hl, standing |-> st, schedule |-> sch, round |-> round,
           turn |-> RepairTurn(st), acted |-> acted, responded |-> responded]
    BY <1>2 DEF Repaired
  <2> QED
    BY <2>1
<1> QED
  BY <1>1, <1>2

(* Whoever is dying and was dying before is still on the schedule as long  *)
(* as the records do not contradict themselves: the dying are never also   *)
(* stabilized or dead.                                                     *)
LEMMA DyingIsSchedulable ==
  ASSUME HealthInv, NEW c \in Characters, health[c].dying
  PROVE  CanScheduleDying(health[c])
<1>1. health[c] \in HealthRecord(DamageKeys) /\ ConditionsConsistent(health[c])
  BY DEF HealthInv, HealthConsistent, TypeOK
<1> QED
  BY <1>1 DEF CanScheduleDying, ConditionsConsistent, DeadIsFinalCondition,
              DyingIffMortallyWounded, StabilizedIsOffTheFloor, HealthRecord

-----------------------------------------------------------------------------
(* The invariant *)
DyingInv ==
  /\ HealthInv /\ RoundInv /\ NoGameNoCombat
  /\ phase = "active" => Scheduled(health, standing, schedule, round)

DyingBase == HealthInv /\ RoundInv /\ NoGameNoCombat

LEMMA DyingTypes ==
  ASSUME DyingInv, phase = "active"
  PROVE  /\ TypeOK /\ round \in Nat /\ round > 0
         /\ health \in Healths /\ schedule \in Schedules /\ standing \in SUBSET InFight
         /\ Scheduled(health, standing, schedule, round)
  BY TypeParts DEF DyingInv, HealthInv, RoundInv, AllParts, TurnState

\* A record changes, and who is dying now was dying before or is now scheduled.
LEMMA KeepDyingInv ==
  ASSUME DyingInv, DyingBase', UNCHANGED <<phase, round, standing>>,
         phase = "active" =>
           \A c \in Characters \intersect standing :
             CanScheduleDying(health'[c]) =>
               \/ health[c].dying /\ schedule'[c] = schedule[c]
               \/ schedule'[c] = [observed |-> round, last |-> 0]
  PROVE  DyingInv'
<1> SUFFICES ASSUME phase = "active" PROVE Scheduled(health, standing, schedule, round)'
  BY DEF DyingInv, DyingBase
<1>1. round \in Nat /\ round > 0 /\ Scheduled(health, standing, schedule, round)
  BY DyingTypes
<1>2. ASSUME NEW c \in Characters \intersect standing, CanScheduleDying(health'[c]), Con[c] > 0
      PROVE  /\ schedule'[c] # NotScheduled
             /\ schedule'[c].observed >= round - 1 \/ schedule'[c].last = round - 1
  <2>1. CASE health[c].dying /\ schedule'[c] = schedule[c]
    <3>1. CanScheduleDying(health[c])
      BY <2>1, DyingIsSchedulable DEF DyingInv
    <3> QED
      BY <1>1, <1>2, <2>1, <3>1 DEF Scheduled
  <2>2. CASE schedule'[c] = [observed |-> round, last |-> 0]
    BY <1>1, <2>2 DEF NotScheduled
  <2> QED
    BY <1>2, <2>1, <2>2
<1> QED
  BY <1>2 DEF Scheduled

LEMMA TakeTurnDyingInv ==
  ASSUME DyingBase', NEW after, TakeTurn(after),
         Scheduled(after.health, after.standing, after.schedule, after.round)
  PROVE  DyingInv'
  BY DEF DyingInv, DyingBase, TakeTurn, Scheduled

LEMMA AdvanceDyingInv ==
  ASSUME DyingInv, DyingBase', phase = "active", NEW act, NEW resp, NEW rolls,
         TakeTurn(AdvanceTurn(health, standing, schedule, act, resp, rolls))
  PROVE  DyingInv'
  BY DyingTypes, AdvanceSchedules, TakeTurnDyingInv

LEMMA RepairDyingInv ==
  ASSUME DyingInv, DyingBase', phase = "active",
         NEW hl, NEW st \in SUBSET standing, NEW sch \in Schedules, NEW rolls,
         Scheduled(hl, st, sch, round), Repair(hl, st, sch, rolls)
  PROVE  DyingInv'
<1>1. TakeTurn(Repaired(hl, st, sch, rolls))
  BY DEF Repair
<1>2. st \in SUBSET InFight /\ round \in Nat /\ round > 0
  BY DyingTypes
<1> QED
  BY <1>1, <1>2, RepairSchedules, TakeTurnDyingInv

LEMMA HealthStepDyingInv ==
  ASSUME DyingInv, DyingBase', HealthStep
  PROVE  DyingInv'
<1>1. health \in Healths /\ schedule \in Schedules
  BY TypeParts DEF DyingInv, HealthInv, AllParts, TurnState
<1>2. ASSUME NEW c \in Characters, NEW key, NEW blow, NEW conRoll,
             ApplyDamage(c, key, blow, conRoll)
      PROVE  DyingInv'
  <2> DEFINE after == Damaged(health[c], MaxHp[c], Con[c], TrustedKey(key), blow, conRoll)
  <2>1. /\ health' = [health EXCEPT ![c] = after]
        /\ schedule' = IF phase = "active" /\ ~ health[c].dying /\ after.dying /\ c \in standing
                       THEN [schedule EXCEPT ![c] = [observed |-> round, last |-> 0]]
                       ELSE schedule
        /\ UNCHANGED <<phase, round, standing>>
    BY <1>2 DEF ApplyDamage
  <2> HIDE DEF after
  <2>2. ASSUME phase = "active", NEW d \in Characters \intersect standing,
               CanScheduleDying(health'[d])
        PROVE  \/ health[d].dying /\ schedule'[d] = schedule[d]
               \/ schedule'[d] = [observed |-> round, last |-> 0]
    <3>1. health'[d].dying
      BY <2>2 DEF CanScheduleDying
    <3>2. CASE d # c
      BY <1>1, <2>1, <2>2, <3>1, <3>2 DEF Healths, Schedules
    <3>3. CASE d = c
      BY <1>1, <2>1, <2>2, <3>1, <3>3 DEF Healths, Schedules
    <3> QED
      BY <3>2, <3>3
  <2> QED
    BY <2>1, <2>2, KeepDyingInv
<1>3. ASSUME NEW c \in Characters, NEW after, health' = [health EXCEPT ![c] = after],
             after.dying => health[c].dying, UNCHANGED <<schedule, phase, round, standing>>
      PROVE  DyingInv'
  <2>1. ASSUME NEW d \in Characters, CanScheduleDying(health'[d]) PROVE health[d].dying
    BY <1>1, <1>3, <2>1 DEF CanScheduleDying, Healths
  <2> QED
    BY <1>3, <2>1, KeepDyingInv
<1>4. ASSUME NEW c \in Characters, NEW roll, ResolveDyingRound(c, roll) PROVE DyingInv'
  <2>1. health' = [health EXCEPT ![c] = AfterDyingRound(health[c], Con[c], roll)]
    BY <1>1, <1>4 DEF ResolveDyingRound, Healths
  <2>2. health[c].dying
    BY <1>4 DEF ResolveDyingRound, AcceptsDyingRound
  <2> QED
    BY <1>3, <1>4, <2>1, <2>2 DEF ResolveDyingRound, sessionVars, turnVars
<1>5. ASSUME NEW c \in Characters, NEW target, NEW roll, ResolveFirstAid(c, target, roll)
      PROVE  DyingInv'
  <2> DEFINE after == AfterFirstAid(health[c], MaxHp[c], target, roll)
  <2>1. health' = [health EXCEPT ![c] = after]
    BY <1>1, <1>5 DEF ResolveFirstAid, Healths
  <2>2. health[c] \in HealthRecord(DamageKeys)
    BY <1>1 DEF Healths
  <2>3. after.dying => health[c].dying
    BY <2>2 DEF AfterFirstAid, Revived, HealthRecord
  <2> HIDE DEF after
  <2> QED
    BY <1>3, <1>5, <2>1, <2>3 DEF ResolveFirstAid, sessionVars, turnVars
<1> QED
  BY <1>2, <1>4, <1>5 DEF HealthStep

(* The schedule of a hit: a target that starts to die is seen in the round *)
(* at hand, one that dies is out, and any other keeps its place.           *)
LEMMA HitSchedules ==
  ASSUME DyingInv, phase = "active", NEW id \in DOMAIN damage, damage[id].target \in Characters,
         NEW net \in Nat, NEW conRoll \in Rolls
  PROVE  /\ ScheduleAfter(id, net, conRoll) \in Schedules
         /\ Scheduled(HealthAfter(id, net, conRoll), StandingAfter(id, net, conRoll),
                      ScheduleAfter(id, net, conRoll), round)
<1> DEFINE c      == damage[id].target
           struck == Struck(c, id, net, conRoll)
           hl     == HealthAfter(id, net, conRoll)
           st     == StandingAfter(id, net, conRoll)
           sch    == ScheduleAfter(id, net, conRoll)
<1>1. /\ health \in Healths /\ schedule \in Schedules /\ round \in Nat /\ round > 0
      /\ Scheduled(health, standing, schedule, round)
  BY DyingTypes
<1>2. /\ hl = [health EXCEPT ![c] = struck]
      /\ st = IF struck.dead THEN standing \ {c} ELSE standing
      /\ sch = IF struck.dead THEN [schedule EXCEPT ![c] = NotScheduled]
               ELSE IF ~ health[c].dying /\ struck.dying
               THEN [schedule EXCEPT ![c] = [observed |-> round, last |-> 0]]
               ELSE schedule
  BY DEF HealthAfter, StandingAfter, ScheduleAfter
<1> HIDE DEF hl, st, sch, struck
<1>3. sch \in Schedules
  BY <1>1, <1>2 DEF Schedules, NotScheduled
<1>4. ASSUME NEW d \in Characters \intersect st, CanScheduleDying(hl[d]), Con[d] > 0
      PROVE  sch[d] # NotScheduled /\ (sch[d].observed >= round - 1 \/ sch[d].last = round - 1)
  <2>1. d \in standing
    BY <1>2
  <2>2. CASE d # c
    <3>1. hl[d] = health[d] /\ sch[d] = schedule[d]
      BY <1>1, <1>2, <2>2 DEF Healths, Schedules
    <3> QED
      BY <1>1, <1>4, <2>1, <3>1 DEF Scheduled
  <2>3. CASE d = c
    <3>1. hl[c] = struck
      BY <1>1, <1>2 DEF Healths
    <3>2. struck.dying /\ ~ struck.dead
      BY <1>4, <2>3, <3>1 DEF CanScheduleDying
    <3>3. CASE health[c].dying
      <4>1. sch = schedule
        BY <1>2, <3>2, <3>3
      <4>2. CanScheduleDying(health[c])
        BY <3>3, DyingIsSchedulable DEF DyingInv
      <4> QED
        BY <1>1, <1>4, <2>1, <2>3, <4>1, <4>2 DEF Scheduled
    <3>4. CASE ~ health[c].dying
      <4>1. sch[c] = [observed |-> round, last |-> 0]
        BY <1>1, <1>2, <3>2, <3>4 DEF Schedules
      <4> QED
        BY <1>1, <2>3, <4>1 DEF NotScheduled
    <3> QED
      BY <3>3, <3>4
  <2> QED
    BY <2>2, <2>3
<1> QED
  BY <1>3, <1>4 DEF Scheduled, hl, st, sch

LEMMA NextDyingInv == DyingInv /\ [Next]_vars => DyingInv'
<1> SUFFICES ASSUME DyingInv, [Next]_vars PROVE DyingInv'
  OBVIOUS
<1>1. DyingBase'
  BY NextHealthInv, NextRoundInv, NextNoGameNoCombat DEF DyingInv, DyingBase
<1>2. ASSUME UNCHANGED <<health, schedule, phase, round, standing>> PROVE DyingInv'
  BY <1>1, <1>2, KeepDyingInv DEF CanScheduleDying
<1>3. ASSUME phase' # "active" PROVE DyingInv'
  BY <1>1, <1>3 DEF DyingInv, DyingBase
<1>4. ASSUME GameStep \/ UNCHANGED vars PROVE DyingInv'
  <2>1. \A player, chosen, hp : Initialize(player, chosen, hp) => phase' # "active"
    BY DEF Initialize, DyingInv, NoGameNoCombat, sessionVars
  <2>2. Remove => phase' # "active"
    BY DEF Remove
  <2>3. ASSUME UNCHANGED vars \/ \E player, c : ResolveCheck(player, c) PROVE DyingInv'
    BY <1>2, <2>3 DEF ResolveCheck, vars, sessionVars, turnVars
  <2> QED
    BY <1>3, <1>4, <2>1, <2>2, <2>3 DEF GameStep
<1>5. ASSUME HealthStep PROVE DyingInv'
  BY <1>1, <1>5, HealthStepDyingInv
<1>6. ASSUME SessionStep PROVE DyingInv'
  <2>1. ASSUME NEW player, NEW expected, NEW chars \in SUBSET Characters,
               NEW opps \in SUBSET Opponents, StartCombat(player, expected, chars, opps)
        PROVE  DyingInv'
    <3>1. /\ standing' = chars \union opps /\ round' = 1 /\ UNCHANGED health
          /\ schedule' = [c \in Characters |->
                            IF c \in chars /\ health[c].dying
                            THEN [observed |-> 1, last |-> 0] ELSE NotScheduled]
      BY <2>1 DEF StartCombat
    <3>2. \A c \in Characters : c \in standing' => c \in chars
      BY <3>1, RosterAssumption
    <3>3. Scheduled(health, standing, schedule, round)'
      BY <3>1, <3>2 DEF Scheduled, CanScheduleDying, NotScheduled
    <3> QED
      BY <1>1, <3>3 DEF DyingInv, DyingBase
  <2>2. ASSUME NEW player, NEW expected, EndCombat(player, expected) PROVE DyingInv'
    BY <1>3, <2>2 DEF EndCombat
  <2> QED
    BY <1>6, <2>1, <2>2 DEF SessionStep
<1>7. ASSUME TurnStep PROVE DyingInv'
  <2>1. ASSUME NEW a, NEW d, CommitBegin(a, d) PROVE DyingInv'
    BY <1>2, <2>1 DEF CommitBegin, turnVars
  <2>2. ASSUME NEW player, NEW expected, NEW id, NEW response,
               ResolveExchange(player, expected, id, response)
        PROVE  DyingInv'
    BY <1>1, <2>2, AdvanceDyingInv DEF ResolveExchange, CommitResolve
  <2>3. ASSUME NEW expected, NEW a, MayPass(expected, a), CommitPass(a) PROVE DyingInv'
    BY <1>1, <2>3, AdvanceDyingInv DEF MayPass, CommitPass
  <2> QED
    BY <1>7, <2>1, <2>2, <2>3
       DEF TurnStep, BeginExchange, BeginNpcExchange, PassTurn, PassNpcTurn
<1>8. ASSUME DamageStep PROVE DyingInv'
  <2>1. PICK expected \in 0..revision, id \in DOMAIN damage :
          \/ ConsumeIneligible(expected, id)
          \/ HitCharacter(expected, id)
          \/ HitOpponent(expected, id)
    BY <1>8 DEF DamageStep
  <2>2. phase = "active" /\ TypeOK
    BY <2>1 DEF ConsumeIneligible, HitCharacter, HitOpponent, MayResolveDamage, DyingInv, HealthInv
  <2>3. CASE ConsumeIneligible(expected, id)
    BY <1>2, <2>3 DEF ConsumeIneligible, turnVars
  <2>4. CASE HitCharacter(expected, id)
    <3>1. PICK net, conRoll, rolls :
            /\ net \in NetBlows(id) /\ conRoll \in Rolls
            /\ Repair(HealthAfter(id, net, conRoll), StandingAfter(id, net, conRoll),
                      ScheduleAfter(id, net, conRoll), rolls)
      BY <2>4 DEF HitCharacter
    <3>2. net \in Nat /\ damage[id].target \in Characters
      BY <2>2, <2>4, <3>1, NetBlowTypes, TargetType DEF HitCharacter
    <3>3. StandingAfter(id, net, conRoll) \in SUBSET standing
      BY DEF StandingAfter
    <3> QED
      BY <1>1, <2>2, <3>1, <3>2, <3>3, HitSchedules, RepairDyingInv
  <2>5. CASE HitOpponent(expected, id)
    <3>1. PICK st, rolls : st \in SUBSET standing /\ Repair(health, st, schedule, rolls)
      BY <2>5 DEF HitOpponent
    <3>2. schedule \in Schedules /\ Scheduled(health, st, schedule, round)
      BY <2>2, <3>1, DyingTypes DEF Scheduled
    <3> QED
      BY <1>1, <2>2, <3>1, <3>2, RepairDyingInv
  <2> QED
    BY <2>1, <2>3, <2>4, <2>5
<1> QED
  BY <1>4, <1>5, <1>6, <1>7, <1>8 DEF Next, CombatStep

(* A dying fighter misses no check: whoever is dying while the combat is   *)
(* on is on the schedule, and by the time a round begins was seen dying no *)
(* earlier than the round before, or was checked at the end of it.         *)
THEOREM DyingAreCheckedEveryRound == Spec => []DyingCheckedEveryRound
<1>1. Init => DyingInv
  BY InitHealthInv, InitRoundInv DEF Init, NoSession, DyingInv, NoGameNoCombat
<1>2. DyingInv => DyingCheckedEveryRound
  BY DEF DyingInv, Scheduled, DyingCheckedEveryRound, Punctual
<1> QED
  BY <1>1, <1>2, NextDyingInv, PTL DEF Spec

-----------------------------------------------------------------------------
(* A hit reaches a character only by being settled *)

\* The record's history holds the event key of this exchange.
Charged(h, id) == \E i \in 1..Len(h.events) : h.events[i] = CombatKey(id)

LEMMA TakeLastMembers ==
  ASSUME NEW S, NEW t \in Seq(S), NEW n \in Nat, NEW i \in 1..Len(TakeLast(t, n))
  PROVE  \E j \in 1..Len(t) : TakeLast(t, n)[i] = t[j]
<1>1. CASE Len(t) <= n
  BY <1>1 DEF TakeLast
<1>2. CASE ~ (Len(t) <= n)
  <2> DEFINE m == Len(t) - n + 1
  <2>1. Len(t) \in Nat /\ m \in 1..(Len(t) + 1)
    BY <1>2
  <2>2. /\ Len(SubSeq(t, m, Len(t))) = Len(t) - m + 1
        /\ \A j \in 1..(Len(t) - m + 1) : SubSeq(t, m, Len(t))[j] = t[m + j - 1]
    BY <2>1, SubSeqProperties
  <2>3. TakeLast(t, n) = SubSeq(t, m, Len(t))
    BY <1>2 DEF TakeLast
  <2>4. i \in 1..(Len(t) - m + 1)
    BY <2>2, <2>3
  <2>5. m + i - 1 \in 1..Len(t) /\ TakeLast(t, n)[i] = t[m + i - 1]
    BY <2>1, <2>2, <2>3, <2>4, SMTT(30)
  <2> QED
    BY <2>5
<1> QED
  BY <1>1, <1>2

LEMMA DamagedCharges ==
  ASSUME NEW h \in HealthRecord(DamageKeys), NEW maxHp, NEW con, NEW key \in DamageKeys,
         NEW blow, NEW conRoll, NEW id, Charged(Damaged(h, maxHp, con, key, blow, conRoll), id)
  PROVE  Charged(h, id) \/ key = CombatKey(id)
<1> DEFINE after  == Damaged(h, maxHp, con, key, blow, conRoll)
           grown  == Append(h.events, key)
           events == TakeLast(grown, HistoryLimit)
<1>1. after.events = events
  BY DEF Damaged, Killed, Wounded, HealthRecord
<1>2. h.events \in Seq(DamageKeys) /\ HistoryLimit \in Nat
  BY LimitsAssumption DEF HealthRecord
<1> HIDE DEF after
<1>3. PICK i \in 1..Len(events) : events[i] = CombatKey(id)
  BY <1>1 DEF Charged, after
<1>4. PICK j \in 1..Len(grown) : events[i] = grown[j]
  <2>1. grown \in Seq(DamageKeys)
    BY <1>2
  <2> HIDE DEF grown
  <2> QED
    BY <1>2, <1>3, <2>1, TakeLastMembers
<1>5. grown[j] = key \/ (j \in 1..Len(h.events) /\ grown[j] = h.events[j])
  BY <1>2
<1> QED
  BY <1>3, <1>4, <1>5 DEF Charged

LEMMA ChecksChargeNothing ==
  ASSUME NEW hl \in Healths, NEW st, NEW sch, NEW after, ChecksOnly(hl, st, sch, after),
         NEW c \in Characters, NEW id
  PROVE  Charged(after[c], id) <=> Charged(hl[c], id)
<1>1. hl[c] \in HealthRecord(DamageKeys)
  BY DEF Healths
<1>2. \A roll : AfterDyingRound(hl[c], Con[c], roll).events = hl[c].events
  BY <1>1 DEF AfterDyingRound, Expired, Survived, HealthRecord
<1> QED
  BY <1>2 DEF ChecksOnly, Charged

(* No step but a hit on a character charges an exchange.                   *)
LEMMA QuietCharges ==
  ASSUME TypeOK, [Next]_vars, NEW c \in Characters, NEW id, Charged(health'[c], id),
         \A expected : \A hit \in DOMAIN damage : ~ HitCharacter(expected, hit)
  PROVE  Charged(health[c], id)
<1>1. health \in Healths
  BY TypeParts DEF AllParts, TurnState
<1>2. ASSUME NEW act, NEW resp, NEW rolls \in WrapRolls(health, standing, schedule),
             TakeTurn(AdvanceTurn(health, standing, schedule, act, resp, rolls))
      PROVE  Charged(health[c], id)
  BY <1>1, <1>2, AdvanceChecksOnly, ChecksChargeNothing DEF TakeTurn
<1>3. ASSUME GameStep PROVE Charged(health[c], id)
  <2>1. \A hp : ~ Charged(NewHealth(hp), id)
    BY DEF NewHealth, Charged
  <2>2. ASSUME NEW player, NEW chosen, NEW hp, Initialize(player, chosen, hp)
        PROVE  Charged(health[c], id)
    <3>1. health'[c] = NewHealth(hp[c]) \/ health'[c] = health[c]
      BY <2>2 DEF Initialize
    <3> QED
      BY <2>1, <3>1
  <2> QED
    BY <1>3, <2>2 DEF GameStep, Remove, ResolveCheck
<1>4. ASSUME HealthStep PROVE Charged(health[c], id)
  <2>1. ASSUME NEW d \in Characters, NEW key \in EventKeys, NEW blow, NEW conRoll,
               ApplyDamage(d, key, blow, conRoll)
        PROVE  Charged(health[c], id)
    <3> DEFINE after == Damaged(health[d], MaxHp[d], Con[d], TrustedKey(key), blow, conRoll)
    <3>1. health' = [health EXCEPT ![d] = after]
      BY <2>1 DEF ApplyDamage
    <3>2. TrustedKey(key) \in DamageKeys /\ TrustedKey(key) # CombatKey(id)
      BY DEF TrustedKey, CombatKey, DamageKeys
    <3>3. health[d] \in HealthRecord(DamageKeys)
      BY <1>1 DEF Healths
    <3>4. Charged(after, id) => Charged(health[d], id)
      BY <3>2, <3>3, DamagedCharges
    <3> HIDE DEF after
    <3> QED
      BY <1>1, <3>1, <3>4 DEF Healths
  <2>2. ASSUME NEW d \in Characters, NEW after, health' = [health EXCEPT ![d] = after],
               after.events = health[d].events
        PROVE  Charged(health[c], id)
    BY <1>1, <2>2 DEF Healths, Charged
  <2>3. ASSUME NEW d \in Characters, NEW roll, ResolveDyingRound(d, roll)
        PROVE  Charged(health[c], id)
    <3> DEFINE after == AfterDyingRound(health[d], Con[d], roll)
    <3>1. health' = [health EXCEPT ![d] = after]
      BY <1>1, <2>3 DEF ResolveDyingRound, Healths
    <3>2. after.events = health[d].events
      BY <1>1 DEF AfterDyingRound, Expired, Survived, HealthRecord, Healths
    <3> QED
      BY <2>2, <3>1, <3>2
  <2>4. ASSUME NEW d \in Characters, NEW target, NEW roll, ResolveFirstAid(d, target, roll)
        PROVE  Charged(health[c], id)
    <3> DEFINE after == AfterFirstAid(health[d], MaxHp[d], target, roll)
    <3>1. health' = [health EXCEPT ![d] = after]
      BY <1>1, <2>4 DEF ResolveFirstAid, Healths
    <3>2. after.events = health[d].events
      BY <1>1 DEF AfterFirstAid, Revived, HealthRecord, Healths
    <3> QED
      BY <2>2, <3>1, <3>2
  <2> QED
    BY <1>4, <2>1, <2>3, <2>4 DEF HealthStep
<1>5. ASSUME SessionStep \/ UNCHANGED vars PROVE Charged(health[c], id)
  BY <1>5 DEF SessionStep, StartCombat, EndCombat, vars
<1>6. ASSUME TurnStep PROVE Charged(health[c], id)
  <2>1. ASSUME NEW player, NEW expected, NEW exchange, NEW response,
               ResolveExchange(player, expected, exchange, response)
        PROVE  Charged(health[c], id)
    BY <1>2, <2>1 DEF ResolveExchange, CommitResolve
  <2>2. ASSUME NEW a, CommitPass(a) PROVE Charged(health[c], id)
    BY <1>2, <2>2 DEF CommitPass
  <2>3. ASSUME NEW a, NEW d, CommitBegin(a, d) PROVE Charged(health[c], id)
    BY <2>3 DEF CommitBegin
  <2> QED
    BY <1>6, <2>1, <2>2, <2>3
       DEF TurnStep, BeginExchange, BeginNpcExchange, PassTurn, PassNpcTurn
<1>7. ASSUME DamageStep PROVE Charged(health[c], id)
  <2>1. PICK expected \in 0..revision, hit \in DOMAIN damage :
          ConsumeIneligible(expected, hit) \/ HitOpponent(expected, hit)
    BY <1>7 DEF DamageStep
  <2>2. CASE ConsumeIneligible(expected, hit)
    BY <2>2 DEF ConsumeIneligible
  <2>3. CASE HitOpponent(expected, hit)
    <3>1. PICK st : \E rolls \in RepairRolls(health, st, schedule) :
            Repair(health, st, schedule, rolls)
      BY <2>3 DEF HitOpponent
    <3>2. PICK rolls \in RepairRolls(health, st, schedule) : Repair(health, st, schedule, rolls)
      BY <3>1
    <3>3. health' = Repaired(health, st, schedule, rolls).health
      BY <3>2 DEF Repair, TakeTurn
    <3>4. ChecksOnly(health, st, schedule, health')
      BY <3>3, RepairChecksOnly
    <3> QED
      BY <1>1, <3>4, ChecksChargeNothing
  <2> QED
    BY <2>1, <2>2, <2>3
<1> QED
  BY <1>3, <1>4, <1>5, <1>6, <1>7 DEF Next, CombatStep

(* A hit charges its own exchange, to its target, for net damage above 0.  *)
LEMMA HitCharges ==
  ASSUME TypeOK, NEW expected, NEW hit \in DOMAIN damage, HitCharacter(expected, hit),
         NEW c \in Characters, NEW id, Charged(health'[c], id)
  PROVE  \/ Charged(health[c], id)
         \/ /\ id = hit /\ c = damage[hit].target
            /\ damage'[hit].status = "consumed" /\ damage'[hit].outcome = "applied"
            /\ damage'[hit].target = c /\ damage'[hit].net > 0
<1> DEFINE target == damage[hit].target
<1>1. PICK net \in NetBlows(hit), conRoll \in Rolls :
        /\ \E hp : Consume(hit, "applied", net, hp)
        /\ \E rolls \in RepairRolls(HealthAfter(hit, net, conRoll),
                                    StandingAfter(hit, net, conRoll),
                                    ScheduleAfter(hit, net, conRoll)) :
             Repair(HealthAfter(hit, net, conRoll), StandingAfter(hit, net, conRoll),
                    ScheduleAfter(hit, net, conRoll), rolls)
  BY DEF HitCharacter
<1> DEFINE hl     == HealthAfter(hit, net, conRoll)
           st     == StandingAfter(hit, net, conRoll)
           sch    == ScheduleAfter(hit, net, conRoll)
           struck == Struck(target, hit, net, conRoll)
<1>2. PICK rolls \in RepairRolls(hl, st, sch) : Repair(hl, st, sch, rolls)
  BY <1>1
<1>3. ChecksOnly(hl, st, sch, health')
  <2>1. health' = Repaired(hl, st, sch, rolls).health
    BY <1>2 DEF Repair, TakeTurn
  <2> QED
    BY <2>1, RepairChecksOnly
<1>4. /\ net \in Nat /\ target \in Characters /\ hit \in Nat
      /\ health \in Healths /\ damage \in [DOMAIN damage -> Dispositions]
  BY NetBlowTypes, TargetType, TypeParts DEF HitCharacter, AllParts, TurnState, DamageState
<1>5. hl \in Healths
  BY <1>4, StruckType
<1>6. Charged(hl[c], id)
  BY <1>3, <1>5, ChecksChargeNothing
<1>7. hl = [health EXCEPT ![target] = struck]
  BY DEF HealthAfter
<1>8. CASE c # target
  BY <1>4, <1>6, <1>7, <1>8 DEF Healths
<1>9. CASE c = target
  <2>1. Charged(struck, id)
    BY <1>4, <1>6, <1>7, <1>9 DEF Healths
  <2>2. CASE struck = health[c]
    BY <2>1, <2>2
  <2>3. CASE struck # health[c]
    <3>1. net > 0 /\ struck = Damaged(health[c], MaxHp[c], Con[c], CombatKey(hit), net, conRoll)
      BY <1>9, <2>3 DEF Struck
    <3>2. CombatKey(hit) \in DamageKeys /\ health[c] \in HealthRecord(DamageKeys)
      BY <1>4 DEF CombatKey, DamageKeys, Healths
    <3>3. Charged(health[c], id) \/ CombatKey(hit) = CombatKey(id)
      BY <2>1, <3>1, <3>2, DamagedCharges
    <3>4. Charged(health[c], id) \/ hit = id
      BY <3>3 DEF CombatKey
    <3>5. /\ damage'[hit].status = "consumed" /\ damage'[hit].outcome = "applied"
          /\ damage'[hit].target = target /\ damage'[hit].net = net
      BY <1>1, <1>4 DEF Consume, Dispositions
    <3> QED
      BY <1>9, <3>1, <3>4, <3>5
  <2> QED
    BY <2>2, <2>3
<1> QED
  BY <1>8, <1>9

-----------------------------------------------------------------------------
(* The invariant: while the game lasts no exchange is charged that was not *)
(* begun, and neither the open one nor one whose hit is unsettled is.      *)
SettledOn(id, c) ==
  /\ damage[id].status = "consumed" /\ damage[id].outcome = "applied"
  /\ damage[id].target = c /\ damage[id].net > 0

ChargeInv ==
  /\ OpenInv
  /\ \A c \in Characters : \A id \in Nat :
       Charged(health[c], id) =>
         /\ stage # "closed" => id <= issued
         /\ pending # NoExchange => id # pending.id
         /\ id \in DOMAIN damage => SettledOn(id, c)

LEMMA ChargeParts ==
  ASSUME TypeOK
  PROVE  ChargedOnlyWhenSettled <=>
           \A c \in Characters : \A id \in DOMAIN damage :
             Charged(health[c], id) => SettledOn(id, c)
<1>1. ASSUME NEW c \in Characters, NEW i \in 1..Len(health[c].events),
             health[c].events[i][1] = "combat"
      PROVE  health[c].events[i] = CombatKey(health[c].events[i][2])
  <2>1. health[c].events \in Seq(DamageKeys)
    BY DEF TypeOK, HealthRecord
  <2>2. health[c].events[i] \in DamageKeys
    BY <2>1
  <2> QED
    BY <1>1, <2>2 DEF DamageKeys, CombatKey
<1>2. \A id : CombatKey(id)[1] = "combat" /\ CombatKey(id)[2] = id
  BY DEF CombatKey
<1>3. ASSUME ChargedOnlyWhenSettled, NEW c \in Characters, NEW id \in DOMAIN damage,
             Charged(health[c], id)
      PROVE  SettledOn(id, c)
  BY <1>2, <1>3 DEF ChargedOnlyWhenSettled, Charged, SettledOn
<1>4. ASSUME \A c \in Characters : \A id \in DOMAIN damage :
               Charged(health[c], id) => SettledOn(id, c)
      PROVE  ChargedOnlyWhenSettled
  BY <1>1, <1>4 DEF ChargedOnlyWhenSettled, Charged, SettledOn
<1> QED
  BY <1>3, <1>4

LEMMA KeepChargeInv ==
  ASSUME ChargeInv, OpenInv', UNCHANGED damage, stage' # "closed" => stage # "closed",
         issued' \in Nat, issued \in Nat, issued' >= issued, pending' \in {pending, NoExchange},
         \A c \in Characters : \A id \in Nat : Charged(health'[c], id) => Charged(health[c], id)
  PROVE  ChargeInv'
<1> SUFFICES ASSUME NEW c \in Characters, NEW id \in Nat, Charged(health'[c], id)
             PROVE  /\ stage' # "closed" => id <= issued'
                    /\ pending' # NoExchange => id # pending'.id
                    /\ id \in DOMAIN damage' => SettledOn(id, c)'
  BY DEF ChargeInv
<1>1. /\ stage # "closed" => id <= issued
      /\ pending # NoExchange => id # pending.id
      /\ id \in DOMAIN damage => SettledOn(id, c)
  BY DEF ChargeInv
<1> QED
  BY <1>1 DEF SettledOn

LEMMA ForgetChargeInv ==
  ASSUME ChargeInv, OpenInv', DOMAIN damage' = {}, pending' = NoExchange,
         stage' # "closed" => stage # "closed" /\ issued' = issued,
         \A c \in Characters : \A id \in Nat : Charged(health'[c], id) => Charged(health[c], id)
  PROVE  ChargeInv'
  BY DEF ChargeInv

LEMMA TurnStepChargeInv ==
  ASSUME ChargeInv, OpenInv', TurnStep,
         \A c \in Characters : \A id \in Nat : Charged(health'[c], id) => Charged(health[c], id)
  PROVE  ChargeInv'
<1>1. OpenInv /\ TypeOK /\ issued \in Nat
  BY DEF ChargeInv, OpenInv, TypeOK
<1>2. ASSUME NEW expected, NEW a, NEW d, MayBegin(expected, a, d), CommitBegin(a, d)
      PROVE  ChargeInv'
  <2>1. /\ pending'.id = issued + 1 /\ issued' = issued + 1
        /\ UNCHANGED <<stage, damage>> /\ stage = "running"
    BY <1>2 DEF CommitBegin, MayBegin
  <2> SUFFICES ASSUME NEW c \in Characters, NEW id \in Nat, Charged(health'[c], id)
               PROVE  /\ stage' # "closed" => id <= issued'
                      /\ pending' # NoExchange => id # pending'.id
                      /\ id \in DOMAIN damage' => SettledOn(id, c)'
    BY DEF ChargeInv
  <2>2. id <= issued /\ (id \in DOMAIN damage => SettledOn(id, c))
    BY <2>1 DEF ChargeInv
  <2> QED
    BY <1>1, <2>1, <2>2 DEF SettledOn
<1>3. ASSUME NEW player, NEW expected, NEW exchange, NEW response,
             ResolveExchange(player, expected, exchange, response)
      PROVE  ChargeInv'
  <2>1. PICK verdict, rolls : CommitResolve(verdict, rolls)
    BY <1>3 DEF ResolveExchange
  <2>2. ~ Blocked /\ pending # NoExchange
    BY <1>3 DEF ResolveExchange
  <2>3. /\ DOMAIN damage' \subseteq DOMAIN damage \union {pending.id}
        /\ \A other \in DOMAIN damage : other # pending.id => damage'[other] = damage[other]
        /\ pending' = NoExchange /\ UNCHANGED <<stage, issued>>
    <3>1. /\ DOMAIN damage' \in {DOMAIN damage, DOMAIN damage \union {pending.id}}
          /\ \A other \in DOMAIN damage : other # pending.id => damage'[other] = damage[other]
      BY <1>1, <2>1, <2>2, AnsweredOne
    <3> QED
      BY <2>1, <3>1 DEF CommitResolve
  <2> SUFFICES ASSUME NEW c \in Characters, NEW id \in Nat, Charged(health'[c], id)
               PROVE  /\ stage' # "closed" => id <= issued'
                      /\ id \in DOMAIN damage' => SettledOn(id, c)'
    BY <2>3 DEF ChargeInv
  <2>4. /\ stage # "closed" => id <= issued
        /\ id # pending.id
        /\ id \in DOMAIN damage => SettledOn(id, c)
    BY <2>2 DEF ChargeInv
  <2>5. id \in DOMAIN damage' => id \in DOMAIN damage /\ damage'[id] = damage[id]
    BY <2>3, <2>4
  <2> QED
    BY <2>3, <2>4, <2>5 DEF SettledOn
<1>4. ASSUME NEW a, CommitPass(a) PROVE ChargeInv'
  BY <1>1, <1>4, KeepChargeInv DEF CommitPass
<1> QED
  BY <1>2, <1>3, <1>4
     DEF TurnStep, BeginExchange, BeginNpcExchange, PassTurn, PassNpcTurn

(* The hit that is being settled was not charged before.                   *)
LEMMA DamageStepChargeInv ==
  ASSUME ChargeInv, OpenInv', DamageStep
  PROVE  ChargeInv'
<1>1. OpenInv /\ TypeOK /\ OneThingOpen
  BY DEF ChargeInv, OpenInv
<1>2. PICK expected \in 0..revision, hit \in DOMAIN damage :
        \/ ConsumeIneligible(expected, hit)
        \/ HitCharacter(expected, hit)
        \/ HitOpponent(expected, hit)
  BY DEF DamageStep
<1>3. /\ pending' = NoExchange /\ IsBlocker(hit)
      /\ \E outcome, net, hp : Consume(hit, outcome, net, hp)
  BY <1>1, <1>2, DamageStepOpens
<1>4. /\ DOMAIN damage' = DOMAIN damage
      /\ \A other \in DOMAIN damage : other # hit => damage'[other] = damage[other]
      /\ damage[hit].status = "pending"
  BY <1>1, <1>3, SettledOne
<1>5. hit \in Nat /\ UNCHANGED <<stage, issued>>
  BY <1>1, <1>2, TargetType DEF ConsumeIneligible, HitCharacter, HitOpponent
<1>6. ASSUME NEW c \in Characters, NEW id \in Nat, Charged(health'[c], id)
      PROVE  \/ Charged(health[c], id)
             \/ id = hit /\ SettledOn(hit, c)'
  <2>1. CASE \E e : HitCharacter(e, hit)
    BY <1>1, <1>6, <2>1, HitCharges DEF SettledOn
  <2>2. CASE ~ \E e : HitCharacter(e, hit)
    <3>1. health' = health \/ \E st : \E rolls \in RepairRolls(health, st, schedule) :
                                   Repair(health, st, schedule, rolls)
      BY <1>2, <2>2 DEF ConsumeIneligible, HitOpponent
    <3>2. health \in Healths
      BY <1>1, TypeParts DEF AllParts, TurnState
    <3>3. ASSUME NEW st, NEW rolls \in RepairRolls(health, st, schedule),
                 Repair(health, st, schedule, rolls)
          PROVE  Charged(health[c], id)
      <4>1. health' = Repaired(health, st, schedule, rolls).health
        BY <3>3 DEF Repair, TakeTurn
      <4>2. ChecksOnly(health, st, schedule, health')
        BY <4>1, RepairChecksOnly
      <4> QED
        BY <1>6, <3>2, <4>2, ChecksChargeNothing
    <3> QED
      BY <1>6, <3>1, <3>3
  <2> QED
    BY <2>1, <2>2
<1> SUFFICES ASSUME NEW c \in Characters, NEW id \in Nat, Charged(health'[c], id)
             PROVE  /\ stage' # "closed" => id <= issued'
                    /\ id \in DOMAIN damage' => SettledOn(id, c)'
  BY <1>3 DEF ChargeInv
<1>7. CASE Charged(health[c], id)
  <2>1. /\ stage # "closed" => id <= issued
        /\ id \in DOMAIN damage => SettledOn(id, c)
    BY <1>7 DEF ChargeInv
  <2>2. id # hit
    BY <1>4, <2>1 DEF SettledOn
  <2> QED
    BY <1>4, <1>5, <2>1, <2>2 DEF SettledOn
<1>8. CASE id = hit /\ SettledOn(hit, c)'
  <2>1. hit <= issued
    BY <1>1, TypeParts DEF AllParts, DamageState, GameState
  <2> QED
    BY <1>5, <1>8, <2>1
<1> QED
  BY <1>6, <1>7, <1>8

LEMMA NextChargeInv == ChargeInv /\ [Next]_vars => ChargeInv'
<1> SUFFICES ASSUME ChargeInv, [Next]_vars PROVE ChargeInv'
  OBVIOUS
<1>1. OpenInv /\ OpenInv' /\ TypeOK /\ TypeOK'
  BY NextOpenInv DEF ChargeInv, OpenInv
<1>2. issued \in Nat /\ issued' \in Nat
  BY <1>1 DEF TypeOK
<1>3. CASE DamageStep
  BY <1>1, <1>3, DamageStepChargeInv
<1>4. CASE ~ DamageStep
  <2>1. \A expected : \A hit \in DOMAIN damage : ~ HitCharacter(expected, hit)
    <3>1. ASSUME NEW expected, NEW hit \in DOMAIN damage, HitCharacter(expected, hit)
          PROVE  DamageStep
      <4>1. expected = revision /\ revision \in Nat
        BY <1>1, <3>1 DEF HitCharacter, MayResolveDamage, Current, TypeOK
      <4> QED
        BY <3>1, <4>1 DEF DamageStep
    <3> QED
      BY <1>4, <3>1
  <2>2. \A c \in Characters : \A id \in Nat : Charged(health'[c], id) => Charged(health[c], id)
    BY <1>1, <2>1, QuietCharges
  <2>3. ASSUME GameStep \/ HealthStep \/ UNCHANGED vars PROVE ChargeInv'
    <3>1. CASE Remove
      <4>1. DOMAIN damage' = {}
        BY <3>1 DEF Remove, NoDamage
      <4> QED
        BY <1>1, <2>2, <3>1, <4>1, ForgetChargeInv DEF Remove
    <3>2. CASE ~ Remove
      <4>1. UNCHANGED <<damage, issued, pending>> /\ (stage' = stage \/ stage = "lobby")
        BY <2>3, <3>2 DEF GameStep, HealthStep, Initialize, ResolveCheck, ApplyDamage,
                          ResolveDyingRound, ResolveFirstAid, vars, sessionVars
      <4> QED
        BY <1>1, <1>2, <2>2, <4>1, KeepChargeInv
    <3> QED
      BY <3>1, <3>2
  <2>4. ASSUME SessionStep PROVE ChargeInv'
    <3>1. ASSUME NEW player, NEW expected, NEW chars, NEW opps,
                 StartCombat(player, expected, chars, opps)
          PROVE  ChargeInv'
      <4>1. DOMAIN damage' = {}
        BY <3>1 DEF StartCombat, NoDamage
      <4> QED
        BY <1>1, <2>2, <3>1, <4>1, ForgetChargeInv DEF StartCombat
    <3>2. ASSUME NEW player, NEW expected, EndCombat(player, expected) PROVE ChargeInv'
      BY <1>1, <1>2, <2>2, <3>2, KeepChargeInv DEF EndCombat
    <3> QED
      BY <2>4, <3>1, <3>2 DEF SessionStep
  <2>5. ASSUME TurnStep PROVE ChargeInv'
    BY <1>1, <2>2, <2>5, TurnStepChargeInv
  <2> QED
    BY <1>4, <2>3, <2>4, <2>5 DEF Next, CombatStep
<1> QED
  BY <1>3, <1>4

(* The event key of an exchange of the session is in a character's damage  *)
(* history only if that hit was settled, on that character, and did net    *)
(* damage; whatever the trusted operations and the round ends do besides.  *)
THEOREM HitsChargeWhenSettled == Spec => []ChargedOnlyWhenSettled
<1>1. Init => ChargeInv
  <2> SUFFICES ASSUME Init PROVE ChargeInv
    OBVIOUS
  <2>1. OpenInv
    BY InitOpenInv
  <2>2. \A c \in Characters : health[c] = NewHealth(MaxHp[c])
    BY DEF Init
  <2>3. \A hp, id : ~ Charged(NewHealth(hp), id)
    BY DEF NewHealth, Charged
  <2> QED
    BY <2>1, <2>2, <2>3 DEF ChargeInv
<1>2. ChargeInv => ChargedOnlyWhenSettled
  <2> SUFFICES ASSUME ChargeInv PROVE ChargedOnlyWhenSettled
    OBVIOUS
  <2>1. TypeOK
    BY DEF ChargeInv, OpenInv
  <2>2. DOMAIN damage \subseteq Nat
    BY <2>1, TypeParts DEF AllParts, DamageState, GameState
  <2> QED
    BY <2>1, <2>2, ChargeParts DEF ChargeInv
<1> QED
  BY <1>1, <1>2, NextChargeInv, PTL DEF Spec

-----------------------------------------------------------------------------
(* Running totals.  A function sums f when it starts at 0 and each of its  *)
(* steps adds the next value; there is one such function for each f, and   *)
(* RunningTotal is its last value.                                         *)
Sums(f, n, total) ==
  /\ total \in [0..n -> Int]
  /\ total[0] = 0
  /\ \A i \in 1..n : total[i] = total[i - 1] + f[i]

LEMMA SumsExist ==
  ASSUME NEW n \in Nat, NEW f \in [1..n -> Int]
  PROVE  \E total : Sums(f, n, total)
<1> DEFINE unsummed == {m \in 0..n : ~ \E total : Sums(f, m, total)}
<1>1. CASE unsummed = {}
  <2>1. n \in 0..n
    OBVIOUS
  <2> QED
    BY <1>1, <2>1
<1>2. CASE unsummed # {}
  <2>1. unsummed \in SUBSET Nat
    OBVIOUS
  <2>2. PICK m \in unsummed : \A k \in unsummed : m <= k
    BY <1>2, <2>1, Minimum
  <2>3. m \in 0..n /\ ~ \E total : Sums(f, m, total)
    BY <2>2
  <2>4. m # 0
    <3>1. Sums(f, 0, [i \in 0..0 |-> 0])
      BY DEF Sums
    <3> QED
      BY <2>3, <3>1
  <2>5. m - 1 \in 0..n /\ m - 1 \notin unsummed
    BY <2>2, <2>3, <2>4
  <2>6. PICK total : Sums(f, m - 1, total)
    BY <2>5
  <2> DEFINE longer == [i \in 0..m |-> IF i = m THEN total[m - 1] + f[m] ELSE total[i]]
  <2>7. m \in 1..n /\ f[m] \in Int
    BY <2>3, <2>4
  <2>8. total \in [0..m - 1 -> Int] /\ total[0] = 0
        /\ \A i \in 1..m - 1 : total[i] = total[i - 1] + f[i]
    BY <2>6 DEF Sums
  <2>9. Sums(f, m, longer)
    <3>1. total[m - 1] \in Int
      BY <2>7, <2>8
    <3>2. longer \in [0..m -> Int]
      BY <2>7, <2>8, <3>1
    <3>3. longer[0] = 0
      BY <2>7, <2>8
    <3>4. ASSUME NEW i \in 1..m PROVE longer[i] = longer[i - 1] + f[i]
      <4>1. CASE i = m
        BY <2>7, <4>1
      <4>2. CASE i # m
        <5>1. i \in 1..m - 1 /\ i \in 0..m /\ i - 1 \in 0..m /\ i - 1 # m
          BY <2>7, <4>2
        <5> QED
          BY <2>8, <4>2, <5>1
      <4> QED
        BY <4>1, <4>2
    <3> HIDE DEF longer
    <3> QED
      BY <3>2, <3>3, <3>4 DEF Sums
  <2> QED
    BY <2>3, <2>9
<1> QED
  BY <1>1, <1>2

LEMMA RunningTotalIs ==
  ASSUME NEW n \in Nat, NEW f \in [1..n -> Int], NEW total, Sums(f, n, total)
  PROVE  RunningTotal(f, n) = total[n]
<1> DEFINE Recurs(g) == g = [i \in 0..n |-> IF i = 0 THEN 0 ELSE g[i - 1] + f[i]]
           chosen    == CHOOSE g : Recurs(g)
<1>1. RunningTotal(f, n) = chosen[n]
  BY DEF RunningTotal
<1>2. Recurs(total)
  <2>1. total \in [0..n -> Int] /\ total[0] = 0
        /\ \A i \in 1..n : total[i] = total[i - 1] + f[i]
    BY DEF Sums
  <2> QED
    BY <2>1
<1>3. Recurs(chosen)
  BY <1>2
<1> HIDE DEF chosen
<1>4. /\ DOMAIN chosen = 0..n /\ chosen[0] = 0
      /\ \A i \in 1..n : chosen[i] = chosen[i - 1] + f[i]
  BY <1>3
<1> DEFINE apart == {i \in 0..n : total[i] # chosen[i]}
<1>5. ASSUME apart # {} PROVE FALSE
  <2>1. apart \in SUBSET Nat
    OBVIOUS
  <2>2. PICK i \in apart : \A j \in apart : i <= j
    BY <1>5, <2>1, Minimum
  <2>3. i \in 0..n /\ total[i] # chosen[i]
    BY <2>2
  <2>4. i # 0
    BY <1>4, <2>3 DEF Sums
  <2>5. i - 1 \in 0..n /\ i - 1 \notin apart /\ i \in 1..n
    BY <2>2, <2>3, <2>4
  <2>6. total[i - 1] = chosen[i - 1]
    BY <2>5
  <2> QED
    BY <1>4, <2>3, <2>5, <2>6 DEF Sums
<1>6. n \in 0..n
  OBVIOUS
<1> QED
  BY <1>1, <1>5, <1>6

(* Changing one value changes the total by as much.                        *)
LEMMA TotalAfterChange ==
  ASSUME NEW n \in Nat, NEW f \in [1..n -> Int], NEW g \in [1..n -> Int], NEW k \in 1..n,
         \A i \in 1..n : i # k => g[i] = f[i]
  PROVE  RunningTotal(g, n) = RunningTotal(f, n) + g[k] - f[k]
<1>1. PICK total : Sums(f, n, total)
  BY SumsExist
<1>2. total \in [0..n -> Int] /\ total[0] = 0
      /\ \A i \in 1..n : total[i] = total[i - 1] + f[i]
  BY <1>1 DEF Sums
<1> DEFINE other == [i \in 0..n |-> IF i < k THEN total[i] ELSE total[i] + g[k] - f[k]]
<1>3. other \in [0..n -> Int] /\ other[0] = 0
  BY <1>2, SMTT(30)
<1>4. ASSUME NEW i \in 1..n PROVE other[i] = other[i - 1] + g[i]
  <2>1. /\ total[i] = total[i - 1] + f[i] /\ total[i - 1] \in Int
        /\ i - 1 \in 0..n /\ f[k] \in Int /\ g[k] \in Int
    BY <1>2
  <2>2. CASE i < k
    BY <2>1, <2>2
  <2>3. CASE i = k
    BY <2>1, <2>3
  <2>4. CASE i > k
    BY <2>1, <2>4
  <2> QED
    BY <2>2, <2>3, <2>4
<1>5. Sums(g, n, other)
  <2> HIDE DEF other
  <2> QED
    BY <1>3, <1>4 DEF Sums
<1>6. RunningTotal(f, n) = total[n] /\ RunningTotal(g, n) = other[n]
  BY <1>1, <1>5, RunningTotalIs
<1> QED
  BY <1>6

(* A value of 0 at the end adds nothing.                                   *)
LEMMA TotalOfLonger ==
  ASSUME NEW n \in Nat, NEW f \in [1..n -> Int], NEW g \in [1..n + 1 -> Int],
         \A i \in 1..n : g[i] = f[i], g[n + 1] = 0
  PROVE  RunningTotal(g, n + 1) = RunningTotal(f, n)
<1>1. PICK total : Sums(f, n, total)
  BY SumsExist
<1>2. total \in [0..n -> Int] /\ total[0] = 0
      /\ \A i \in 1..n : total[i] = total[i - 1] + f[i]
  BY <1>1 DEF Sums
<1> DEFINE longer == [i \in 0..n + 1 |-> IF i <= n THEN total[i] ELSE total[n]]
<1>3. longer \in [0..n + 1 -> Int] /\ longer[0] = 0
  BY <1>2
<1>4. ASSUME NEW i \in 1..n + 1 PROVE longer[i] = longer[i - 1] + g[i]
  <2>1. CASE i = n + 1
    BY <1>2, <2>1
  <2>2. CASE i # n + 1
    BY <1>2, <2>2
  <2> QED
    BY <2>1, <2>2
<1>5. Sums(g, n + 1, longer)
  <2> HIDE DEF longer
  <2> QED
    BY <1>3, <1>4 DEF Sums
<1>6. RunningTotal(f, n) = total[n] /\ RunningTotal(g, n + 1) = longer[n + 1]
  BY <1>1, <1>5, RunningTotalIs
<1> QED
  BY <1>2, <1>6

LEMMA TotalOfNothing ==
  ASSUME NEW n \in Nat, NEW f \in [1..n -> Int], \A i \in 1..n : f[i] = 0
  PROVE  RunningTotal(f, n) = 0
<1>1. Sums(f, n, [i \in 0..n |-> 0])
  BY DEF Sums
<1>2. RunningTotal(f, n) = [i \in 0..n |-> 0][n]
  BY <1>1, RunningTotalIs
<1> QED
  BY <1>2

LEMMA TotalType ==
  ASSUME NEW n \in Nat, NEW f \in [1..n -> Int]
  PROVE  RunningTotal(f, n) \in Int
<1>1. PICK total : Sums(f, n, total)
  BY SumsExist
<1>2. RunningTotal(f, n) = total[n]
  BY <1>1, RunningTotalIs
<1> QED
  BY <1>1, <1>2 DEF Sums
-----------------------------------------------------------------------------
(* The opponents' hit points *)

LedgerInv == OpenInv /\ OpponentLedger

LEMMA LossTypes ==
  ASSUME TypeOK, NEW o
  PROVE  /\ issued \in Nat
         /\ \A id \in 1..issued : LossBy(id, o) \in Int
         /\ [id \in 1..issued |-> LossBy(id, o)] \in [1..issued -> Int]
<1>1. issued \in Nat /\ damage \in [DOMAIN damage -> Dispositions]
  BY DEF TypeOK, SessionTypeOK
<1>2. ASSUME NEW id PROVE LossBy(id, o) \in Int
  BY <1>1 DEF LossBy, Dispositions
<1> QED
  BY <1>1, <1>2

LEMMA NextLossTypes ==
  ASSUME TypeOK', NEW o
  PROVE  /\ issued' \in Nat
         /\ \A id \in 1..issued' : LossBy(id, o)' \in Int
         /\ [id \in 1..issued' |-> LossBy(id, o)'] \in [1..issued' -> Int]
<1>1. issued' \in Nat /\ damage' \in [DOMAIN damage' -> Dispositions]
  BY DEF TypeOK, SessionTypeOK
<1>2. ASSUME NEW id PROVE LossBy(id, o)' \in Int
  BY <1>1 DEF LossBy, Dispositions
<1> QED
  BY <1>1, <1>2

(* What an opponent has lost stays the same while no hit on it is settled, *)
(* also when a new exchange is given its id.                               *)
LEMMA SameLoss ==
  ASSUME TypeOK, TypeOK', NEW o, issued' \in {issued, issued + 1},
         \A id \in 1..issued : LossBy(id, o)' = LossBy(id, o),
         \A id \in (1..issued') \ (1..issued) : LossBy(id, o)' = 0
  PROVE  LossOf(o)' = LossOf(o)
<1> DEFINE f == [id \in 1..issued |-> LossBy(id, o)]
           g == [id \in 1..issued' |-> LossBy(id, o)']
<1>1. LossOf(o) = RunningTotal(f, issued) /\ LossOf(o)' = RunningTotal(g, issued')
  BY DEF LossOf
<1>2. issued \in Nat /\ f \in [1..issued -> Int] /\ g \in [1..issued' -> Int]
  BY LossTypes, NextLossTypes
<1>3. CASE issued' = issued
  <2>1. f = g
    BY <1>3
  <2> QED
    BY <1>1, <1>3, <2>1
<1>4. CASE issued' = issued + 1
  <2>1. /\ issued + 1 \in (1..issued') \ (1..issued)
        /\ \A id \in 1..issued : id \in 1..issued'
    BY <1>2, <1>4
  <2>2. g[issued + 1] = 0 /\ \A id \in 1..issued : g[id] = f[id]
    BY <2>1
  <2> HIDE DEF f, g
  <2>3. RunningTotal(g, issued + 1) = RunningTotal(f, issued)
    BY <1>2, <1>4, <2>2, TotalOfLonger
  <2> QED
    BY <1>1, <1>4, <2>3
<1> QED
  BY <1>3, <1>4

(* Settling one hit adds what the hit took.                                *)
LEMMA OneMoreLoss ==
  ASSUME TypeOK, TypeOK', NEW o, issued' = issued, NEW hit \in 1..issued,
         \A id \in 1..issued : id # hit => LossBy(id, o)' = LossBy(id, o),
         LossBy(hit, o) = 0
  PROVE  LossOf(o)' = LossOf(o) + LossBy(hit, o)'
<1> DEFINE f == [id \in 1..issued |-> LossBy(id, o)]
           g == [id \in 1..issued' |-> LossBy(id, o)']
<1>1. LossOf(o) = RunningTotal(f, issued) /\ LossOf(o)' = RunningTotal(g, issued')
  BY DEF LossOf
<1>2. issued \in Nat /\ f \in [1..issued -> Int] /\ g \in [1..issued -> Int]
  BY LossTypes, NextLossTypes
<1>3. /\ \A id \in 1..issued : id # hit => g[id] = f[id]
      /\ f[hit] = 0 /\ g[hit] = LossBy(hit, o)'
  OBVIOUS
<1> HIDE DEF f, g
<1>4. RunningTotal(g, issued) = RunningTotal(f, issued) + g[hit] - f[hit]
  BY <1>2, <1>3, TotalAfterChange
<1>5. RunningTotal(f, issued) \in Int /\ g[hit] \in Int
  BY <1>2, TotalType
<1> QED
  BY <1>1, <1>3, <1>4, <1>5
LEMMA KeepLedgerInv ==
  ASSUME LedgerInv, OpenInv', UNCHANGED <<phase, order, vitality, damage>>,
         issued' \in {issued, issued + 1}
  PROVE  LedgerInv'
<1>1. TypeOK /\ TypeOK' /\ issued \in Nat /\ DOMAIN damage \subseteq 1..issued
  BY DEF LedgerInv, OpenInv, TypeOK, SessionTypeOK
<1>2. \A id \in (1..issued') \ (1..issued) : id \notin DOMAIN damage
  BY <1>1
<1>3. ASSUME NEW o PROVE LossOf(o)' = LossOf(o)
  <2>1. \A id : LossBy(id, o)' = LossBy(id, o)
    BY DEF LossBy
  <2>2. \A id \in (1..issued') \ (1..issued) : LossBy(id, o)' = 0
    BY <1>2, <2>1 DEF LossBy
  <2> QED
    BY <1>1, <2>1, <2>2, SameLoss
<1> QED
  BY <1>3 DEF LedgerInv, OpponentLedger, InFight

(* An answer leaves at most a new hit pending, which has taken nothing.    *)
LEMMA CommitResolveLedgerInv ==
  ASSUME LedgerInv, OpenInv', pending # NoExchange, NEW verdict, NEW rolls,
         CommitResolve(verdict, rolls)
  PROVE  LedgerInv'
<1>1. /\ TypeOK /\ TypeOK' /\ pending.id \notin DOMAIN damage
      /\ damage \in [DOMAIN damage -> Dispositions]
  BY DEF LedgerInv, OpenInv, PendingExchangeIsCurrent, TypeOK, SessionTypeOK
<1>2. UNCHANGED <<phase, vitality, issued, order>>
  BY DEF CommitResolve, TakeTurn
<1>3. ASSUME NEW o, NEW id PROVE LossBy(id, o)' = LossBy(id, o)
  <2>1. CASE verdict.mode = "none"
    BY <2>1 DEF CommitResolve, LossBy
  <2>2. CASE verdict.mode # "none"
    <3>1. damage' = [i \in DOMAIN damage \union {pending.id} |->
                       IF i = pending.id THEN NewDisposition(verdict) ELSE damage[i]]
      BY <2>2 DEF CommitResolve
    <3>2. NewDisposition(verdict).status = "pending"
      BY DEF NewDisposition
    <3> QED
      BY <1>1, <3>1, <3>2 DEF LossBy
  <2> QED
    BY <2>1, <2>2
<1>4. \A o : LossOf(o)' = LossOf(o)
  BY <1>1, <1>2, <1>3, SameLoss
<1> QED
  BY <1>2, <1>4 DEF LedgerInv, OpponentLedger, InFight

(* A hit that is settled has taken what its disposition records, and       *)
(* nothing before.                                                         *)
LEMMA SettledLoss ==
  ASSUME LedgerInv, OpenInv', NEW hit \in DOMAIN damage, IsBlocker(hit), issued' = issued,
         NEW outcome, NEW net, NEW hp, Consume(hit, outcome, net, hp), NEW o
  PROVE  LossOf(o)' = LossOf(o) +
           (IF damage[hit].target = o THEN TargetHp(damage[hit].target) - hp ELSE 0)
<1>1. /\ TypeOK /\ TypeOK' /\ hit \in 1..issued
      /\ damage \in [DOMAIN damage -> Dispositions]
  BY DEF LedgerInv, OpenInv, TypeOK, SessionTypeOK
<1>2. /\ DOMAIN damage' = DOMAIN damage
      /\ \A id \in DOMAIN damage : id # hit => damage'[id] = damage[id]
      /\ damage[hit].status = "pending"
  BY <1>1, SettledOne DEF LedgerInv, OpenInv
<1>3. /\ damage'[hit].status = "consumed" /\ damage'[hit].target = damage[hit].target
      /\ damage'[hit].hpBefore = TargetHp(damage[hit].target) /\ damage'[hit].hpAfter = hp
  BY <1>1 DEF Consume, Dispositions
<1>4. \A id : id # hit => LossBy(id, o)' = LossBy(id, o)
  BY <1>2 DEF LossBy
<1>5. LossBy(hit, o) = 0
  BY <1>2 DEF LossBy
<1>6. LossBy(hit, o)' =
        IF damage[hit].target = o THEN TargetHp(damage[hit].target) - hp ELSE 0
  BY <1>2, <1>3 DEF LossBy
<1> QED
  BY <1>1, <1>4, <1>5, <1>6, OneMoreLoss

LEMMA LossType ==
  ASSUME TypeOK, NEW o
  PROVE  LossOf(o) \in Int
<1> DEFINE f == [id \in 1..issued |-> LossBy(id, o)]
<1>1. issued \in Nat /\ f \in [1..issued -> Int]
  BY LossTypes
<1> HIDE DEF f
<1>2. RunningTotal(f, issued) \in Int
  BY <1>1, TotalType
<1> QED
  BY <1>2 DEF LossOf, f

LEMMA DamageStepLedgerInv ==
  ASSUME LedgerInv, OpenInv', DamageStep
  PROVE  LedgerInv'
<1>1. TypeOK /\ vitality \in [Opponents -> Nat] /\ issued \in Nat
  BY DEF LedgerInv, OpenInv, TypeOK, SessionTypeOK
<1>2. PICK expected \in 0..revision, id \in DOMAIN damage :
        \/ ConsumeIneligible(expected, id)
        \/ HitCharacter(expected, id)
        \/ HitOpponent(expected, id)
  BY DEF DamageStep
<1> DEFINE target == damage[id].target
<1>3. IsBlocker(id) /\ phase = "active"
  BY <1>2, DamageStepOpens DEF LedgerInv
<1>4. TargetHp(target) \in Nat
  BY <1>1, TargetType
<1>5. \A o \in Opponents \intersect InFight : vitality[o] = OpponentHp[o] - LossOf(o)
  BY <1>3 DEF LedgerInv, OpponentLedger
<1>6. \A o \in Opponents : LossOf(o) \in Int /\ vitality[o] \in Nat /\ OpponentHp[o] \in Nat
  BY <1>1, LossType, ProfileTypes
<1>7. CASE ConsumeIneligible(expected, id)
  <2>1. Consume(id, "ineligible", 0, TargetHp(target)) /\ UNCHANGED <<order, vitality, issued>>
    BY <1>7 DEF ConsumeIneligible, turnVars
  <2>2. ASSUME NEW o \in Opponents PROVE LossOf(o)' = LossOf(o)
    <3>1. LossOf(o)' = LossOf(o) + (IF target = o THEN TargetHp(target) - TargetHp(target) ELSE 0)
      BY <1>3, <1>4, <2>1, SettledLoss
    <3> QED
      BY <1>4, <1>6, <3>1
  <2> QED
    BY <1>5, <2>1, <2>2 DEF LedgerInv, OpponentLedger, InFight
<1>8. CASE HitCharacter(expected, id)
  <2>1. PICK outcome, net, hp : Consume(id, outcome, net, hp)
    BY <1>2, DamageStepOpens DEF LedgerInv
  <2>2. target \in Characters /\ UNCHANGED <<order, vitality, issued>>
    BY <1>8 DEF HitCharacter, Repair, TakeTurn
  <2>3. ASSUME NEW o \in Opponents PROVE LossOf(o)' = LossOf(o)
    <3>1. target # o
      BY <2>2, RosterAssumption
    <3>2. LossOf(o)' = LossOf(o) + 0
      BY <1>3, <2>1, <2>2, <3>1, SettledLoss
    <3> QED
      BY <1>6, <3>2
  <2> QED
    BY <1>5, <2>2, <2>3 DEF LedgerInv, OpponentLedger, InFight
<1>9. CASE HitOpponent(expected, id)
  <2> DEFINE left(net) == AtLeastZero(vitality[target] - net)
  <2>1. PICK net \in NetBlows(id) :
          /\ Consume(id, "applied", net, left(net))
          /\ vitality' = [vitality EXCEPT ![target] = left(net)]
    BY <1>9 DEF HitOpponent
  <2> DEFINE hp == left(net)
  <2>2. target \in Opponents /\ UNCHANGED <<order, issued>>
    BY <1>9 DEF HitOpponent, Repair, TakeTurn
  <2>3. hp \in Nat
    <3>1. net \in Nat
      BY <1>1, NetBlowTypes, TargetType
    <3> QED
      BY <1>6, <2>2, <3>1 DEF AtLeastZero
  <2>4. Consume(id, "applied", net, hp) /\ vitality' = [vitality EXCEPT ![target] = hp]
    BY <2>1
  <2>5. TargetHp(target) = vitality[target]
    BY <2>2, RosterAssumption DEF TargetHp
  <2> HIDE DEF hp, target
  <2>6. ASSUME NEW o \in Opponents, o \in InFight
        PROVE  vitality'[o] = OpponentHp[o] - LossOf(o)'
    <3>1. LossOf(o)' = LossOf(o) + (IF target = o THEN vitality[target] - hp ELSE 0)
      BY <1>3, <2>2, <2>3, <2>4, <2>5, SettledLoss DEF target
    <3>2. vitality[o] = OpponentHp[o] - LossOf(o)
      BY <1>5, <2>6
    <3>3. CASE o = target
      <4>1. vitality'[o] = hp /\ LossOf(o)' = LossOf(o) + (vitality[o] - hp)
        BY <1>1, <2>4, <3>1, <3>3
      <4> QED
        BY <1>6, <2>3, <3>2, <4>1
    <3>4. CASE o # target
      <4>1. vitality'[o] = vitality[o] /\ LossOf(o)' = LossOf(o) + 0
        BY <1>1, <2>4, <3>1, <3>4
      <4> QED
        BY <1>6, <3>2, <4>1
    <3> QED
      BY <3>3, <3>4
  <2> QED
    BY <2>2, <2>6 DEF LedgerInv, OpponentLedger, InFight
<1> QED
  BY <1>2, <1>7, <1>8, <1>9

(* Whoever has a place in the order was named when the combat began.       *)
LEMMA StartedWith ==
  ASSUME NEW player, NEW expected,
         NEW chars \in SUBSET Characters, NEW opps \in SUBSET Opponents,
         StartCombat(player, expected, chars, opps)
  PROVE  InFight' \subseteq chars \union opps
<1> DEFINE fighters == chars \union opps
<1>1. order' \in [1..Cardinality(fighters) -> fighters]
  BY DEF StartCombat, TurnOrders
<1>2. fighters \in SUBSET Fighters
  BY DEF Fighters
<1> HIDE DEF fighters
<1>3. Cardinality(fighters) \in Nat
  BY <1>2, RosterAssumption, FS_Subset, FS_CardinalityType
<1>4. \A i \in 1..Len(order') : order'[i] \in fighters
  BY <1>1, <1>3
<1> QED
  BY <1>4 DEF InFight, fighters

LEMMA StartCombatLedgerInv ==
  ASSUME LedgerInv, OpenInv', NEW player, NEW expected,
         NEW chars \in SUBSET Characters, NEW opps \in SUBSET Opponents,
         StartCombat(player, expected, chars, opps)
  PROVE  LedgerInv'
<1>1. /\ vitality' = [o \in Opponents |-> IF o \in opps THEN OpponentHp[o] ELSE 0]
      /\ damage' = NoDamage /\ standing' = chars \union opps /\ issued' = issued
  BY DEF StartCombat
<1>2. InFight' \subseteq chars \union opps
  BY StartedWith
<1>3. ASSUME NEW o PROVE LossOf(o)' = 0
  <2> DEFINE g == [id \in 1..issued' |-> LossBy(id, o)']
  <2>1. issued' \in Nat /\ g \in [1..issued' -> Int]
    BY NextLossTypes DEF OpenInv
  <2>2. \A id : LossBy(id, o)' = 0
    BY <1>1 DEF LossBy, NoDamage
  <2>3. \A id \in 1..issued' : g[id] = 0
    BY <2>2
  <2> HIDE DEF g
  <2>4. RunningTotal(g, issued') = 0
    BY <2>1, <2>3, TotalOfNothing
  <2> QED
    BY <2>4 DEF LossOf, g
<1>4. ASSUME NEW o \in Opponents, o \in InFight'
      PROVE  vitality'[o] = OpponentHp[o] - LossOf(o)'
  <2>1. o \in opps
    BY <1>2, <1>4, RosterAssumption
  <2>2. OpponentHp[o] \in Nat
    BY ProfileTypes
  <2> QED
    BY <1>1, <1>3, <2>1, <2>2
<1> QED
  BY <1>4 DEF LedgerInv, OpponentLedger

LEMMA NextLedgerInv == LedgerInv /\ [Next]_vars => LedgerInv'
<1> SUFFICES ASSUME LedgerInv, [Next]_vars PROVE LedgerInv'
  OBVIOUS
<1>1. OpenInv /\ OpenInv'
  BY NextOpenInv DEF LedgerInv
<1>2. ASSUME GameStep \/ HealthStep \/ UNCHANGED vars PROVE LedgerInv'
  <2>1. \/ phase' = "none"
        \/ UNCHANGED <<phase, order, vitality, damage, issued>>
    BY <1>2 DEF GameStep, HealthStep, Initialize, Remove, ResolveCheck, ApplyDamage,
                ResolveDyingRound, ResolveFirstAid, vars, sessionVars, turnVars
  <2> QED
    BY <1>1, <2>1, KeepLedgerInv DEF LedgerInv, OpponentLedger
<1>3. ASSUME SessionStep PROVE LedgerInv'
  <2>1. ASSUME NEW player, NEW expected, EndCombat(player, expected) PROVE LedgerInv'
    <3>1. phase = "active" /\ phase' = "ended" /\ UNCHANGED <<order, vitality, damage, issued>>
      BY <2>1 DEF EndCombat, MayEnd, turnVars
    <3> QED
      BY <1>1, <3>1 DEF LedgerInv, OpponentLedger, InFight, LossOf, LossBy
  <2> QED
    BY <1>1, <1>3, <2>1, StartCombatLedgerInv DEF SessionStep
<1>4. ASSUME TurnStep PROVE LedgerInv'
  <2>1. ASSUME NEW a, NEW d, CommitBegin(a, d) PROVE LedgerInv'
    BY <1>1, <2>1, KeepLedgerInv DEF CommitBegin, turnVars
  <2>2. ASSUME NEW player, NEW expected, NEW id, NEW response,
               ResolveExchange(player, expected, id, response)
        PROVE  LedgerInv'
    BY <1>1, <2>2, CommitResolveLedgerInv DEF ResolveExchange
  <2>3. ASSUME NEW a, CommitPass(a) PROVE LedgerInv'
    BY <1>1, <2>3, KeepLedgerInv DEF CommitPass, TakeTurn
  <2> QED
    BY <1>4, <2>1, <2>2, <2>3
       DEF TurnStep, BeginExchange, BeginNpcExchange, PassTurn, PassNpcTurn
<1>5. ASSUME DamageStep PROVE LedgerInv'
  BY <1>1, <1>5, DamageStepLedgerInv
<1> QED
  BY <1>2, <1>3, <1>4, <1>5 DEF Next, CombatStep

LEMMA InitLedgerInv == Init => LedgerInv
  BY InitOpenInv DEF Init, NoSession, LedgerInv, OpponentLedger

-----------------------------------------------------------------------------
(* Counting defences in a history of exchanges *)

DefencesIn(h, p, r, n) == {i \in 1..n : h[i].round = r /\ h[i].defender = p}

\* Rounds only grow, and nobody attacks twice in one.
Orderly(h) ==
  /\ \A i, j \in 1..Len(h) : i <= j => h[i].round <= h[j].round
  /\ \A i, j \in 1..Len(h) :
       h[i].round = h[j].round /\ h[i].attacker = h[j].attacker => i = j

LEMMA DefencesFinite ==
  ASSUME NEW h, NEW p, NEW r, NEW n \in Nat
  PROVE  /\ IsFiniteSet(DefencesIn(h, p, r, n))
         /\ Cardinality(DefencesIn(h, p, r, n)) \in Nat
<1>1. DefencesIn(h, p, r, n) \in SUBSET (1..n) /\ IsFiniteSet(1..n)
  BY FS_Interval DEF DefencesIn
<1> QED
  BY <1>1, FS_Subset, FS_CardinalityType

(* Moving all places by one counts the same, when the place dropped is of  *)
(* another round.                                                          *)
LEMMA DefencesMoved ==
  ASSUME NEW h, NEW g, NEW p, NEW r, NEW n \in Nat,
         \A i \in 1..n : g[i] = h[i + 1], h[1].round # r
  PROVE  Cardinality(DefencesIn(g, p, r, n)) = Cardinality(DefencesIn(h, p, r, n + 1))
<1> DEFINE S == DefencesIn(g, p, r, n)
           T == DefencesIn(h, p, r, n + 1)
           f == [i \in S |-> i + 1]
<1>1. S \subseteq 1..n /\ T \subseteq 1..n + 1
  BY DEF DefencesIn
<1>2. \A i \in S : i + 1 \in T
  BY DEF DefencesIn
<1>3. ASSUME NEW j \in T PROVE j - 1 \in S /\ (j - 1) + 1 = j
  <2>1. j \in 1..n + 1 /\ h[j].round = r /\ h[j].defender = p
    BY DEF DefencesIn
  <2>2. j # 1
    BY <2>1
  <2>3. j - 1 \in 1..n /\ (j - 1) + 1 = j
    BY <2>1, <2>2
  <2>4. g[j - 1] = h[j]
    BY <2>3
  <2> QED
    BY <2>1, <2>3, <2>4 DEF DefencesIn
<1>4. f \in Bijection(S, T)
  <2> HIDE DEF S, T
  <2>1. f \in [S -> T] /\ \A i, j \in S : f[i] = f[j] => i = j
    BY <1>1, <1>2
  <2>2. \A j \in T : \E i \in S : f[i] = j
    BY <1>3
  <2> HIDE DEF f
  <2> QED
    BY <2>1, <2>2, Fun_IsBij
<1>5. ExistsBijection(S, T) /\ IsFiniteSet(S)
  BY <1>4, DefencesFinite DEF ExistsBijection
<1> HIDE DEF S, T, f
<1>6. Cardinality(T) = Cardinality(S)
  BY <1>5, FS_Bijection
<1> QED
  BY <1>6 DEF S, T

LEMMA ExchangeTypes ==
  ASSUME NEW h \in Seq(Exchanges), NEW i \in 1..Len(h)
  PROVE  /\ h[i].round \in Nat /\ h[i].outnumbered \in BOOLEAN
         /\ h[i].attacker \in Fighters /\ h[i].defender \in Fighters
<1>1. h[i] \in Exchanges
  OBVIOUS
<1> QED
  BY <1>1 DEF Exchanges

(* A round has fewer exchanges than the history holds.                     *)
LEMMA RoundFits ==
  ASSUME NEW h \in Seq(Exchanges), Orderly(h), Len(h) > ExchangeHistoryLimit,
         NEW r \in Nat, \A i \in 1..Len(h) : h[i].round <= r
  PROVE  h[1].round < r
<1> SUFFICES ASSUME ~ (h[1].round < r) PROVE FALSE
  OBVIOUS
<1>1. \A i \in 1..Len(h) : h[i].round \in Nat /\ h[i].attacker \in Fighters
  BY ExchangeTypes
<1>2. Len(h) \in Nat /\ Len(h) >= 1
  <2>1. Len(h) \in Nat /\ ExchangeHistoryLimit \in Nat
    BY HistoryAssumption
  <2> QED
    BY <2>1
<1>3. \A i \in 1..Len(h) : h[i].round = r
  <2>1. \A i \in 1..Len(h) : h[1].round <= h[i].round
    BY <1>2 DEF Orderly
  <2> QED
    BY <1>1, <1>2, <2>1
<1> DEFINE f == [i \in 1..Len(h) |-> h[i].attacker]
<1>4. f \in [1..Len(h) -> Fighters]
  BY <1>1
<1>5. IsFiniteSet(1..Len(h)) /\ Cardinality(1..Len(h)) = Len(h)
  <2> DEFINE n == Len(h)
  <2>1. n \in Int /\ 1 \in Int /\ ~ (1 > n) /\ n - 1 + 1 = n
    BY <1>2
  <2> HIDE DEF n
  <2>2. IsFiniteSet(1..n) /\ Cardinality(1..n) = IF 1 > n THEN 0 ELSE n - 1 + 1
    BY <2>1, FS_Interval
  <2> QED
    BY <2>1, <2>2 DEF n
<1>6. IsFiniteSet(Fighters) /\ Cardinality(Fighters) < Len(h)
  <2>1. IsFiniteSet(Fighters) /\ Cardinality(Fighters) \in Nat
    BY RosterAssumption, FS_CardinalityType
  <2> QED
    BY <1>2, <2>1, HistoryAssumption
<1>7. \A i, j \in 1..Len(h) : f[i] = f[j] => i = j
  BY <1>3 DEF Orderly
<1> HIDE DEF f
<1>8. \E i, j \in 1..Len(h) : i # j /\ f[i] = f[j]
  BY <1>4, <1>5, <1>6, FS_PigeonHole
<1> QED
  BY <1>7, <1>8
-----------------------------------------------------------------------------
(* One exchange more *)

LEMMA AppendedHistory ==
  ASSUME NEW h \in Seq(Exchanges), NEW x \in Exchanges
  PROVE  LET s == Append(h, x)
         IN  /\ s \in Seq(Exchanges) /\ Len(h) \in Nat /\ Len(s) = Len(h) + 1
             /\ s[Len(h) + 1] = x
             /\ \A i \in 1..Len(h) : s[i] = h[i]
  OBVIOUS

LEMMA OrderlyGrows ==
  ASSUME NEW h \in Seq(Exchanges), Orderly(h), NEW x \in Exchanges,
         \A i \in 1..Len(h) : h[i].round <= x.round,
         \A i \in 1..Len(h) : h[i].round = x.round => h[i].attacker # x.attacker
  PROVE  Orderly(Append(h, x))
<1> DEFINE s == Append(h, x)
<1>1. /\ Len(h) \in Nat /\ Len(s) = Len(h) + 1 /\ s[Len(h) + 1] = x
      /\ \A i \in 1..Len(h) : s[i] = h[i]
  BY AppendedHistory
<1> HIDE DEF s
<1>2. \A i \in 1..Len(s) : i \in 1..Len(h) \/ i = Len(h) + 1
  BY <1>1
<1>3. ASSUME NEW i \in 1..Len(s), NEW j \in 1..Len(s), i <= j
      PROVE  s[i].round <= s[j].round
  <2>1. CASE j \in 1..Len(h)
    <3>1. i \in 1..Len(h)
      BY <1>1, <1>3, <2>1
    <3> QED
      BY <1>1, <1>3, <2>1, <3>1 DEF Orderly
  <2>2. CASE j = Len(h) + 1 /\ i \in 1..Len(h)
    BY <1>1, <2>2
  <2>3. CASE j = Len(h) + 1 /\ i = Len(h) + 1
    <3>1. x.round \in Nat
      BY DEF Exchanges
    <3> QED
      BY <1>1, <2>3, <3>1
  <2> QED
    BY <1>2, <2>1, <2>2, <2>3
<1>4. ASSUME NEW i \in 1..Len(s), NEW j \in 1..Len(s),
             s[i].round = s[j].round, s[i].attacker = s[j].attacker
      PROVE  i = j
  <2>1. CASE i \in 1..Len(h) /\ j \in 1..Len(h)
    BY <1>1, <1>4, <2>1 DEF Orderly
  <2>2. CASE i \in 1..Len(h) /\ j = Len(h) + 1
    BY <1>1, <1>4, <2>2
  <2>3. CASE i = Len(h) + 1 /\ j \in 1..Len(h)
    BY <1>1, <1>4, <2>3
  <2> QED
    BY <1>2, <2>1, <2>2, <2>3
<1> QED
  BY <1>3, <1>4 DEF Orderly, s

(* An exchange is one defence more of its defender in its round, and of    *)
(* nobody else and in no other.                                            *)
LEMMA DefencesGrow ==
  ASSUME NEW h \in Seq(Exchanges), NEW x \in Exchanges, NEW p, NEW r
  PROVE  LET s == Append(h, x)
             n == Len(h)
         IN  /\ \A m \in 0..n : DefencesIn(s, p, r, m) = DefencesIn(h, p, r, m)
             /\ Cardinality(DefencesIn(s, p, r, n + 1)) =
                  Cardinality(DefencesIn(h, p, r, n)) +
                    (IF x.round = r /\ x.defender = p THEN 1 ELSE 0)
<1> DEFINE s == Append(h, x)
           n == Len(h)
           S == DefencesIn(s, p, r, n + 1)
           T == DefencesIn(h, p, r, n)
<1>1. /\ n \in Nat /\ s[n + 1] = x
      /\ \A i \in 1..n : s[i] = h[i]
  BY AppendedHistory
<1> HIDE DEF s, n
<1>2. \A m \in 0..n : DefencesIn(s, p, r, m) = DefencesIn(h, p, r, m)
  BY <1>1 DEF DefencesIn
<1>3. S = IF x.round = r /\ x.defender = p THEN T \union {n + 1} ELSE T
  <2>1. \A i \in 1..n + 1 : i \in 1..n \/ i = n + 1
    BY <1>1
  <2>2. \A i : i \in S <=> i \in T \/ (i = n + 1 /\ x.round = r /\ x.defender = p)
    BY <1>1, <2>1 DEF DefencesIn
  <2> HIDE DEF S, T
  <2> QED
    BY <2>2
<1>4. IsFiniteSet(T) /\ Cardinality(T) \in Nat
  BY <1>1, DefencesFinite
<1>5. n + 1 \notin T
  BY <1>1 DEF DefencesIn
<1> HIDE DEF S, T
<1>6. Cardinality(T \union {n + 1}) = Cardinality(T) + 1
  BY <1>4, <1>5, FS_AddElement
<1>7. Cardinality(S) = Cardinality(T) + (IF x.round = r /\ x.defender = p THEN 1 ELSE 0)
  BY <1>3, <1>4, <1>6
<1> QED
  BY <1>2, <1>7 DEF S, T, s, n

(* The history keeps the last exchanges: it drops none or the first.       *)
LEMMA KeptHistory ==
  ASSUME NEW s \in Seq(Exchanges), Len(s) <= ExchangeHistoryLimit + 1
  PROVE  LET t == TakeLast(s, ExchangeHistoryLimit)
         IN  \/ Len(s) <= ExchangeHistoryLimit /\ t = s
             \/ /\ Len(s) = ExchangeHistoryLimit + 1 /\ Len(t) = ExchangeHistoryLimit
                /\ \A i \in 1..Len(t) : t[i] = s[i + 1]
<1> DEFINE t == TakeLast(s, ExchangeHistoryLimit)
<1>1. Len(s) \in Nat /\ ExchangeHistoryLimit \in Nat
  BY HistoryAssumption
<1>2. CASE Len(s) <= ExchangeHistoryLimit
  BY <1>2 DEF TakeLast
<1>3. CASE ~ (Len(s) <= ExchangeHistoryLimit)
  <2>1. Len(s) = ExchangeHistoryLimit + 1
    BY <1>1, <1>3
  <2>2. t = SubSeq(s, 2, Len(s))
    BY <1>1, <1>3, <2>1 DEF TakeLast
  <2>3. 2 \in 1..Len(s) + 1
    BY <1>1, <2>1
  <2>4. /\ Len(SubSeq(s, 2, Len(s))) = Len(s) - 2 + 1
        /\ \A i \in 1..(Len(s) - 2 + 1) : SubSeq(s, 2, Len(s))[i] = s[2 + i - 1]
    BY <1>1, <2>1, <2>3, SubSeqProperties
  <2> HIDE DEF t
  <2>5. Len(t) = ExchangeHistoryLimit /\ \A i \in 1..Len(t) : t[i] = s[i + 1]
    BY <1>1, <2>1, <2>2, <2>4
  <2> QED
    BY <2>1, <2>5 DEF t
<1> QED
  BY <1>2, <1>3
-----------------------------------------------------------------------------
(* The books of the exchanges, in the round r and with the counts act and  *)
(* resp.                                                                   *)
Kept(h, r) == Len(h) < ExchangeHistoryLimit \/ h[1].round < r

CountedRight(h, i) ==
  h[i].outnumbered <=>
    Cardinality(DefencesIn(h, h[i].defender, h[i].round, i - 1)) >= Allowance[h[i].defender]

HistoryOf(h, act, r) ==
  /\ Orderly(h)
  /\ \A i \in 1..Len(h) : h[i].round <= r
  /\ \A i \in 1..Len(h) : h[i].round = r => act[h[i].attacker] > 0
  /\ \A i \in 1..Len(h) : Kept(h, h[i].round) => CountedRight(h, i)

AnswersOf(h, resp, r) ==
  \A p \in Fighters : resp[p] = Cardinality(DefencesIn(h, p, r, Len(h)))

LEMMA NewRoundBooks ==
  ASSUME NEW h \in Seq(Exchanges), NEW act, NEW r \in Nat, HistoryOf(h, act, r)
  PROVE  HistoryOf(h, NoCounts, r + 1) /\ AnswersOf(h, NoCounts, r + 1)
<1>1. \A i \in 1..Len(h) : h[i].round <= r + 1 /\ h[i].round # r + 1
  BY ExchangeTypes DEF HistoryOf
<1>2. HistoryOf(h, NoCounts, r + 1)
  BY <1>1 DEF HistoryOf
<1>3. \A p : DefencesIn(h, p, r + 1, Len(h)) = {}
  BY <1>1 DEF DefencesIn
<1>4. AnswersOf(h, NoCounts, r + 1)
  BY <1>3, FS_EmptySet DEF AnswersOf, NoCounts
<1> QED
  BY <1>2, <1>4

(* The books after an answered attack, before the history is cut.          *)
LEMMA GrownBooks ==
  ASSUME NEW h \in Seq(Exchanges), NEW act \in Counts, NEW resp \in Counts, NEW r \in Nat,
         HistoryOf(h, act, r), AnswersOf(h, resp, r), NEW x \in Exchanges, x.round = r,
         act[x.attacker] = 0, x.outnumbered <=> resp[x.defender] >= Allowance[x.defender]
  PROVE  LET s == Append(h, x)
         IN  /\ Orderly(s)
             /\ \A i \in 1..Len(s) : s[i].round <= r
             /\ \A i \in 1..Len(s) : s[i].round = r => Bump(act, x.attacker)[s[i].attacker] > 0
             /\ \A i \in 1..Len(s) :
                  i = Len(s) \/ Kept(h, s[i].round) => CountedRight(s, i)
             /\ AnswersOf(s, Bump(resp, x.defender), r)
<1> DEFINE s == Append(h, x)
           n == Len(h)
<1>1. /\ s \in Seq(Exchanges) /\ n \in Nat /\ Len(s) = n + 1 /\ s[n + 1] = x
      /\ \A i \in 1..n : s[i] = h[i]
  BY AppendedHistory
<1>2. x.attacker \in Fighters /\ x.defender \in Fighters /\ x.round \in Nat
  BY DEF Exchanges
<1>3. Orderly(s)
  <2>1. \A i \in 1..Len(h) : h[i].round = x.round => h[i].attacker # x.attacker
    BY DEF HistoryOf
  <2> QED
    BY <2>1, OrderlyGrows DEF HistoryOf
<1>4. ASSUME NEW p, NEW q
      PROVE  /\ \A m \in 0..n : DefencesIn(s, p, q, m) = DefencesIn(h, p, q, m)
             /\ Cardinality(DefencesIn(s, p, q, n + 1)) =
                  Cardinality(DefencesIn(h, p, q, n)) +
                    (IF x.round = q /\ x.defender = p THEN 1 ELSE 0)
  BY DefencesGrow
<1> HIDE DEF s, n
<1>5. \A i \in 1..Len(s) : i \in 1..n \/ i = n + 1
  BY <1>1
<1>6. \A i \in 1..Len(s) : s[i].round <= r
  BY <1>1, <1>2, <1>5 DEF HistoryOf, n
<1>7. ASSUME NEW i \in 1..Len(s), s[i].round = r
      PROVE  Bump(act, x.attacker)[s[i].attacker] > 0
  <2>1. s[i].attacker \in Fighters
    BY <1>1, ExchangeTypes
  <2>2. /\ act[x.attacker] \in Nat /\ act[s[i].attacker] \in Nat
        /\ Bump(act, x.attacker)[s[i].attacker] =
             IF s[i].attacker = x.attacker THEN act[x.attacker] + 1 ELSE act[s[i].attacker]
    BY <1>2, <2>1 DEF Bump, Counts
  <2>3. CASE i \in 1..n
    <3>1. act[s[i].attacker] > 0
      BY <1>1, <1>7, <2>3 DEF HistoryOf, n
    <3> QED
      BY <2>2, <3>1
  <2>4. CASE i = n + 1
    BY <1>1, <2>2, <2>4
  <2> QED
    BY <1>5, <2>3, <2>4
<1>8. ASSUME NEW i \in 1..Len(s), i = Len(s) \/ Kept(h, s[i].round)
      PROVE  CountedRight(s, i)
  <2>1. CASE i = n + 1
    <3>1. i - 1 = n /\ n \in 0..n
      BY <1>1, <2>1
    <3>2. DefencesIn(s, x.defender, r, i - 1) = DefencesIn(h, x.defender, r, n)
      BY <1>4, <3>1
    <3>3. resp[x.defender] = Cardinality(DefencesIn(h, x.defender, r, n))
      BY <1>2 DEF AnswersOf, n
    <3> QED
      BY <1>1, <2>1, <3>2, <3>3 DEF CountedRight
  <2>2. CASE i \in 1..n
    <3>1. i - 1 \in 0..n /\ i # Len(s) /\ s[i] = h[i]
      BY <1>1, <2>2
    <3>2. CountedRight(h, i)
      BY <1>8, <2>2, <3>1 DEF HistoryOf, n
    <3>3. DefencesIn(s, h[i].defender, h[i].round, i - 1) =
            DefencesIn(h, h[i].defender, h[i].round, i - 1)
      BY <1>4, <3>1
    <3> QED
      BY <3>1, <3>2, <3>3 DEF CountedRight
  <2> QED
    BY <1>5, <2>1, <2>2
<1>9. ASSUME NEW p \in Fighters
      PROVE  Bump(resp, x.defender)[p] = Cardinality(DefencesIn(s, p, r, Len(s)))
  <2>1. Bump(resp, x.defender)[p] = IF p = x.defender THEN resp[p] + 1 ELSE resp[p]
    BY <1>2 DEF Bump, Counts
  <2>2. resp[p] = Cardinality(DefencesIn(h, p, r, n)) /\ resp[p] \in Nat
    BY DEF AnswersOf, Counts, n
  <2>3. Cardinality(DefencesIn(s, p, r, n + 1)) =
          Cardinality(DefencesIn(h, p, r, n)) + (IF x.round = r /\ x.defender = p THEN 1 ELSE 0)
    BY <1>4
  <2>4. Cardinality(DefencesIn(s, p, r, n + 1)) = IF p = x.defender THEN resp[p] + 1 ELSE resp[p]
    BY <2>2, <2>3
  <2> QED
    BY <1>1, <2>1, <2>4
<1>10. AnswersOf(s, Bump(resp, x.defender), r)
  BY <1>9 DEF AnswersOf
<1> QED
  BY <1>3, <1>6, <1>7, <1>8, <1>10 DEF s

(* The same books after the first exchange was dropped, because the round  *)
(* at hand has not filled the history.                                     *)
LEMMA CutBooks ==
  ASSUME NEW s \in Seq(Exchanges), NEW t \in Seq(Exchanges), NEW act, NEW resp, NEW r \in Nat,
         Len(s) = ExchangeHistoryLimit + 1, Len(t) = ExchangeHistoryLimit,
         \A i \in 1..Len(t) : t[i] = s[i + 1],
         Orderly(s), \A i \in 1..Len(s) : s[i].round <= r,
         \A i \in 1..Len(s) : s[i].round = r => act[s[i].attacker] > 0,
         \A i \in 1..Len(s) : s[1].round < s[i].round => CountedRight(s, i),
         AnswersOf(s, resp, r)
  PROVE  HistoryOf(t, act, r) /\ AnswersOf(t, resp, r)
<1>1. ExchangeHistoryLimit \in Nat /\ Len(t) \in Nat /\ Len(s) = Len(t) + 1
  BY HistoryAssumption
<1>2. \A i \in 1..Len(t) : i + 1 \in 1..Len(s) /\ t[i] = s[i + 1]
  BY <1>1
<1>3. \A i \in 1..Len(s) : s[i].round \in Nat
  BY ExchangeTypes
<1>4. Orderly(t)
  <2>1. ASSUME NEW i \in 1..Len(t), NEW j \in 1..Len(t), i <= j
        PROVE  t[i].round <= t[j].round
    <3>1. i + 1 <= j + 1
      BY <1>1, <2>1
    <3> QED
      BY <1>2, <3>1 DEF Orderly
  <2>2. ASSUME NEW i \in 1..Len(t), NEW j \in 1..Len(t),
               t[i].round = t[j].round, t[i].attacker = t[j].attacker
        PROVE  i = j
    <3>1. i + 1 = j + 1
      BY <1>2, <2>2 DEF Orderly
    <3> QED
      BY <1>1, <3>1
  <2> QED
    BY <2>1, <2>2 DEF Orderly
<1>5. \A i \in 1..Len(t) : t[i].round <= r /\ (t[i].round = r => act[t[i].attacker] > 0)
  BY <1>2
<1>6. s[1].round < r
  BY <1>1, RoundFits, SMTT(30)
<1>7. ASSUME NEW i \in 1..Len(t), Kept(t, t[i].round) PROVE CountedRight(t, i)
  <2>1. 1 \in 1..Len(t) /\ 1 \in 1..Len(s) /\ 2 \in 1..Len(s) /\ t[1] = s[2]
    BY <1>1, <1>2
  <2>2. s[2].round < t[i].round
    BY <1>1, <1>7, <2>1 DEF Kept
  <2>3. s[1].round <= s[2].round
    BY <2>1 DEF Orderly
  <2>4. s[1].round < t[i].round
    BY <1>2, <1>3, <2>1, <2>2, <2>3
  <2>5. CountedRight(s, i + 1)
    BY <1>2, <2>4
  <2> DEFINE p == t[i].defender
             q == t[i].round
  <2>6. i - 1 \in Nat /\ (i - 1) + 1 = i /\ (i + 1) - 1 = i
        /\ \A j \in 1..i - 1 : t[j] = s[j + 1]
    BY <1>1, <1>2
  <2>7. Cardinality(DefencesIn(t, p, q, i - 1)) = Cardinality(DefencesIn(s, p, q, i))
    <3>1. s[1].round # q
      BY <1>2, <1>3, <2>1, <2>4
    <3> HIDE DEF p, q
    <3> QED
      BY <2>6, <3>1, DefencesMoved
  <2> QED
    BY <1>2, <2>5, <2>6, <2>7 DEF CountedRight
<1>8. ASSUME NEW p \in Fighters PROVE resp[p] = Cardinality(DefencesIn(t, p, r, Len(t)))
  <2>1. Cardinality(DefencesIn(t, p, r, Len(t))) = Cardinality(DefencesIn(s, p, r, Len(t) + 1))
    <3>1. s[1].round # r
      <4>1. 1 \in 1..Len(s)
        BY <1>1
      <4> QED
        BY <1>3, <1>6, <4>1
    <3> QED
      BY <1>1, <1>2, <3>1, DefencesMoved
  <2> QED
    BY <1>1, <2>1 DEF AnswersOf
<1> QED
  BY <1>4, <1>5, <1>7, <1>8 DEF HistoryOf, AnswersOf
LEMMA AnsweredBooks ==
  ASSUME NEW h \in Seq(Exchanges), Len(h) <= ExchangeHistoryLimit,
         NEW act \in Counts, NEW resp \in Counts, NEW r \in Nat,
         HistoryOf(h, act, r), AnswersOf(h, resp, r), NEW x \in Exchanges, x.round = r,
         act[x.attacker] = 0, x.outnumbered <=> resp[x.defender] >= Allowance[x.defender]
  PROVE  LET t == TakeLast(Append(h, x), ExchangeHistoryLimit)
         IN  HistoryOf(t, Bump(act, x.attacker), r) /\ AnswersOf(t, Bump(resp, x.defender), r)
<1> DEFINE s    == Append(h, x)
           t    == TakeLast(s, ExchangeHistoryLimit)
           bact == Bump(act, x.attacker)
           bres == Bump(resp, x.defender)
<1>1. /\ s \in Seq(Exchanges) /\ Len(h) \in Nat /\ Len(s) = Len(h) + 1
      /\ \A i \in 1..Len(h) : s[i] = h[i]
  BY AppendedHistory
<1>2. /\ Orderly(s)
      /\ \A i \in 1..Len(s) : s[i].round <= r
      /\ \A i \in 1..Len(s) : s[i].round = r => bact[s[i].attacker] > 0
      /\ \A i \in 1..Len(s) : i = Len(s) \/ Kept(h, s[i].round) => CountedRight(s, i)
      /\ AnswersOf(s, bres, r)
  BY GrownBooks
<1> HIDE DEF s, bact, bres
<1>3. ExchangeHistoryLimit \in Nat /\ Len(s) <= ExchangeHistoryLimit + 1
  <2>1. ExchangeHistoryLimit \in Nat
    BY HistoryAssumption
  <2> QED
    BY <1>1, <2>1
<1>4. t \in Seq(Exchanges)
  BY <1>1, <1>3, TakeLastType
<1>5. CASE Len(s) <= ExchangeHistoryLimit /\ t = s
  <2>1. \A i \in 1..Len(s) : Kept(h, s[i].round)
    BY <1>1, <1>3, <1>5 DEF Kept
  <2>2. HistoryOf(s, bact, r)
    BY <1>2, <2>1 DEF HistoryOf
  <2> QED
    BY <1>2, <1>5, <2>2 DEF s, bact, bres
<1>6. CASE /\ Len(s) = ExchangeHistoryLimit + 1 /\ Len(t) = ExchangeHistoryLimit
           /\ \A i \in 1..Len(t) : t[i] = s[i + 1]
  <2> HIDE DEF t
  <2>1. ASSUME NEW i \in 1..Len(s), s[1].round < s[i].round PROVE CountedRight(s, i)
    <3>1. CASE i = Len(s)
      BY <1>2, <3>1
    <3>2. CASE i # Len(s)
      <4>1. 1 \in 1..Len(h) /\ i \in 1..Len(h)
        BY <1>1, <1>3, <1>6, <3>2
      <4>2. Kept(h, s[i].round)
        BY <1>1, <2>1, <4>1 DEF Kept
      <4> QED
        BY <1>2, <4>2
    <3> QED
      BY <3>1, <3>2
  <2>2. HistoryOf(t, bact, r) /\ AnswersOf(t, bres, r)
    BY <1>1, <1>2, <1>4, <1>6, <2>1, CutBooks
  <2> QED
    BY <2>2 DEF t, s, bact, bres
<1>7. \/ Len(s) <= ExchangeHistoryLimit /\ t = s
      \/ /\ Len(s) = ExchangeHistoryLimit + 1 /\ Len(t) = ExchangeHistoryLimit
         /\ \A i \in 1..Len(t) : t[i] = s[i + 1]
  BY <1>1, <1>3, KeptHistory
<1> QED
  BY <1>5, <1>6, <1>7

-----------------------------------------------------------------------------
(* The invariant *)

BooksInv ==
  /\ RoundInv
  /\ phase = "active" =>
       HistoryOf(exchanges, acted, round) /\ AnswersOf(exchanges, responded, round)

LEMMA BooksInvCounts == BooksInv => ResponsesCounted
<1> SUFFICES ASSUME BooksInv, phase = "active" PROVE ResponsesCounted
  BY DEF ResponsesCounted
<1>1. \A p, r, n : DefencesOf(p, r, n) = Cardinality(DefencesIn(exchanges, p, r, n))
  BY DEF DefencesOf, DefencesIn
<1>2. \A r : WhollyKept(r) <=> Kept(exchanges, r)
  BY DEF WhollyKept, Kept
<1> QED
  BY <1>1, <1>2 DEF BooksInv, HistoryOf, AnswersOf, CountedRight, ResponsesCounted

LEMMA KeepBooksInv ==
  ASSUME BooksInv, RoundInv', UNCHANGED <<phase, exchanges, acted, responded, round>>
  PROVE  BooksInv'
  BY DEF BooksInv

(* A turn goes on in the same round with the counts it was given, or opens *)
(* the next one with none.                                                 *)
LEMMA AdvanceCounts ==
  ASSUME NEW hl, NEW st, NEW sch, NEW act, NEW resp, NEW rolls
  PROVE  LET r == AdvanceTurn(hl, st, sch, act, resp, rolls)
         IN  \/ r.round = round /\ r.acted = act /\ r.responded = resp
             \/ r.round = round + 1 /\ r.acted = NoCounts /\ r.responded = NoCounts
  BY DEF AdvanceTurn, WrapRound

LEMMA RepairCounts ==
  ASSUME NEW hl, NEW st, NEW sch, NEW rolls
  PROVE  LET r == Repaired(hl, st, sch, rolls)
         IN  \/ r.round = round /\ r.acted = acted /\ r.responded = responded
             \/ r.round = round + 1 /\ r.acted = NoCounts /\ r.responded = NoCounts
<1>1. CASE NeedsWrap(st)
  BY <1>1, AdvanceCounts DEF Repaired
<1>2. CASE ~ NeedsWrap(st)
  BY <1>2 DEF Repaired
<1> QED
  BY <1>1, <1>2

LEMMA TurnBooksInv ==
  ASSUME round \in Nat, RoundInv', exchanges' \in Seq(Exchanges), NEW after, TakeTurn(after),
         NEW act, NEW resp,
         HistoryOf(exchanges', act, round), AnswersOf(exchanges', resp, round),
         \/ after.round = round /\ after.acted = act /\ after.responded = resp
         \/ after.round = round + 1 /\ after.acted = NoCounts /\ after.responded = NoCounts
  PROVE  BooksInv'
<1>1. round' = after.round /\ acted' = after.acted /\ responded' = after.responded
  BY DEF TakeTurn
<1>2. HistoryOf(exchanges', acted', round') /\ AnswersOf(exchanges', responded', round')
  BY <1>1, NewRoundBooks
<1> QED
  BY <1>2 DEF BooksInv, HistoryOf, AnswersOf, CountedRight, Kept, Orderly, DefencesIn

LEMMA ResolveBooksInv ==
  ASSUME BooksInv, RoundInv', phase = "active", pending # NoExchange,
         NEW verdict, verdict.winner \in {"attacker", "defender", "nobody"},
         NEW rolls, CommitResolve(verdict, rolls)
  PROVE  BooksInv'
<1> DEFINE x == [id |-> pending.id, round |-> pending.round, attacker |-> pending.attacker,
                 defender |-> pending.defender, outnumbered |-> Outnumbered,
                 winner |-> verdict.winner]
<1>1. TypeOK /\ RoundInv /\ PendingExchangeIsCurrent /\ CurrentActorStands
  BY DEF BooksInv, RoundInv, OpenInv, TurnInv
<1>2. /\ exchanges \in Seq(Exchanges) /\ Len(exchanges) <= ExchangeHistoryLimit
      /\ acted \in Counts /\ responded \in Counts /\ round \in Nat
      /\ pending \in PendingExchanges
  BY <1>1 DEF TypeOK, SessionTypeOK, Counts
<1>3. /\ pending.round = round /\ pending.attacker = order[turn]
      /\ pending.responsesBefore = responded[pending.defender]
  BY <1>1 DEF PendingExchangeIsCurrent
<1>4. x \in Exchanges
  BY <1>2 DEF Exchanges, PendingExchanges, Outnumbered
<1>5. acted[x.attacker] = 0
  <2>1. turn \in 1..Len(order) /\ order[turn] \in standing /\ turn \in Nat
    BY <1>1 DEF CurrentActorStands
  <2>2. acted[order[turn]] = 0
    BY <1>1, <2>1 DEF RoundInv, ActedOnce
  <2> QED
    BY <1>3, <2>2
<1>6. x.outnumbered <=> responded[x.defender] >= Allowance[x.defender]
  BY <1>3 DEF Outnumbered
<1>7. x.round = round
  BY <1>3
<1>8. exchanges' = TakeLast(Append(exchanges, x), ExchangeHistoryLimit)
  BY DEF CommitResolve
<1>9. PICK after : /\ TakeTurn(after)
                   /\ after = AdvanceTurn(health, standing, schedule, Bump(acted, x.attacker),
                                          Bump(responded, x.defender), rolls)
  BY DEF CommitResolve
<1>10. HistoryOf(exchanges, acted, round) /\ AnswersOf(exchanges, responded, round)
  BY DEF BooksInv
<1> HIDE DEF x
<1>11. /\ HistoryOf(exchanges', Bump(acted, x.attacker), round)
       /\ AnswersOf(exchanges', Bump(responded, x.defender), round)
  BY <1>2, <1>4, <1>5, <1>6, <1>7, <1>8, <1>10, AnsweredBooks
<1>12. exchanges' \in Seq(Exchanges)
  BY DEF RoundInv, TurnInv, TypeOK, SessionTypeOK
<1> QED
  BY <1>2, <1>9, <1>11, <1>12, AdvanceCounts, TurnBooksInv

LEMMA NextBooksInv == BooksInv /\ [Next]_vars => BooksInv'
<1> SUFFICES ASSUME BooksInv, [Next]_vars PROVE BooksInv'
  OBVIOUS
<1>1. RoundInv' /\ RoundInv
  BY NextRoundInv DEF BooksInv
<1>2. round \in Nat /\ exchanges \in Seq(Exchanges)
  BY <1>1 DEF RoundInv, OpenInv, TypeOK, SessionTypeOK
<1>3. ASSUME GameStep \/ HealthStep \/ UNCHANGED vars PROVE BooksInv'
  <2>1. phase' = "none" \/ UNCHANGED <<phase, exchanges, acted, responded, round>>
    BY <1>3 DEF GameStep, HealthStep, Initialize, Remove, ResolveCheck, ApplyDamage,
                ResolveDyingRound, ResolveFirstAid, vars, sessionVars, turnVars
  <2> QED
    BY <1>1, <2>1, KeepBooksInv DEF BooksInv
<1>4. ASSUME SessionStep PROVE BooksInv'
  <2>1. ASSUME NEW player, NEW expected, EndCombat(player, expected) PROVE BooksInv'
    BY <1>1, <2>1 DEF EndCombat, BooksInv
  <2>2. ASSUME NEW player, NEW expected, NEW chars, NEW opps,
               StartCombat(player, expected, chars, opps)
        PROVE  BooksInv'
    <3>1. exchanges' = << >> /\ round' = 1 /\ acted' = NoCounts /\ responded' = NoCounts
      BY <2>2 DEF StartCombat
    <3>2. HistoryOf(<< >>, NoCounts, 1)
      BY DEF HistoryOf, Orderly
    <3>3. \A p : DefencesIn(<< >>, p, 1, 0) = {}
      BY DEF DefencesIn
    <3>4. AnswersOf(<< >>, NoCounts, 1)
      BY <3>3, FS_EmptySet DEF AnswersOf, NoCounts
    <3> QED
      BY <1>1, <3>1, <3>2, <3>4
         DEF BooksInv, HistoryOf, AnswersOf, CountedRight, Kept, Orderly, DefencesIn
  <2> QED
    BY <1>4, <2>1, <2>2 DEF SessionStep
<1>5. ASSUME TurnStep PROVE BooksInv'
  <2>1. ASSUME NEW a, NEW d, CommitBegin(a, d) PROVE BooksInv'
    BY <1>1, <2>1, KeepBooksInv DEF CommitBegin, turnVars
  <2>2. ASSUME NEW player, NEW expected, NEW id, NEW response,
               ResolveExchange(player, expected, id, response)
        PROVE  BooksInv'
    <3>1. PICK attackRoll, defenceRoll, rolls :
            CommitResolve(Opposed(response, attackRoll, defenceRoll), rolls)
      BY <2>2 DEF ResolveExchange
    <3>2. Opposed(response, attackRoll, defenceRoll).winner \in {"attacker", "defender", "nobody"}
      BY VerdictType DEF Opposed
    <3> QED
      BY <1>1, <2>2, <3>1, <3>2, ResolveBooksInv DEF ResolveExchange
  <2>3. ASSUME NEW expected, NEW a, MayPass(expected, a), CommitPass(a) PROVE BooksInv'
    <3>1. phase = "active" /\ exchanges' = exchanges /\ a = order[turn]
      BY <2>3 DEF MayPass, CommitPass
    <3>2. PICK after, rolls :
            /\ TakeTurn(after)
            /\ after = AdvanceTurn(health, standing, schedule, Bump(acted, a), responded, rolls)
      BY <2>3 DEF CommitPass
    <3>3. HistoryOf(exchanges, Bump(acted, a), round) /\ AnswersOf(exchanges, responded, round)
      <4>1. HistoryOf(exchanges, acted, round) /\ AnswersOf(exchanges, responded, round)
        BY <3>1 DEF BooksInv
      <4>2. acted \in Counts
        BY <1>1 DEF RoundInv, OpenInv, TypeOK, SessionTypeOK, Counts
      <4>3. \A p \in Fighters : acted[p] > 0 => Bump(acted, a)[p] > 0
        BY <4>2 DEF Bump, Counts
      <4>4. \A i \in 1..Len(exchanges) : exchanges[i].attacker \in Fighters
        BY <1>2, ExchangeTypes
      <4> QED
        BY <4>1, <4>3, <4>4 DEF HistoryOf
    <3> QED
      BY <1>1, <1>2, <3>1, <3>2, <3>3, AdvanceCounts, TurnBooksInv
  <2> QED
    BY <1>5, <2>1, <2>2, <2>3
       DEF TurnStep, BeginExchange, BeginNpcExchange, PassTurn, PassNpcTurn
<1>6. ASSUME DamageStep PROVE BooksInv'
  <2>1. PICK expected \in 0..revision, id \in DOMAIN damage :
          \/ ConsumeIneligible(expected, id)
          \/ HitCharacter(expected, id)
          \/ HitOpponent(expected, id)
    BY <1>6 DEF DamageStep
  <2>2. phase = "active"
    BY <2>1 DEF ConsumeIneligible, HitCharacter, HitOpponent, MayResolveDamage
  <2>3. ASSUME NEW hl, NEW st, NEW sch, NEW rolls, Repair(hl, st, sch, rolls),
               exchanges' = exchanges
        PROVE  BooksInv'
    <3>1. HistoryOf(exchanges, acted, round) /\ AnswersOf(exchanges, responded, round)
      BY <2>2 DEF BooksInv
    <3>2. PICK after : TakeTurn(after) /\ after = Repaired(hl, st, sch, rolls)
      BY <2>3 DEF Repair
    <3> QED
      BY <1>1, <1>2, <2>3, <3>1, <3>2, RepairCounts, TurnBooksInv
  <2>4. CASE ConsumeIneligible(expected, id)
    BY <1>1, <2>4, KeepBooksInv DEF ConsumeIneligible, turnVars
  <2>5. CASE HitCharacter(expected, id)
    BY <2>3, <2>5 DEF HitCharacter
  <2>6. CASE HitOpponent(expected, id)
    BY <2>3, <2>6 DEF HitOpponent
  <2> QED
    BY <2>1, <2>4, <2>5, <2>6
<1> QED
  BY <1>3, <1>4, <1>5, <1>6 DEF Next, CombatStep

(* The books of a combat balance: a fighter's responses are its defences   *)
(* in the exchanges of the round, an attack was outnumbered exactly when   *)
(* the defender had used up its allowance, and an opponent has lost what   *)
(* the settled hits on it record.                                          *)
THEOREM CombatBooksBalance == Spec => []ExchangesAddUp
<1>1. Init => BooksInv /\ LedgerInv
  BY InitRoundInv, InitLedgerInv DEF Init, NoSession, BooksInv
<1>2. BooksInv /\ LedgerInv => ExchangesAddUp
  BY BooksInvCounts DEF LedgerInv, ExchangesAddUp
<1> QED
  BY <1>1, <1>2, NextBooksInv, NextLedgerInv, PTL DEF Spec
=============================================================================
