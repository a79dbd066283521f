------------------------ MODULE CharacterHealthProofs ------------------------
(***************************************************************************)
(* The record of one investigator stays well-formed and consistent, and    *)
(* implements the health life cycle, for every body, blow, target and roll.*)
(* The rules that need no combat around them agree with each other, for    *)
(* every skill value, weapon, armour and size.                             *)
(***************************************************************************)
EXTENDS CharacterHealth, HealthProofs, RulesSweep

(* The inductive invariant.  Consistency alone is not inductive without    *)
(* the types: a step's arithmetic on HP needs natural numbers.             *)
IInv == TypeOK /\ Consistent

LEMMA InputTypes ==
  ASSUME TypeOK
  PROVE  /\ body.maxHp \in Nat \ {0} /\ body.con \in Nat
         /\ \A damage \in Damages : damage \in Nat \ {0}
         /\ \A roll \in Rolls : roll \in Nat
         /\ \A target \in Targets : target \in Nat
<1>1. body.maxHp \in MaxHps /\ body.con \in Cons
  BY DEF TypeOK
<1>2. body.maxHp \in Nat \ {0} /\ body.con \in Nat
  <2>1. /\ \A m \in MaxHps : m \in Nat \ {0}
        /\ \A c \in Cons : c \in Nat
    BY InputsAssumption
  <2> QED
    BY <1>1, <2>1, Zenon
<1>3. \A damage \in Damages : damage \in Nat \ {0}
  BY InputsAssumption
<1>4. /\ \A roll \in Rolls : roll \in Nat
      /\ \A target \in Targets : target \in Nat
  BY InputsAssumption DEF Percentile
<1> QED
  BY <1>2, <1>3, <1>4

(* A game may begin with any hit points up to the maximum, 0 included.     *)
LEMMA InitInvariant == Init => IInv
<1> SUFFICES ASSUME Init PROVE IInv
  OBVIOUS
<1>1. PICK hp \in 0..body.maxHp : health = NewHealth(hp)
  BY DEF Init
<1>2. body \in [maxHp : MaxHps, con : Cons] /\ body.maxHp \in Nat
  BY InputsAssumption DEF Init
<1>3. health \in HealthRecord(Keys) /\ Consistent
  BY <1>1, <1>2, NewHealthType DEF Consistent
<1>4. /\ health.hp <= body.maxHp
      /\ Len(health.events) <= HistoryLimit
      /\ Len(health.checks) <= DyingCheckLimit
      /\ health.treatments <= TreatmentLimit
  BY <1>1, <1>2, LimitsAssumption, EmptyHistory DEF NewHealth
<1> QED
  BY <1>2, <1>3, <1>4 DEF IInv, TypeOK

LEMMA DamageInvariant ==
  ASSUME IInv, NEW key \in Keys, NEW damage \in Damages, NEW roll \in Rolls,
         ApplyDamage(key, damage, roll)
  PROVE  IInv'
<1>1. /\ health' = Damaged(health, body.maxHp, body.con, key, damage, roll)
      /\ body' = body /\ ~ health.dead
  BY DEF ApplyDamage, TakesDamage
<1>2. health \in HealthRecord(Keys) /\ health.hp <= body.maxHp
  BY DEF IInv, TypeOK
<1>3. /\ body.maxHp \in Nat \ {0} /\ body.con \in Nat
      /\ damage \in Nat \ {0} /\ roll \in Nat
  BY InputTypes DEF IInv
<1>4. /\ health' \in HealthRecord(Keys)
      /\ health'.hp <= body.maxHp
      /\ Len(health'.events) <= HistoryLimit
      /\ Len(health'.checks) <= Len(health.checks)
      /\ health'.treatments = health.treatments
  BY <1>1, <1>2, <1>3, DamagedType
<1>5. Len(health.checks) \in Nat /\ Len(health'.checks) \in Nat
  BY <1>2, <1>4 DEF HealthRecord
<1>6. TypeOK'
  BY <1>1, <1>4, <1>5, LimitsAssumption DEF IInv, TypeOK
<1>7. Consistent'
  BY <1>1, <1>2, <1>3, DamagedConsistent DEF IInv, Consistent
<1> QED
  BY <1>6, <1>7 DEF IInv

LEMMA DyingRoundInvariant ==
  ASSUME IInv, NEW roll \in Rolls, ResolveDyingRound(roll)
  PROVE  IInv'
<1>1. /\ health' = AfterDyingRound(health, body.con, roll)
      /\ body' = body /\ health.dying
  BY DEF ResolveDyingRound, AcceptsDyingRound
<1>2. health \in HealthRecord(Keys)
  BY DEF IInv, TypeOK
<1>3. body.con \in Nat /\ roll \in Nat
  BY InputTypes DEF IInv
<1>4. TypeOK'
  BY <1>1, <1>2, <1>3, AfterDyingRoundType DEF IInv, TypeOK
<1>5. Consistent'
  BY <1>1, <1>2, <1>3, AfterDyingRoundConsistent DEF IInv, Consistent
<1> QED
  BY <1>4, <1>5 DEF IInv

LEMMA FirstAidInvariant ==
  ASSUME IInv, NEW target \in Targets, NEW roll \in Rolls, ResolveFirstAid(target, roll)
  PROVE  IInv'
<1>1. /\ health' = AfterFirstAid(health, body.maxHp, target, roll)
      /\ body' = body /\ ~ health.dead
  BY DEF ResolveFirstAid, AcceptsFirstAid
<1>2. health \in HealthRecord(Keys) /\ health.hp <= body.maxHp
  BY DEF IInv, TypeOK
<1>3. body.maxHp \in Nat \ {0} /\ target \in Nat /\ roll \in Nat
  BY InputTypes DEF IInv
<1>4. /\ health' \in HealthRecord(Keys)
      /\ health'.hp <= body.maxHp
      /\ health'.events = health.events
      /\ Len(health'.checks) <= Len(health.checks)
      /\ health'.treatments <= TreatmentLimit
  BY <1>1, <1>2, <1>3, AfterFirstAidType
<1>5. Len(health.checks) \in Nat /\ Len(health'.checks) \in Nat
  BY <1>2, <1>4 DEF HealthRecord
<1>6. TypeOK'
  BY <1>1, <1>4, <1>5, LimitsAssumption DEF IInv, TypeOK
<1>7. Consistent'
  BY <1>1, <1>2, <1>3, AfterFirstAidConsistent DEF IInv, Consistent
<1> QED
  BY <1>6, <1>7 DEF IInv

LEMMA StepInvariant == IInv /\ [Next]_vars => IInv'
<1> SUFFICES ASSUME IInv, [Next]_vars PROVE IInv'
  OBVIOUS
<1>1. CASE \E key \in Keys, damage \in Damages, roll \in Rolls :
             ApplyDamage(key, damage, roll)
  BY <1>1, DamageInvariant
<1>2. CASE \E roll \in Rolls : ResolveDyingRound(roll)
  BY <1>2, DyingRoundInvariant
<1>3. CASE \E target \in Targets, roll \in Rolls : ResolveFirstAid(target, roll)
  BY <1>3, FirstAidInvariant
<1>4. CASE UNCHANGED vars
  BY <1>4 DEF vars, IInv, TypeOK, Consistent
<1> QED
  BY <1>1, <1>2, <1>3, <1>4 DEF Next

LEMMA Invariance == Spec => []IInv
<1> QED
  BY InitInvariant, StepInvariant, PTL DEF Spec

(* Every reachable record has its type, respects the maximum HP and keeps  *)
(* its histories within their limits.                                      *)
THEOREM TypeCorrect == Spec => []TypeOK
<1>1. IInv => TypeOK
  BY DEF IInv
<1> QED
  BY <1>1, Invariance, PTL

(* The overlapping conditions of a record never contradict each other.     *)
THEOREM ConditionsStayConsistent == Spec => []Consistent
<1>1. IInv => Consistent
  BY DEF IInv
<1> QED
  BY <1>1, Invariance, PTL

-----------------------------------------------------------------------------
(* Refinement: each operation is one step of the life cycle or none.       *)

LEMMA DamageFollows ==
  ASSUME IInv, NEW key \in Keys, NEW damage \in Damages, NEW roll \in Rolls,
         ApplyDamage(key, damage, roll)
  PROVE  Life!Next \/ UNCHANGED ConditionOf(health)
<1>1. /\ health' = Damaged(health, body.maxHp, body.con, key, damage, roll)
      /\ ~ health.dead
      /\ health \in HealthRecord(Keys)
  BY DEF ApplyDamage, TakesDamage, IInv, TypeOK
<1>2. CASE damage >= body.maxHp
  <2>1. health'.dead
    BY <1>1, <1>2 DEF Damaged, Killed, HealthRecord
  <2> QED
    BY <1>1, <2>1 DEF ConditionOf, Life!Next, Life!Die
<1>3. CASE ~ (damage >= body.maxHp)
  <2> DEFINE fresh == FreshDying(health, body.maxHp, damage)
  <2>1. /\ health'.dead = health.dead
        /\ health'.dying = (health.dying \/ fresh)
        /\ health'.stabilized = (health.stabilized /\ ~ fresh)
    BY <1>1, <1>3 DEF Damaged, Wounded, HealthRecord
  <2>2. health.dying \in BOOLEAN /\ health.stabilized \in BOOLEAN /\ fresh \in BOOLEAN
    BY <1>1 DEF HealthRecord, FreshDying
  <2> HIDE DEF fresh
  <2>3. CASE fresh /\ ~ health.dying
    BY <1>1, <2>1, <2>3 DEF ConditionOf, Life!Next, Life!Collapse
  <2>4. CASE ~ fresh \/ health.dying
    BY <1>1, <2>1, <2>2, <2>4 DEF ConditionOf
  <2> QED
    BY <2>3, <2>4
<1> QED
  BY <1>2, <1>3

LEMMA DyingRoundFollows ==
  ASSUME IInv, NEW roll \in Rolls, ResolveDyingRound(roll)
  PROVE  Life!Next \/ UNCHANGED ConditionOf(health)
<1>1. /\ health' = AfterDyingRound(health, body.con, roll)
      /\ health.dying /\ ~ health.dead
      /\ health \in HealthRecord(Keys)
  BY DEF ResolveDyingRound, AcceptsDyingRound, IInv, TypeOK
<1>2. CASE roll > body.con
  <2>1. health'.dead
    BY <1>1, <1>2 DEF AfterDyingRound, Expired, HealthRecord
  <2> QED
    BY <1>1, <2>1 DEF ConditionOf, Life!Next, Life!Die
<1>3. CASE ~ (roll > body.con)
  <2>1. health'.dead = health.dead /\ health'.dying = health.dying
    BY <1>1, <1>3 DEF AfterDyingRound, Survived, HealthRecord
  <2> QED
    BY <1>1, <2>1 DEF ConditionOf
<1> QED
  BY <1>2, <1>3

LEMMA FirstAidFollows ==
  ASSUME IInv, NEW target \in Targets, NEW roll \in Rolls, ResolveFirstAid(target, roll)
  PROVE  Life!Next \/ UNCHANGED ConditionOf(health)
<1>1. /\ health' = AfterFirstAid(health, body.maxHp, target, roll)
      /\ ~ health.dead
      /\ health \in HealthRecord(Keys)
  BY DEF ResolveFirstAid, AcceptsFirstAid, IInv, TypeOK
<1>2. CASE roll > target
  <2>1. /\ health'.dead = health.dead /\ health'.dying = health.dying
        /\ health'.stabilized = health.stabilized
    BY <1>1, <1>2 DEF AfterFirstAid, HealthRecord
  <2> QED
    BY <1>1, <2>1 DEF ConditionOf
<1>3. CASE ~ (roll > target)
  <2>1. /\ health'.dead = health.dead /\ health'.dying = FALSE
        /\ health'.stabilized = health.dying
    BY <1>1, <1>3 DEF AfterFirstAid, Revived, HealthRecord
  <2>2. CASE health.dying
    BY <1>1, <2>1, <2>2 DEF ConditionOf, Life!Next, Life!Stabilize
  <2>3. CASE ~ health.dying
    BY <1>1, <2>1, <2>3 DEF ConditionOf, Life!Next, Life!Recover
  <2> QED
    BY <2>2, <2>3
<1> QED
  BY <1>2, <1>3

(* The record implements the life cycle: the dead stay dead, the dying     *)
(* leave that state only by First Aid or death, only they are stabilized.  *)
THEOREM ImplementsLifecycle == Spec => FollowsLifecycle
<1>1. Init => Life!Init
  BY DEF Init, NewHealth, ConditionOf, Life!Init
<1>2. IInv /\ [Next]_vars => [Life!Next]_(ConditionOf(health))
  <2> SUFFICES ASSUME IInv, [Next]_vars
               PROVE  Life!Next \/ UNCHANGED ConditionOf(health)
    OBVIOUS
  <2>1. CASE \E key \in Keys, damage \in Damages, roll \in Rolls :
               ApplyDamage(key, damage, roll)
    BY <2>1, DamageFollows
  <2>2. CASE \E roll \in Rolls : ResolveDyingRound(roll)
    BY <2>2, DyingRoundFollows
  <2>3. CASE \E target \in Targets, roll \in Rolls : ResolveFirstAid(target, roll)
    BY <2>3, FirstAidFollows
  <2>4. CASE UNCHANGED vars
    BY <2>4 DEF vars, ConditionOf
  <2> QED
    BY <2>1, <2>2, <2>3, <2>4 DEF Next
<1> QED
  BY <1>1, <1>2, Invariance, PTL DEF FollowsLifecycle, Spec, Life!Spec

-----------------------------------------------------------------------------
(* The damage history *)

(* Of a history, kept has every key but the oldest of n.                     *)
Recalls(kept, s, n) ==
  \A i \in 1..Len(s) :
    \/ \E j \in 1..Len(kept) : kept[j] = s[i]
    \/ i = 1 /\ Len(s) = n

(* What a full history forgets when a key is added is its oldest key.        *)
LEMMA TakeLastForgetsTheOldest ==
  ASSUME NEW S, NEW s \in Seq(S), NEW key \in S, NEW n \in Nat \ {0}, Len(s) <= n
  PROVE  Recalls(TakeLast(Append(s, key), n), s, n)
<1> DEFINE kept == TakeLast(Append(s, key), n)
<1> SUFFICES ASSUME NEW i \in 1..Len(s)
             PROVE  \/ \E j \in 1..Len(kept) : kept[j] = s[i]
                    \/ i = 1 /\ Len(s) = n
  BY DEF Recalls
<1> DEFINE longer == Append(s, key)
<1>1. /\ longer \in Seq(S) /\ Len(longer) = Len(s) + 1
      /\ Len(s) \in Nat /\ longer[i] = s[i] /\ i \in 1..Len(longer)
  OBVIOUS
<1>2. CASE Len(s) < n
  <2>1. kept = longer
    BY <1>1, <1>2 DEF TakeLast
  <2> QED
    BY <1>1, <2>1
<1>3. CASE Len(s) = n /\ i # 1
  <2>1. kept = SubSeq(longer, 2, n + 1)
    BY <1>1, <1>3 DEF TakeLast
  <2>2. Len(kept) = n /\ \A j \in 1..n : kept[j] = longer[j + 1]
    BY <1>1, <1>3, <2>1
  <2>3. i - 1 \in 1..n /\ (i - 1) + 1 = i
    BY <1>1, <1>3
  <2>4. kept[i - 1] = s[i]
    BY <1>1, <2>2, <2>3
  <2> QED
    BY <2>2, <2>3, <2>4
<1>4. Len(s) < n \/ Len(s) = n
  BY <1>1
<1> QED
  BY <1>2, <1>3, <1>4

(* Neither a dying check nor a treatment touches the damage history.         *)
LEMMA ChecksKeepEvents ==
  ASSUME NEW h, NEW con, NEW roll, h \in HealthRecord(Keys)
  PROVE  AfterDyingRound(h, con, roll).events = h.events
BY DEF AfterDyingRound, Expired, Survived, HealthRecord

LEMMA TreatmentsKeepEvents ==
  ASSUME NEW h, NEW maxHp, NEW target, NEW roll, h \in HealthRecord(Keys)
  PROVE  AfterFirstAid(h, maxHp, target, roll).events = h.events
BY DEF AfterFirstAid, Revived, HealthRecord

(* No blow is forgotten but the oldest of a full history, so that a key among *)
(* the last HistoryLimit is recognised when its blow is sent again            *)
(* (HpDamageResolution.cs:123, 149).                                          *)
THEOREM BlowsAreRemembered == Spec => OnlyTheOldestEventIsForgotten
<1> DEFINE Remembered ==
      \A i \in 1..Len(health.events) :
        \/ \E j \in 1..Len(health'.events) :
              health'.events[j] = health.events[i]
        \/ i = 1 /\ Len(health.events) = HistoryLimit
<1>1. IInv /\ [Next]_vars => Remembered
  <2> SUFFICES ASSUME IInv, [Next]_vars PROVE Remembered
    OBVIOUS
  <2>1. /\ health \in HealthRecord(Keys) /\ health.events \in Seq(Keys)
        /\ Len(health.events) <= HistoryLimit
    BY DEF IInv, TypeOK, HealthRecord
  <2>2. health'.events = health.events => Remembered
    OBVIOUS
  <2>3. CASE \E key \in Keys, damage \in Damages, roll \in Rolls :
               ApplyDamage(key, damage, roll)
    <3>1. PICK key \in Keys, damage \in Damages, roll \in Rolls :
            ApplyDamage(key, damage, roll)
      BY <2>3
    <3>2. health'.events = TakeLast(Append(health.events, key), HistoryLimit)
      BY <2>1, <3>1 DEF ApplyDamage, Damaged, Killed, Wounded, HealthRecord
    <3>3. Recalls(health'.events, health.events, HistoryLimit)
      BY <2>1, <3>1, <3>2, LimitsAssumption, TakeLastForgetsTheOldest
    <3> QED
      BY <3>3 DEF Recalls
  <2>4. CASE \E roll \in Rolls : ResolveDyingRound(roll)
    <3>1. PICK roll \in Rolls : health' = AfterDyingRound(health, body.con, roll)
      BY <2>4 DEF ResolveDyingRound
    <3> QED
      BY <2>1, <2>2, <3>1, ChecksKeepEvents
  <2>5. CASE \E target \in Targets, roll \in Rolls : ResolveFirstAid(target, roll)
    <3>1. PICK target \in Targets, roll \in Rolls :
            health' = AfterFirstAid(health, body.maxHp, target, roll)
      BY <2>5 DEF ResolveFirstAid
    <3> QED
      BY <2>1, <2>2, <3>1, TreatmentsKeepEvents
  <2>6. CASE UNCHANGED vars
    BY <2>2, <2>6 DEF vars
  <2> QED
    BY <2>3, <2>4, <2>5, <2>6 DEF Next
<1>2. IInv /\ [Next]_vars => [Remembered]_vars
  BY <1>1
<1> QED
  BY <1>2, Invariance, PTL DEF OnlyTheOldestEventIsForgotten, Spec

-----------------------------------------------------------------------------
(* The tables of the rules *)

(* The rank of a level reaches what a difficulty asks for exactly when the   *)
(* roll stays below the reduced target.                                      *)
LEMMA DifficultyOfLevel ==
  ASSUME NEW roll \in 1..100, NEW target \in 1..100, NEW difficulty \in Difficulties
  PROVE  Passed(SuccessLevel(roll, target), difficulty) <=>
           \/ roll = 1
           \/ roll <= DifficultyTarget(target, difficulty) /\ ~ IsFumble(roll, target)
<1>1. target \div 5 \in Int /\ target \div 2 \in Int
      /\ target \div 5 >= 0 /\ target \div 2 >= target \div 5 /\ target >= target \div 2
  OBVIOUS
<1> QED
  BY <1>1 DEF Difficulties, Passed, SuccessLevel, SuccessLevelRank, RequiredRank,
     DifficultyTarget, IsFumble

(* A higher roll never has a better level.                                   *)
LEMMA LevelsFall ==
  ASSUME NEW roll \in 1..99, NEW target \in 1..100
  PROVE  /\ SuccessLevel(roll, target) \in Levels
         /\ SuccessLevel(roll + 1, target) \in Levels
         /\ SuccessLevelRank(SuccessLevel(roll + 1, target))
              <= SuccessLevelRank(SuccessLevel(roll, target))
<1>1. target \div 5 \in Int /\ target \div 2 \in Int
      /\ target \div 5 >= 0 /\ target \div 2 >= target \div 5 /\ target >= target \div 2
  OBVIOUS
<1> QED
  BY <1>1 DEF Levels, SuccessLevel, SuccessLevelRank, IsFumble

(* A level has a rank.                                                       *)
LEMMA RankType ==
  ASSUME NEW level \in Levels
  PROVE  SuccessLevelRank(level) \in 0..4
BY DEF Levels, SuccessLevelRank

(* Neither side of an exchange gains by a worse level of its own.            *)
LEMMA WorseAttackNeverWins ==
  ASSUME NEW a \in Levels, NEW b \in Levels, NEW d \in Levels, NEW r \in CombatResponses,
         SuccessLevelRank(b) <= SuccessLevelRank(a),
         ResolveOpposed(b, d, r).winner = "attacker"
  PROVE  ResolveOpposed(a, d, r).winner = "attacker"
<1>1. /\ SuccessLevelRank(a) \in 0..4 /\ SuccessLevelRank(b) \in 0..4
      /\ SuccessLevelRank(d) \in 0..4
  BY RankType
<1>2. AttackerHits(a).winner = "attacker" /\ AttackerHits(b).winner = "attacker"
  BY DEF AttackerHits, Verdict
<1>3. /\ NobodyHits.winner = "nobody"
      /\ Verdict("defender", "none").winner = "defender"
      /\ Verdict("defender", "fight_back_regular_cap").winner = "defender"
  BY DEF NobodyHits, Verdict
<1> QED
  BY <1>1, <1>2, <1>3 DEF ResolveOpposed, ResolveDodge, ResolveFightBack, Passed, RequiredRank

(* A worse defence never helps the defender hit.                             *)
LEMMA WorseDefenceNeverWins ==
  ASSUME NEW a \in Levels, NEW d \in Levels, NEW e \in Levels, NEW r \in CombatResponses,
         SuccessLevelRank(e) <= SuccessLevelRank(d)
  PROVE  /\ ResolveOpposed(a, d, r).winner = "attacker"
              => ResolveOpposed(a, e, r).winner = "attacker"
         /\ ResolveOpposed(a, e, r).mode = "fight_back_regular_cap"
              => ResolveOpposed(a, d, r).mode = "fight_back_regular_cap"
<1>1. /\ SuccessLevelRank(a) \in 0..4 /\ SuccessLevelRank(d) \in 0..4
      /\ SuccessLevelRank(e) \in 0..4
  BY RankType
<1>2. /\ AttackerHits(a).winner = "attacker"
      /\ AttackerHits(a).mode # "fight_back_regular_cap"
  BY DEF AttackerHits, Verdict
<1>3. /\ NobodyHits.winner = "nobody" /\ NobodyHits.mode = "none"
      /\ Verdict("defender", "none").winner = "defender"
      /\ Verdict("defender", "none").mode = "none"
      /\ Verdict("defender", "fight_back_regular_cap").winner = "defender"
      /\ Verdict("defender", "fight_back_regular_cap").mode = "fight_back_regular_cap"
  BY DEF NobodyHits, Verdict
<1> QED
  BY <1>1, <1>2, <1>3 DEF ResolveOpposed, ResolveDodge, ResolveFightBack, Passed, RequiredRank

(* A roll of n dice can give n, and at most what each face allows.           *)
LEMMA MostOfDice ==
  ASSUME NEW n \in Nat \ {0}, NEW f \in Nat \ {0}
  PROVE  n * f \in Nat /\ n <= n * f
OBVIOUS

(* A damage bonus is a number or a roll of dice.                             *)
LEMMA BonusType ==
  ASSUME NEW s \in 1..999, NEW z \in 1..999
  PROVE  LET b == DeriveDamageBonus(s, z)
         IN  \/ b.kind = "flat" /\ b.flat \in Int
             \/ b.kind = "dice" /\ b.count \in Nat \ {0} /\ b.faces \in Nat \ {0}
<1> DEFINE sum == s + z
           n   == 2 + ((sum - 205) \div 80)
           b   == DeriveDamageBonus(s, z)
<1>1. sum \in Int
  OBVIOUS
<1>2. sum > 204 => n \in Nat \ {0}
  BY <1>1
<1>3. b = CASE sum <= 64                -> FlatBonus(-2)
            [] sum > 64 /\ sum <= 84    -> FlatBonus(-1)
            [] sum > 84 /\ sum <= 124   -> FlatBonus(0)
            [] sum > 124 /\ sum <= 164  -> DiceBonus(1, 4)
            [] sum > 164 /\ sum <= 204  -> DiceBonus(1, 6)
            [] sum > 204                -> DiceBonus(n, 6)
  BY DEF DeriveDamageBonus
<1> HIDE DEF b, n, sum
<1>4. b \in {FlatBonus(-2), FlatBonus(-1), FlatBonus(0), DiceBonus(1, 4), DiceBonus(1, 6)}
      \/ (sum > 204 /\ b = DiceBonus(n, 6))
  BY <1>1, <1>3
<1> QED
  BY <1>2, <1>4 DEF FlatBonus, DiceBonus, b

(* What the tables walk through.                                             *)
SweepType ==
  /\ table \in {"exchanges", "blows"}
  /\ attackRoll \in 1..100 /\ defenceRoll \in 1..100
  /\ attackTarget \in SkillTargets /\ defenceTarget \in SkillTargets
  /\ response \in CombatResponses
  /\ str \in 1..MaxStr
  /\ table = "blows" => siz \in Sizes /\ weapon \in Weapons /\ armor \in Armors

LEMMA SweepTypeInit == SweepInit => SweepType
<1> SUFFICES ASSUME SweepInit PROVE SweepType
  OBVIOUS
<1>1. 1 \in 1..MaxStr /\ 1 \in 1..100
  BY SweepAssumption
<1>2. CASE table = "exchanges"
  BY <1>1, <1>2 DEF SweepInit, SweepType
<1>3. CASE table = "blows"
  <2>1. (CHOOSE t \in SkillTargets : TRUE) \in SkillTargets
    BY SweepAssumption
  <2>2. (CHOOSE c \in CombatResponses : TRUE) \in CombatResponses
    BY DEF CombatResponses
  <2> QED
    BY <1>1, <1>3, <2>1, <2>2 DEF SweepInit, SweepType
<1> QED
  BY <1>2, <1>3 DEF SweepInit

LEMMA SweepTypeStep == SweepType /\ [SweepNext]_sweepVars => SweepType'
<1> SUFFICES ASSUME SweepType, [SweepNext]_sweepVars PROVE SweepType'
  OBVIOUS
<1>1. CASE WorseAttack
  BY <1>1 DEF WorseAttack, SweepType, blowVars
<1>2. CASE WorseDefence
  BY <1>2 DEF WorseDefence, SweepType, blowVars
<1>3. CASE Stronger
  BY <1>3, SweepAssumption DEF Stronger, SweepType, exchangeVars
<1>4. CASE UNCHANGED sweepVars
  BY <1>4 DEF SweepType, sweepVars, exchangeVars, blowVars
<1> QED
  BY <1>1, <1>2, <1>3, <1>4 DEF SweepNext

LEMMA SweepTypes == SweepSpec => []SweepType
BY SweepTypeInit, SweepTypeStep, PTL DEF SweepSpec

(* A blow's dice: the extreme hit takes the most of the weapon and of the    *)
(* bonus, and that roll is one of those the other modes can make.            *)
LEMMA ExtremeTopsTheDice ==
  ASSUME SweepType
  PROVE  ExtremeIsTheMaximum
<1> SUFFICES ASSUME table = "blows" PROVE ExtremeIsTheMaximum
  BY DEF ExtremeIsTheMaximum
<1> DEFINE ext  == "initiator_extreme_eligible"
           reg  == "regular"
           cap  == "fight_back_regular_cap"
           b    == Bonus
           n    == weapon.count
           f    == weapon.faces
           m    == weapon.modifier
           most == n * f
           rolls == weapon.addsBonus /\ b.kind # "flat"
           bn   == b.count
           bf   == b.faces
           bmost == bn * bf
           flat == IF weapon.addsBonus /\ b.kind = "flat" THEN b.flat ELSE 0
           W    == n..most
           B    == IF rolls THEN bn..bmost ELSE {0}
           full == IF rolls THEN bmost ELSE 0
           Net(x) == AtLeastZero(AtLeastZero(m + x + flat) - armor)
           top  == Net(most + full)
<1>1. /\ weapon \in Weapons /\ armor \in Nat
      /\ n \in Nat \ {0} /\ f \in Nat \ {0} /\ m \in Int /\ weapon.addsBonus \in BOOLEAN
      /\ str \in 1..999 /\ siz \in 1..999
  <2>1. weapon \in Weapons /\ armor \in Armors /\ siz \in Sizes /\ str \in 1..MaxStr
    BY DEF SweepType
  <2>2. str \in 1..999 /\ siz \in 1..999 /\ armor \in Nat
    BY <2>1, SweepAssumption
  <2> QED
    BY <2>1, <2>2, SweepAssumption
<1>2. \/ b.kind = "flat" /\ b.flat \in Int
      \/ b.kind = "dice" /\ bn \in Nat \ {0} /\ bf \in Nat \ {0}
  BY <1>1, BonusType DEF Bonus
<1> HIDE DEF b
<1>3. most \in Nat /\ n <= most
  BY <1>1, MostOfDice
<1>4. rolls => bmost \in Nat /\ bn \in Nat /\ bn <= bmost
  BY <1>2, MostOfDice
<1>5. flat \in Int /\ full \in Nat
  BY <1>2, <1>4
<1>6. \A mode \in {reg, cap} :
        /\ WeaponTotals(weapon, mode) = W
        /\ BonusTotals(weapon, b, mode) = B
  BY <1>1, <1>2 DEF WeaponTotals, BonusTotals, DiceTotals
<1> HIDE DEF n, f, m, most, bn, bf, bmost
<1>7. most \in W /\ full \in B /\ W \subseteq Int /\ B \subseteq Int
      /\ (\A x \in W : x <= most) /\ (\A y \in B : y <= full)
  BY <1>1, <1>3, <1>4
<1>8. \A mode \in {reg, cap} : \A x \in W, y \in B :
        NetDamage(weapon, b, mode, x, y, armor) = Net(x + y)
  <2> TAKE mode \in {reg, cap}
  <2> TAKE x \in W, y \in B
  <2>1. WeaponDamage(weapon, mode, x) = m + x
    BY DEF WeaponDamage, m
  <2>2. BonusDamage(weapon, b, mode, y) = flat + y
    BY <1>1, <1>2, <1>5, <1>7 DEF BonusDamage
  <2>3. m + x + (flat + y) = m + (x + y) + flat
    BY <1>1, <1>5, <1>7
  <2> QED
    BY <2>1, <2>2, <2>3 DEF NetDamage, GrossDamage
<1>9. NetDamage(weapon, b, ext, 0, 0, armor) = top
  <2>1. WeaponDamage(weapon, ext, 0) = m + most
    BY DEF WeaponDamage, m, most, n, f
  <2>2. BonusDamage(weapon, b, ext, 0) = flat + full
    BY <1>1, <1>2, <1>4, <1>5 DEF BonusDamage, bmost, bn, bf
  <2>3. m + most + (flat + full) = m + (most + full) + flat
    BY <1>1, <1>3, <1>5
  <2> QED
    BY <2>1, <2>2, <2>3 DEF NetDamage, GrossDamage
<1>10. \A x \in W, y \in B : Net(x + y) <= top
  BY <1>1, <1>3, <1>5, <1>7 DEF AtLeastZero
<1> HIDE DEF Net, W, B, full, flat, top
<1>11. Outcomes(ext) = {top}
  <2>1. WeaponTotals(weapon, ext) = {0} /\ BonusTotals(weapon, b, ext) = {0}
    BY DEF WeaponTotals, BonusTotals
  <2> QED
    BY <1>9, <2>1 DEF Outcomes, b
<1>12. \A mode \in {reg, cap} : Outcomes(mode) = {Net(x + y) : x \in W, y \in B}
  <2> TAKE mode \in {reg, cap}
  <2> DEFINE T == {NetDamage(weapon, b, mode, x, y, armor) : x \in W, y \in B}
  <2>1. Outcomes(mode) = T
    BY <1>6 DEF Outcomes, b
  <2>2. T = {Net(x + y) : x \in W, y \in B}
    BY <1>8
  <2> HIDE DEF T
  <2> QED
    BY <2>1, <2>2
<1> DEFINE rolled == {Net(x + y) : x \in W, y \in B}
<1>13. top \in rolled /\ \A d \in rolled : d <= top
  <2>1. top = Net(most + full)
    BY DEF top
  <2>2. \A d \in rolled : d <= top
    <3> TAKE d \in rolled
    <3>1. \E x \in W, y \in B : d = Net(x + y)
      OBVIOUS
    <3> QED
      BY <1>10, <3>1
  <2> QED
    BY <1>7, <2>1, <2>2
<1>14. Outcomes("regular") = rolled /\ Outcomes("fight_back_regular_cap") = rolled
  BY <1>12
<1> HIDE DEF rolled
<1> QED
  BY <1>11, <1>13, <1>14 DEF ExtremeIsTheMaximum

(* The rules that are written twice agree (CoreChecks.cs,                    *)
(* CombatDamage.cs), for every skill value, weapon, armour and size.         *)
THEOREM RulesAlwaysAgree == SweepSpec => []RulesAgree
<1>1. SweepType => RulesAgree
  <2> SUFFICES ASSUME SweepType PROVE RulesAgree
    OBVIOUS
  <2>1. DifficultyAgreesWithTarget
    <3>1. attackRoll \in 1..100 /\ attackTarget \in 1..100
      BY SweepAssumption DEF SweepType
    <3> QED
      BY <3>1, DifficultyOfLevel DEF DifficultyAgreesWithTarget, Attack
  <2> QED
    BY <2>1, ExtremeTopsTheDice DEF RulesAgree
<1> QED
  BY <1>1, SweepTypes, PTL

(* No roll helps its roller by being higher, for every pair of skill values. *)
THEOREM NoRollHelpsByBeingHigher == SweepSpec => HigherRollsNeverHelp
<1> DEFINE Step ==
      /\ WorseAttack =>
           /\ SuccessLevelRank(Attack') <= SuccessLevelRank(Attack)
           /\ Result'.winner = "attacker" => Result.winner = "attacker"
      /\ WorseDefence =>
           /\ SuccessLevelRank(Defence') <= SuccessLevelRank(Defence)
           /\ Result.winner = "attacker" => Result'.winner = "attacker"
           /\ Result'.mode = "fight_back_regular_cap" =>
                Result.mode = "fight_back_regular_cap"
<1>1. SweepType => Step
  <2> SUFFICES ASSUME SweepType PROVE Step
    OBVIOUS
  <2>1. /\ attackRoll \in 1..100 /\ defenceRoll \in 1..100 /\ response \in CombatResponses
        /\ attackTarget \in 1..100 /\ defenceTarget \in 1..100
    BY SweepAssumption DEF SweepType
  <2>2. Attack \in Levels /\ Defence \in Levels
    BY <2>1 DEF Attack, Defence, SuccessLevel, Levels
  <2>3. ASSUME WorseAttack
        PROVE  /\ SuccessLevelRank(Attack') <= SuccessLevelRank(Attack)
               /\ Result'.winner = "attacker" => Result.winner = "attacker"
    <3>1. /\ attackRoll \in 1..99 /\ attackRoll' = attackRoll + 1
          /\ attackTarget' = attackTarget /\ defenceTarget' = defenceTarget
          /\ defenceRoll' = defenceRoll /\ response' = response
      BY <2>1, <2>3 DEF WorseAttack
    <3>2. /\ Attack' = SuccessLevel(attackRoll + 1, attackTarget) /\ Defence' = Defence
      BY <3>1 DEF Attack, Defence
    <3>3. Attack' \in Levels /\ SuccessLevelRank(Attack') <= SuccessLevelRank(Attack)
      BY <2>1, <3>1, <3>2, LevelsFall DEF Attack
    <3>4. Result' = ResolveOpposed(Attack', Defence, response)
      BY <3>1, <3>2 DEF Result
    <3> QED
      BY <2>1, <2>2, <3>3, <3>4, WorseAttackNeverWins DEF Result
  <2>4. ASSUME WorseDefence
        PROVE  /\ SuccessLevelRank(Defence') <= SuccessLevelRank(Defence)
               /\ Result.winner = "attacker" => Result'.winner = "attacker"
               /\ Result'.mode = "fight_back_regular_cap" =>
                    Result.mode = "fight_back_regular_cap"
    <3>1. /\ defenceRoll \in 1..99 /\ defenceRoll' = defenceRoll + 1
          /\ attackTarget' = attackTarget /\ defenceTarget' = defenceTarget
          /\ attackRoll' = attackRoll /\ response' = response
      BY <2>1, <2>4 DEF WorseDefence
    <3>2. /\ Defence' = SuccessLevel(defenceRoll + 1, defenceTarget) /\ Attack' = Attack
      BY <3>1 DEF Attack, Defence
    <3>3. Defence' \in Levels /\ SuccessLevelRank(Defence') <= SuccessLevelRank(Defence)
      BY <2>1, <3>1, <3>2, LevelsFall DEF Defence
    <3>4. Result' = ResolveOpposed(Attack, Defence', response)
      BY <3>1, <3>2 DEF Result
    <3> QED
      BY <2>1, <2>2, <3>3, <3>4, WorseDefenceNeverWins DEF Result
  <2> QED
    BY <2>3, <2>4
<1>2. SweepSpec => [][Step]_sweepVars
  BY <1>1, SweepTypes, PTL
<1> QED
  BY <1>2 DEF HigherRollsNeverHelp
=============================================================================
