----------------------------- MODULE HealthProofs -----------------------------
(***************************************************************************)
(* Lemmas about the health engines: each maps a well-formed, consistent    *)
(* record to a well-formed, consistent record, for every body, blow and    *)
(* roll.  The modules that keep such records cite them.                    *)
(***************************************************************************)
EXTENDS Health, SequenceTheorems, TLAPS

(* A retained history stays a sequence and never outgrows its limit        *)
(* (LINQ TakeLast, HpDamageResolution.cs).                                 *)
LEMMA TakeLastType ==
  ASSUME NEW S, NEW s \in Seq(S), NEW n \in Nat
  PROVE  TakeLast(s, n) \in Seq(S) /\ Len(TakeLast(s, n)) <= n
<1>1. CASE Len(s) <= n
  BY <1>1 DEF TakeLast
<1>2. CASE ~ (Len(s) <= n)
  <2> DEFINE m == Len(s) - n + 1
  <2>1. m \in 1..(Len(s) + 1)
    BY <1>2
  <2>2. SubSeq(s, m, Len(s)) \in Seq(S) /\ Len(SubSeq(s, m, Len(s))) = Len(s) - m + 1
    BY <2>1, SubSeqProperties
  <2> QED
    BY <1>2, <2>2 DEF TakeLast
<1> QED
  BY <1>1, <1>2

LEMMA EmptyHistory == << >> \in Seq(Nat) /\ Len(<< >>) = 0
  OBVIOUS

(* A fresh record, for any hit points.                                     *)
LEMMA NewHealthType ==
  ASSUME NEW Keys, NEW hp \in Nat
  PROVE  /\ NewHealth(hp) \in HealthRecord(Keys)
         /\ NewHealth(hp).hp = hp
         /\ ConditionsConsistent(NewHealth(hp))
<1>1. ASSUME NEW none \in Seq(Nat), NEW noEvent \in Seq(Keys)
      PROVE  [hp |-> hp, majorWound |-> FALSE, unconscious |-> hp = 0,
              dying |-> FALSE, checks |-> none, nextOrdinal |-> 0,
              stabilized |-> FALSE, dead |-> FALSE, treatments |-> 0,
              events |-> noEvent] \in HealthRecord(Keys)
  BY DEF HealthRecord
<1>2. << >> \in Seq(Keys)
  OBVIOUS
<1>3. NewHealth(hp) \in HealthRecord(Keys)
  BY <1>1, <1>2, EmptyHistory DEF NewHealth
<1>4. NewHealth(hp).hp = hp /\ ConditionsConsistent(NewHealth(hp))
  BY DEF NewHealth, ConditionsConsistent, DeadIsFinalCondition,
         DyingIffMortallyWounded, StabilizedIsOffTheFloor, UnconsciousAtZero
<1> QED
  BY <1>3, <1>4

(* Each outcome of an engine is a well-formed record.                      *)
LEMMA KilledType ==
  ASSUME NEW Keys, NEW h \in HealthRecord(Keys), NEW hp \in Nat, NEW events \in Seq(Keys)
  PROVE  Killed(h, hp, events) \in HealthRecord(Keys)
<1>1. ASSUME NEW none \in Seq(Nat)
      PROVE  [h EXCEPT !.hp = hp, !.unconscious = FALSE, !.dying = FALSE,
                       !.checks = none, !.nextOrdinal = 0, !.stabilized = FALSE,
                       !.dead = TRUE, !.events = events] \in HealthRecord(Keys)
  BY DEF HealthRecord
<1> QED
  BY <1>1, EmptyHistory DEF Killed

LEMMA WoundedType ==
  ASSUME NEW Keys, NEW h \in HealthRecord(Keys), NEW hp \in Nat, NEW events \in Seq(Keys),
         NEW wound \in BOOLEAN, NEW conFailed \in BOOLEAN, NEW fresh \in BOOLEAN
  PROVE  Wounded(h, hp, events, wound, conFailed, fresh) \in HealthRecord(Keys)
<1> DEFINE m == h.majorWound \/ wound
           u == h.unconscious \/ (wound /\ conFailed) \/ hp = 0
           d == h.dying \/ fresh
           c == IF fresh THEN << >> ELSE h.checks
           o == IF fresh THEN 1 ELSE h.nextOrdinal
           s == h.stabilized /\ ~ fresh
<1>1. c \in Seq(Nat) /\ o \in Nat
  BY EmptyHistory DEF HealthRecord
<1>2. m \in BOOLEAN /\ u \in BOOLEAN /\ d \in BOOLEAN /\ s \in BOOLEAN
  BY DEF HealthRecord
<1>3. Wounded(h, hp, events, wound, conFailed, fresh) =
        [h EXCEPT !.hp = hp, !.majorWound = m, !.unconscious = u, !.dying = d,
                  !.checks = c, !.nextOrdinal = o, !.stabilized = s, !.events = events]
  BY DEF Wounded
<1> HIDE DEF m, u, d, c, o, s
<1> QED
  BY <1>1, <1>2, <1>3 DEF HealthRecord

LEMMA ExpiredType ==
  ASSUME NEW Keys, NEW h \in HealthRecord(Keys)
  PROVE  Expired(h) \in HealthRecord(Keys)
<1>1. ASSUME NEW none \in Seq(Nat)
      PROVE  [h EXCEPT !.dying = FALSE, !.checks = none, !.nextOrdinal = 0,
                       !.stabilized = FALSE, !.unconscious = FALSE,
                       !.dead = TRUE] \in HealthRecord(Keys)
  BY DEF HealthRecord
<1> QED
  BY <1>1, EmptyHistory DEF Expired

LEMMA SurvivedType ==
  ASSUME NEW Keys, NEW h \in HealthRecord(Keys)
  PROVE  Survived(h) \in HealthRecord(Keys) /\ Len(Survived(h).checks) <= DyingCheckLimit
<1> DEFINE ordinal == Len(h.checks) + 1
           checks  == TakeLast(Append(h.checks, ordinal), DyingCheckLimit)
<1>2. ordinal \in Nat /\ Append(h.checks, ordinal) \in Seq(Nat)
  BY DEF HealthRecord
<1>3. checks \in Seq(Nat) /\ Len(checks) <= DyingCheckLimit
  BY <1>2, TakeLastType, LimitsAssumption
<1>4. Survived(h) = [h EXCEPT !.checks = checks, !.nextOrdinal = ordinal + 1,
                              !.stabilized = FALSE]
  BY DEF Survived
<1>5. Survived(h).checks = checks
  BY <1>4 DEF HealthRecord
<1>6. ordinal + 1 \in Nat
  BY <1>2
<1> HIDE DEF checks, ordinal
<1>7. Survived(h) \in HealthRecord(Keys)
  BY <1>3, <1>4, <1>6 DEF HealthRecord
<1> QED
  BY <1>3, <1>5, <1>7

LEMMA RevivedType ==
  ASSUME NEW Keys, NEW h \in HealthRecord(Keys), NEW maxHp \in Nat
  PROVE  Revived(h, maxHp) \in HealthRecord(Keys)
<1>1. ASSUME NEW none \in Seq(Nat), NEW hp \in Nat
      PROVE  [h EXCEPT !.hp = hp, !.unconscious = FALSE, !.dying = FALSE,
                       !.checks = none, !.nextOrdinal = 0,
                       !.stabilized = h.dying] \in HealthRecord(Keys)
  BY DEF HealthRecord
<1>2. Least(maxHp, h.hp + 1) \in Nat
  BY DEF Least, HealthRecord
<1> QED
  BY <1>1, <1>2, EmptyHistory DEF Revived

-----------------------------------------------------------------------------
(* The damage engine keeps the shape of the record and its limits.         *)
LEMMA DamagedType ==
  ASSUME NEW Keys, NEW h \in HealthRecord(Keys), NEW key \in Keys,
         NEW maxHp \in Nat, NEW con \in Nat, NEW damage \in Nat, NEW conRoll \in Nat,
         h.hp <= maxHp
  PROVE  LET after == Damaged(h, maxHp, con, key, damage, conRoll)
         IN  /\ after \in HealthRecord(Keys)
             /\ after.hp <= maxHp
             /\ Len(after.events) <= HistoryLimit
             /\ Len(after.checks) <= Len(h.checks)
             /\ after.treatments = h.treatments
<1> DEFINE hp     == IF damage >= h.hp THEN 0 ELSE h.hp - damage
           events == TakeLast(Append(h.events, key), HistoryLimit)
           wound  == RequiresConRoll(maxHp, damage)
           fresh  == FreshDying(h, maxHp, damage)
<1>1. events \in Seq(Keys) /\ Len(events) <= HistoryLimit
  <2>1. Append(h.events, key) \in Seq(Keys)
    BY DEF HealthRecord
  <2> QED
    BY <2>1, TakeLastType, LimitsAssumption
<1>2. hp \in Nat /\ hp <= maxHp
  BY DEF HealthRecord
<1>3. wound \in BOOLEAN /\ fresh \in BOOLEAN /\ (conRoll > con) \in BOOLEAN
  BY DEF RequiresConRoll, FreshDying
<1>4. Len(h.checks) \in Nat
  BY DEF HealthRecord
<1>5. Damaged(h, maxHp, con, key, damage, conRoll) =
        IF damage >= maxHp THEN Killed(h, hp, events)
        ELSE Wounded(h, hp, events, wound, conRoll > con, fresh)
  BY DEF Damaged
<1> HIDE DEF hp, events, wound, fresh
<1>6. CASE damage >= maxHp
  <2>1. /\ Killed(h, hp, events).hp = hp
        /\ Killed(h, hp, events).events = events
        /\ Killed(h, hp, events).checks = << >>
        /\ Killed(h, hp, events).treatments = h.treatments
    BY DEF Killed, HealthRecord
  <2> QED
    BY <1>1, <1>2, <1>4, <1>5, <1>6, <2>1, KilledType, EmptyHistory
<1>7. CASE ~ (damage >= maxHp)
  <2> DEFINE after == Wounded(h, hp, events, wound, conRoll > con, fresh)
  <2>1. /\ after.hp = hp
        /\ after.events = events
        /\ after.checks = (IF fresh THEN << >> ELSE h.checks)
        /\ after.treatments = h.treatments
    BY DEF Wounded, HealthRecord
  <2>2. after \in HealthRecord(Keys)
    BY <1>1, <1>2, <1>3, WoundedType
  <2>3. Len(after.checks) <= Len(h.checks)
    BY <1>4, <2>1, EmptyHistory
  <2> QED
    BY <1>1, <1>2, <1>5, <1>7, <2>1, <2>2, <2>3
<1> QED
  BY <1>6, <1>7

(* So does the dying check.                                                *)
LEMMA AfterDyingRoundType ==
  ASSUME NEW Keys, NEW h \in HealthRecord(Keys), NEW con \in Nat, NEW roll \in Nat
  PROVE  LET after == AfterDyingRound(h, con, roll)
         IN  /\ after \in HealthRecord(Keys)
             /\ after.hp = h.hp
             /\ after.events = h.events
             /\ Len(after.checks) <= DyingCheckLimit
             /\ after.treatments = h.treatments
<1>1. CASE roll > con
  <2>1. Len(Expired(h).checks) <= DyingCheckLimit
    BY LimitsAssumption, EmptyHistory DEF Expired, HealthRecord
  <2>2. /\ Expired(h).hp = h.hp
        /\ Expired(h).events = h.events
        /\ Expired(h).treatments = h.treatments
    BY DEF Expired, HealthRecord
  <2> QED
    BY <1>1, <2>1, <2>2, ExpiredType DEF AfterDyingRound
<1>2. CASE ~ (roll > con)
  <2>1. /\ Survived(h).hp = h.hp
        /\ Survived(h).events = h.events
        /\ Survived(h).treatments = h.treatments
    BY DEF Survived, HealthRecord
  <2> QED
    BY <1>2, <2>1, SurvivedType DEF AfterDyingRound
<1> QED
  BY <1>1, <1>2

(* And First Aid, which gives back no more than the maximum.               *)
LEMMA AfterFirstAidType ==
  ASSUME NEW Keys, NEW h \in HealthRecord(Keys), NEW maxHp \in Nat,
         NEW target \in Nat, NEW roll \in Nat,
         h.hp <= maxHp
  PROVE  LET after == AfterFirstAid(h, maxHp, target, roll)
         IN  /\ after \in HealthRecord(Keys)
             /\ after.hp <= maxHp
             /\ after.events = h.events
             /\ Len(after.checks) <= Len(h.checks)
             /\ after.treatments <= TreatmentLimit
<1> DEFINE treated == [h EXCEPT !.treatments = Least(@ + 1, TreatmentLimit)]
<1>1. /\ treated \in HealthRecord(Keys)
      /\ treated.treatments <= TreatmentLimit
      /\ treated.hp = h.hp /\ treated.events = h.events /\ treated.checks = h.checks
  <2>1. /\ Least(h.treatments + 1, TreatmentLimit) \in Nat
        /\ Least(h.treatments + 1, TreatmentLimit) <= TreatmentLimit
    BY LimitsAssumption DEF Least, HealthRecord
  <2> QED
    BY <2>1 DEF HealthRecord
<1>2. AfterFirstAid(h, maxHp, target, roll) =
        IF roll > target THEN treated ELSE Revived(treated, maxHp)
  BY DEF AfterFirstAid
<1>3. Len(h.checks) \in Nat
  BY DEF HealthRecord
<1> HIDE DEF treated
<1>4. /\ Revived(treated, maxHp).hp <= maxHp
      /\ Revived(treated, maxHp).events = treated.events
      /\ Revived(treated, maxHp).checks = << >>
      /\ Revived(treated, maxHp).treatments = treated.treatments
  BY <1>1 DEF Revived, Least, HealthRecord
<1>5. Revived(treated, maxHp) \in HealthRecord(Keys)
  BY <1>1, RevivedType
<1> QED
  BY <1>1, <1>2, <1>3, <1>4, <1>5, EmptyHistory

-----------------------------------------------------------------------------
(* A blow that counts never makes the conditions contradict each other: in *)
(* particular whoever falls to 0 HP with a major wound starts to die.      *)
LEMMA DamagedConsistent ==
  ASSUME NEW Keys, NEW h \in HealthRecord(Keys), NEW key,
         NEW maxHp \in Nat \ {0}, NEW con \in Nat, NEW damage \in Nat \ {0},
         NEW conRoll \in Nat, ~ h.dead, ConditionsConsistent(h)
  PROVE  ConditionsConsistent(Damaged(h, maxHp, con, key, damage, conRoll))
<1> USE DEF ConditionsConsistent, DeadIsFinalCondition, DyingIffMortallyWounded,
            StabilizedIsOffTheFloor, UnconsciousAtZero, HealthRecord
<1>1. CASE damage >= maxHp
  BY <1>1 DEF Damaged, Killed
<1>2. CASE ~ (damage >= maxHp)
  <2> DEFINE hp     == IF damage >= h.hp THEN 0 ELSE h.hp - damage
             events == TakeLast(Append(h.events, key), HistoryLimit)
             wound  == RequiresConRoll(maxHp, damage)
             fresh  == FreshDying(h, maxHp, damage)
             after  == Wounded(h, hp, events, wound, conRoll > con, fresh)
  <2>1. Damaged(h, maxHp, con, key, damage, conRoll) = after
    BY <1>2 DEF Damaged
  <2>2. /\ after.hp = hp
        /\ after.majorWound <=> h.majorWound \/ wound
        /\ hp = 0 => after.unconscious
        /\ after.dying <=> h.dying \/ fresh
        /\ after.stabilized <=> h.stabilized /\ ~ fresh
        /\ after.dead = h.dead
    BY DEF Wounded
  <2>3. /\ hp = 0 <=> damage >= h.hp
        /\ hp \in Nat
        /\ fresh <=> ~ h.dying /\ damage >= h.hp /\ (h.majorWound \/ wound)
    BY DEF FreshDying
  <2>4. ConditionsConsistent(after)
    <3> HIDE DEF after, hp, wound, fresh, events
    <3> QED
      BY <2>2, <2>3
  <2> QED
    BY <2>1, <2>4
<1> QED
  BY <1>1, <1>2

(* Neither does a dying check.                                             *)
LEMMA AfterDyingRoundConsistent ==
  ASSUME NEW Keys, NEW h \in HealthRecord(Keys), NEW con \in Nat, NEW roll \in Nat,
         h.dying, ConditionsConsistent(h)
  PROVE  ConditionsConsistent(AfterDyingRound(h, con, roll))
  BY DEF ConditionsConsistent, DeadIsFinalCondition, DyingIffMortallyWounded,
         StabilizedIsOffTheFloor, UnconsciousAtZero, HealthRecord,
         AfterDyingRound, Expired, Survived

(* Nor First Aid, which always lifts the dying off 0 HP.                   *)
LEMMA AfterFirstAidConsistent ==
  ASSUME NEW Keys, NEW h \in HealthRecord(Keys), NEW maxHp \in Nat \ {0},
         NEW target \in Nat, NEW roll \in Nat,
         ~ h.dead, ConditionsConsistent(h)
  PROVE  ConditionsConsistent(AfterFirstAid(h, maxHp, target, roll))
  BY DEF ConditionsConsistent, DeadIsFinalCondition, DyingIffMortallyWounded,
         StabilizedIsOffTheFloor, UnconsciousAtZero, HealthRecord,
         AfterFirstAid, Revived, Least
=============================================================================
