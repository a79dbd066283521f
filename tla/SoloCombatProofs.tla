--------------------------- MODULE SoloCombatProofs ---------------------------
(* Combat Mode and the health rules of the single-player page, for every     *)
(* roster, profile, weapon, reply and roll: the state stays well formed and  *)
(* the investigator's conditions agree; a combat goes on only while both     *)
(* sides can fight; everybody has one turn a round; the dying are checked    *)
(* every round.                                                              *)
EXTENDS SoloCombatProperties, FiniteSetTheorems, FunctionTheorems, SequenceTheorems,
        WellFoundedInduction, TLAPS

-----------------------------------------------------------------------------
(* Numbers *)

LEMMA LeastOf ==
  ASSUME NEW T \in SUBSET Nat, T # {}
  PROVE  \E m \in T : \A n \in T : m <= n
<1> DEFINE R == OpToRel(<, Nat)
<1>1. IsWellFoundedOn(R, Nat)
  BY NatLessThanWellFounded
<1>2. \A m, n \in Nat : n < m => <<n, m>> \in R
  BY DEF OpToRel
<1> HIDE DEF R
<1>3. PICK m \in T : \A n \in T : ~ (<<n, m>> \in R)
  BY <1>1, WFMin
<1>4. m \in Nat /\ \A n \in T : n \in Nat
  OBVIOUS
<1>5. ASSUME NEW n \in T PROVE ~ (n < m)
  BY <1>2, <1>3, <1>4, Zenon
<1>6. \A n \in T : m <= n
  BY <1>4, <1>5
<1> QED
  BY <1>6

LEMMA MinOf ==
  ASSUME NEW T \in SUBSET Nat, T # {}
  PROVE  Min(T) \in T /\ \A n \in T : Min(T) <= n
BY LeastOf DEF Min

LEMMA MaxOf ==
  ASSUME NEW T \in SUBSET Int, HasMax(T)
  PROVE  Max(T) \in T
BY DEF Max, HasMax

LEMMA MaxOfTwo ==
  ASSUME NEW m \in Int, NEW n \in Int
  PROVE  Max({m, n}) = IF m >= n THEN m ELSE n
<1>1. \A x \in {m, n} : (\A y \in {m, n} : x >= y) => x = IF m >= n THEN m ELSE n
  OBVIOUS
<1>2. \E x \in {m, n} : \A y \in {m, n} : x >= y
  OBVIOUS
<1> QED
  BY <1>1, <1>2 DEF Max

LEMMA MinOfTwo ==
  ASSUME NEW m \in Int, NEW n \in Int
  PROVE  Min({m, n}) = IF m <= n THEN m ELSE n
<1>1. \A x \in {m, n} : (\A y \in {m, n} : x <= y) => x = IF m <= n THEN m ELSE n
  OBVIOUS
<1>2. \E x \in {m, n} : \A y \in {m, n} : x <= y
  OBVIOUS
<1> QED
  BY <1>1, <1>2 DEF Min

LEMMA ClampType ==
  ASSUME NEW n \in Int, NEW high \in Nat
  PROVE  Clamp(n, 0, high) \in 0..high
BY DEF Clamp

-----------------------------------------------------------------------------
(* The order of a combat *)

LEMMA RosterFacts ==
  /\ IsFiniteSet(Fighters)
  /\ Len(Roster) = Cardinality(Fighters)
  /\ Len(Roster) \in Nat \ {0}
<1> DEFINE n == Len(Roster)
<1>1. Roster \in [1..n -> Fighters] /\ n \in Nat
  BY RosterAssumption
<1>2. Fighters = {Roster[i] : i \in 1..n}
  BY <1>1 DEF Fighters, ToSet
<1>3. n # 0
  BY <1>1, <1>2, RosterAssumption
<1>4. IsInjective(Roster)
  BY RosterAssumption
<1>5. Roster \in Bijection(1..n, Fighters)
  <2>1. \A p \in Fighters : \E i \in 1..n : Roster[i] = p
    BY <1>2
  <2>2. \A i, j \in 1..n : Roster[i] = Roster[j] => i = j
    BY <1>1, <1>4 DEF IsInjective
  <2> QED
    BY <1>1, <2>1, <2>2, Fun_IsBij
<1>6. IsFiniteSet(1..n) /\ Cardinality(1..n) = n
  <2> HIDE DEF n
  <2> QED
    BY <1>1, FS_Interval
<1>7. IsFiniteSet(Fighters) /\ Cardinality(Fighters) = n
  BY <1>5, <1>6, FS_Bijection DEF ExistsBijection
<1> QED
  BY <1>1, <1>3, <1>7

LEMMA BeforeIsAnOrder ==
  /\ \A p \in Fighters : ~ Before(p, p)
  /\ \A p, q \in Fighters : p # q => Before(p, q) \/ Before(q, p)
  /\ \A p, q, r \in Fighters : Before(p, q) /\ Before(q, r) => Before(p, r)
<1> DEFINE place(p) == CHOOSE i \in DOMAIN Roster : Roster[i] = p
<1>1. ASSUME NEW p \in Fighters
      PROVE  place(p) \in DOMAIN Roster /\ Roster[place(p)] = p /\ place(p) \in Int
  <2>1. \E i \in DOMAIN Roster : Roster[i] = p
    BY DEF Fighters, ToSet
  <2>2. DOMAIN Roster \subseteq Int
    BY RosterAssumption
  <2> QED
    BY <2>1, <2>2
<1>2. \A p, q : Before(p, q) <=> \/ Initiative[p] > Initiative[q]
                                 \/ Initiative[p] = Initiative[q] /\ place(p) < place(q)
  BY DEF Before
<1>3. \A p \in Fighters : Initiative[p] \in Int
  BY ProfileAssumption
<1> HIDE DEF place
<1>4. \A p, q \in Fighters : p # q => place(p) # place(q)
  BY <1>1
<1> QED
  BY <1>1, <1>2, <1>3, <1>4

Earlier(S, p) == {q \in S : Before(q, p)}

LEMMA RankGrows ==
  ASSUME NEW S \in SUBSET Fighters, NEW p \in S, NEW q \in S, Before(p, q)
  PROVE  Cardinality(Earlier(S, p)) < Cardinality(Earlier(S, q))
<1>1. IsFiniteSet(S) /\ IsFiniteSet(Earlier(S, p)) /\ IsFiniteSet(Earlier(S, q))
  BY RosterFacts, FS_Subset DEF Earlier
<1>2. Earlier(S, p) \subseteq Earlier(S, q) /\ Earlier(S, p) # Earlier(S, q)
  BY BeforeIsAnOrder DEF Earlier
<1> QED
  BY <1>1, <1>2, FS_Subset, FS_CardinalityType

LEMMA RankInRange ==
  ASSUME NEW S \in SUBSET Fighters, NEW p \in S
  PROVE  Cardinality(Earlier(S, p)) \in 0..(Cardinality(S) - 1)
<1>1. IsFiniteSet(S) /\ IsFiniteSet(Earlier(S, p))
  BY RosterFacts, FS_Subset DEF Earlier
<1>2. Earlier(S, p) \subseteq S /\ Earlier(S, p) # S
  BY BeforeIsAnOrder DEF Earlier
<1> QED
  BY <1>1, <1>2, FS_Subset, FS_CardinalityType

(* Every place of the order is filled by exactly one participant.            *)
LEMMA OrderFacts ==
  ASSUME NEW S \in SUBSET Fighters
  PROVE  /\ Cardinality(S) \in Nat
         /\ combatOrder(S) \in [1..Cardinality(S) -> S]
         /\ \A i, j \in 1..Cardinality(S) : combatOrder(S)[i] = combatOrder(S)[j] => i = j
         /\ \A p \in S : \E i \in 1..Cardinality(S) : combatOrder(S)[i] = p
<1> DEFINE n    == Cardinality(S)
           rank == [p \in S |-> Cardinality(Earlier(S, p))]
           ord  == combatOrder(S)
<1>1. n \in Nat /\ IsFiniteSet(S)
  BY RosterFacts, FS_Subset, FS_CardinalityType
<1>2. rank \in [S -> 0..(n - 1)]
  BY RankInRange
<1>3. \A p, q \in S : rank[p] = rank[q] => p = q
  <2> SUFFICES ASSUME NEW p \in S, NEW q \in S, p # q PROVE rank[p] # rank[q]
    OBVIOUS
  <2>1. Before(p, q) \/ Before(q, p)
    BY BeforeIsAnOrder
  <2>2. Cardinality(Earlier(S, p)) \in Int /\ Cardinality(Earlier(S, q)) \in Int
    BY RankInRange
  <2> QED
    BY <2>1, <2>2, RankGrows
<1>4. IsFiniteSet(0..(n - 1)) /\ Cardinality(0..(n - 1)) = n
  <2> HIDE DEF n
  <2> QED
    BY <1>1, FS_Interval
<1> HIDE DEF rank
<1>5. rank \in Injection(S, 0..(n - 1))
  BY <1>2, <1>3, Fun_IsInj
<1>6. rank \in Surjection(S, 0..(n - 1))
  BY <1>1, <1>4, <1>5, FS_Injection
<1>7. \A i \in 1..n : \E p \in S : rank[p] = i - 1
  BY <1>1, <1>6 DEF Surjection
<1>8. \A i \in 1..n : \E p \in S : Cardinality({q \in S : Before(q, p)}) = i - 1
  BY <1>7 DEF rank, Earlier
<1>9. \A i \in 1..n : ord[i] \in S /\ rank[ord[i]] = i - 1
  <2>1. \A i \in 1..n : ord[i] \in S /\ Cardinality({q \in S : Before(q, ord[i])}) = i - 1
    BY <1>8 DEF combatOrder
  <2> QED
    BY <2>1 DEF rank, Earlier
<1>10. ord \in [1..n -> S]
  <2>1. ord = [i \in 1..n |-> ord[i]]
    BY DEF combatOrder
  <2> QED
    BY <1>9, <2>1
<1>11. \A i, j \in 1..n : ord[i] = ord[j] => i = j
  BY <1>9
<1>12. ASSUME NEW p \in S PROVE \E i \in 1..n : ord[i] = p
  <2>1. rank[p] + 1 \in 1..n /\ rank[p] \in Int
    BY <1>1, <1>2
  <2>2. rank[ord[rank[p] + 1]] = rank[p] /\ ord[rank[p] + 1] \in S
    BY <1>9, <2>1
  <2> QED
    BY <1>3, <2>1, <2>2
<1> QED
  BY <1>1, <1>10, <1>11, <1>12

\* A turn order: nobody is in it twice.
Orders == {o \in Seq(Fighters) : IsInjective(o)}

LEMMA OrderLength ==
  ASSUME NEW o \in Orders
  PROVE  /\ Len(o) \in Nat /\ Len(o) <= Len(Roster)
         /\ ToSet(o) = Fighters => Len(o) = Len(Roster)
<1> DEFINE n == Len(o)
<1>1. n \in Nat /\ o \in [1..n -> Fighters] /\ IsInjective(o)
  BY DEF Orders
<1>2. IsFiniteSet(1..n) /\ Cardinality(1..n) = n
  <2> HIDE DEF n
  <2> QED
    BY <1>1, FS_Interval
<1>3. o \in Injection(1..n, Fighters)
  BY <1>1, Fun_IsInj DEF IsInjective
<1>4. /\ n <= Cardinality(Fighters)
      /\ n = Cardinality(Fighters) <=> o \in Surjection(1..n, Fighters)
  BY <1>2, <1>3, RosterFacts, FS_Injection
<1>5. ToSet(o) = Fighters => o \in Surjection(1..n, Fighters)
  BY <1>1, Fun_IsSurj DEF ToSet
<1> QED
  BY <1>1, <1>4, <1>5, RosterFacts

\* The order begins as another one does, and goes on with others.
Extends(full, o) ==
  /\ Len(o) <= Len(full)
  /\ \A i \in 1..Len(full) : IF i <= Len(o) THEN full[i] = o[i] ELSE full[i] \notin ToSet(o)

\* The order without one of its places.
Closes(rest, o) ==
  \E k \in Nat : \A i \in 1..Len(rest) :
     LET j == IF i < k THEN i ELSE i + 1 IN j \in 1..Len(o) /\ rest[i] = o[j]

(* Whoever is missing comes back at the end.                                 *)
LEMMA RefilledOrder ==
  ASSUME NEW o \in Orders
  PROVE  /\ o \o combatOrder(Fighters \ ToSet(o)) \in Orders
         /\ ToSet(o \o combatOrder(Fighters \ ToSet(o))) = Fighters
         /\ Extends(o \o combatOrder(Fighters \ ToSet(o)), o)
<1> DEFINE S    == Fighters \ ToSet(o)
           back == combatOrder(S)
           n    == Len(o)
           m    == Cardinality(S)
           full == o \o back
<1>1. /\ m \in Nat /\ back \in [1..m -> S]
      /\ \A i, j \in 1..m : back[i] = back[j] => i = j
      /\ \A p \in S : \E i \in 1..m : back[i] = p
  <2>1. S \in SUBSET Fighters
    OBVIOUS
  <2> HIDE DEF S
  <2> QED
    BY <2>1, OrderFacts
<1>2. n \in Nat /\ o \in Seq(Fighters) /\ o \in [1..n -> Fighters]
      /\ (\A i, j \in 1..n : o[i] = o[j] => i = j)
  BY DEF Orders, IsInjective
<1>3. \A i \in 1..n : o[i] \notin S
  BY <1>2 DEF ToSet
<1>4. \A p \in Fighters : p \notin S => \E i \in 1..n : o[i] = p
  BY <1>2 DEF ToSet
<1>5. S \subseteq Fighters
  OBVIOUS
<1> HIDE DEF S, back, m
<1>6. back \in Seq(Fighters) /\ Len(back) = m
  BY <1>1, <1>5
<1>7. full \in Seq(Fighters) /\ Len(full) = n + m /\ DOMAIN full = 1..(n + m)
  BY <1>2, <1>6, <1>1
<1>8. \A i \in 1..(n + m) : full[i] = IF i <= n THEN o[i] ELSE back[i - n]
  BY <1>1, <1>2, <1>6
<1> HIDE DEF full, n
<1>9. \A i, j \in 1..(n + m) : full[i] = full[j] => i = j
  BY <1>1, <1>2, <1>3, <1>8
<1>10. ASSUME NEW p \in Fighters PROVE \E i \in 1..(n + m) : full[i] = p
  <2>1. CASE p \in S
    <3>1. PICK i \in 1..m : back[i] = p
      BY <1>1, <2>1
    <3>2. i + n \in 1..(n + m) /\ full[i + n] = p
      BY <1>1, <1>2, <1>8, <3>1
    <3> QED
      BY <3>2
  <2>2. CASE p \notin S
    <3>1. PICK i \in 1..n : o[i] = p
      BY <1>4, <2>2
    <3>2. i \in 1..(n + m) /\ full[i] = p
      BY <1>1, <1>2, <1>8, <3>1
    <3> QED
      BY <3>2
  <2> QED
    BY <2>1, <2>2
<1>11. full \in Orders /\ ToSet(full) = Fighters
  BY <1>7, <1>9, <1>10 DEF Orders, IsInjective, ToSet
<1>12. Extends(full, o)
  <2>1. \A p \in S : p \notin ToSet(o)
    BY DEF S
  <2>2. ASSUME NEW i \in 1..(n + m), ~ (i <= n) PROVE full[i] \notin ToSet(o)
    <3>1. i - n \in 1..m
      BY <1>1, <1>2, <2>2
    <3>2. back[i - n] \in S
      BY <1>1, <3>1
    <3> QED
      BY <1>8, <2>1, <2>2, <3>2
  <2>3. n = Len(o)
    BY DEF n
  <2> QED
    BY <1>1, <1>2, <1>7, <1>8, <2>2, <2>3 DEF Extends
<1> QED
  BY <1>11, <1>12 DEF full, back, S

(* Whoever is taken out leaves a gap that closes.                            *)
LEMMA ShortenedOrder ==
  ASSUME NEW o \in Orders, NEW p
  PROVE  /\ RemoveFirst(o, p) \in Orders
         /\ ToSet(RemoveFirst(o, p)) = ToSet(o) \ {p}
         /\ Closes(RemoveFirst(o, p), o)
<1> DEFINE n == Len(o)
           k == SelectInSeq(o, LAMBDA v : v = p)
           rest == RemoveFirst(o, p)
<1>1. n \in Nat /\ o \in Seq(Fighters) /\ o \in [1..n -> Fighters]
      /\ (\A i, j \in 1..n : o[i] = o[j] => i = j)
  BY DEF Orders, IsInjective
<1>2. CASE ~ \E i \in 1..n : o[i] = p
  <2>1. rest = o
    BY <1>2 DEF RemoveFirst
  <2>2. p \notin ToSet(o)
    BY <1>1, <1>2 DEF ToSet
  <2>3. Closes(o, o)
    <3>1. n + 1 \in Nat /\ \A i \in 1..n : i < n + 1
      BY <1>1
    <3> QED
      BY <1>1, <3>1 DEF Closes
  <2> QED
    BY <1>1, <2>1, <2>2, <2>3
<1>3. CASE \E i \in 1..n : o[i] = p
  <2>1. k \in 1..n /\ o[k] = p
    <3> DEFINE I == {i \in 1..n : o[i] = p}
    <3>1. I # {} /\ I \in SUBSET Nat
      BY <1>3
    <3>2. k = Min(I)
      BY <3>1 DEF SelectInSeq
    <3> HIDE DEF I, k
    <3>3. k \in I
      BY <3>1, <3>2, MinOf
    <3> QED
      BY <3>3 DEF I
  <2>2. rest = SubSeq(o, 1, k - 1) \o SubSeq(o, k + 1, n)
    BY <1>3 DEF RemoveFirst, RemoveAt
  <2> DEFINE left  == SubSeq(o, 1, k - 1)
             right == SubSeq(o, k + 1, n)
  <2> HIDE DEF k, n
  <2>11. k \in 1..n /\ n \in Nat /\ o \in Seq(Fighters) /\ Len(o) = n
    BY <1>1, <2>1 DEF n
  <2>12. /\ left \in Seq(Fighters) /\ Len(left) = k - 1
         /\ \A i \in 1..(k - 1) : left[i] = o[i]
    BY <2>11
  <2>13. /\ right \in Seq(Fighters) /\ Len(right) = n - k
         /\ \A i \in 1..(n - k) : right[i] = o[i + k]
    BY <2>11
  <2> HIDE DEF left, right, rest
  <2>14. rest = left \o right
    BY <2>2 DEF left, right
  <2>3. rest \in Seq(Fighters) /\ Len(rest) = n - 1
    <3>1. rest \in Seq(Fighters)
      BY <2>12, <2>13, <2>14
    <3>2. Len(rest) = Len(left) + Len(right)
      BY <2>12, <2>13, <2>14, ConcatProperties
    <3> QED
      BY <2>11, <2>12, <2>13, <3>1, <3>2
  <2>4. ASSUME NEW i \in 1..(n - 1) PROVE rest[i] = IF i < k THEN o[i] ELSE o[i + 1]
    <3>1. CASE i < k
      BY <2>11, <2>12, <2>13, <2>14, <3>1
    <3>2. CASE ~ (i < k)
      <4>1. i - (k - 1) \in 1..(n - k) /\ (i - (k - 1)) + k = i + 1
        BY <2>11, <3>2
      <4>2. rest[i] = right[i - (k - 1)]
        BY <2>11, <2>12, <2>13, <2>14, <3>2, <4>1
      <4> QED
        BY <2>13, <3>2, <4>1, <4>2
    <3> QED
      BY <3>1, <3>2
  <2>5. \A i, j \in 1..(n - 1) : rest[i] = rest[j] => i = j
    BY <1>1, <2>1, <2>4
  <2>6. \A i \in 1..(n - 1) : rest[i] # p /\ \E j \in 1..n : o[j] = rest[i]
    BY <1>1, <2>1, <2>4
  <2>7. ASSUME NEW i \in 1..n, o[i] # p PROVE \E j \in 1..(n - 1) : rest[j] = o[i]
    <3>1. CASE i < k
      BY <1>1, <2>1, <2>4, <3>1
    <3>2. CASE i > k
      <4>1. i - 1 \in 1..(n - 1) /\ ~ (i - 1 < k) /\ (i - 1) + 1 = i
        BY <1>1, <2>1, <3>2
      <4> QED
        BY <2>4, <4>1
    <3> QED
      BY <1>1, <2>1, <2>7, <3>1, <3>2
  <2>8. DOMAIN rest = 1..(n - 1) /\ DOMAIN o = 1..n
    BY <1>1, <2>3
  <2>9. rest \in Orders
    BY <2>3, <2>5, <2>8 DEF Orders, IsInjective
  <2>10. ToSet(rest) = ToSet(o) \ {p}
    BY <2>6, <2>7, <2>8 DEF ToSet
  <2>15. Closes(rest, o)
    <3>1. k \in Nat /\ \A i \in 1..(n - 1) : i \in 1..n /\ i + 1 \in 1..n
      BY <1>1, <2>1
    <3>2. n = Len(o)
      BY DEF n
    <3> QED
      BY <2>3, <2>4, <3>1, <3>2 DEF Closes
  <2> QED
    BY <2>9, <2>10, <2>15 DEF rest
<1> QED
  BY <1>2, <1>3

-----------------------------------------------------------------------------
(* Recursion over the amounts of a reply *)

LEMMA UpTo ==
  ASSUME NEW n \in Nat, NEW P, 0 \in P, \A i \in 1..n : i - 1 \in P => i \in P
  PROVE  0..n \subseteq P
<1> DEFINE missed == {i \in 0..n : i \notin P}
<1>1. SUFFICES ASSUME missed # {} PROVE FALSE
  OBVIOUS
<1>2. PICK m \in missed : \A i \in missed : m <= i
  <2>1. missed \in SUBSET Nat
    OBVIOUS
  <2> HIDE DEF missed
  <2> QED
    BY <1>1, <2>1, LeastOf
<1>3. m \in 1..n /\ m - 1 \in 0..n
  BY <1>2
<1>4. m - 1 \in P
  BY <1>2, <1>3
<1> QED
  BY <1>2, <1>3, <1>4

(* Whatever is computed from its predecessor, one step at a time, exists.    *)
Computes(f, m, S, first, step) ==
  /\ f \in [0..m -> S] /\ f[0] = first
  /\ \A i \in 1..m : f[i] = step[i][f[i - 1]]

LEMMA OneMore ==
  ASSUME NEW n \in Nat, NEW S, NEW first \in S, NEW step \in [1..n -> [S -> S]],
         NEW m \in 1..n, NEW f, Computes(f, m - 1, S, first, step)
  PROVE  \E g : Computes(g, m, S, first, step)
<1> DEFINE next == step[m][f[m - 1]]
           g == [i \in 0..m |-> IF i = m THEN next ELSE f[i]]
<1>1. f \in [0..(m - 1) -> S] /\ f[0] = first
  BY DEF Computes
<1>2. next \in S
  BY <1>1
<1> HIDE DEF next
<1>3. g \in [0..m -> S] /\ g[0] = first
  BY <1>1, <1>2
<1>4. ASSUME NEW i \in 1..m PROVE g[i] = step[i][g[i - 1]]
  <2>1. g[i - 1] = f[i - 1]
    OBVIOUS
  <2>2. CASE i = m
    <3>1. g[i] = next
      BY <2>2
    <3> QED
      BY <2>1, <2>2, <3>1 DEF next
  <2>3. CASE i # m
    <3>1. i \in 1..(m - 1) /\ g[i] = f[i]
      BY <2>3
    <3>2. f[i] = step[i][f[i - 1]]
      BY <3>1 DEF Computes
    <3> QED
      BY <2>1, <3>1, <3>2
  <2> QED
    BY <2>2, <2>3
<1>5. Computes(g, m, S, first, step)
  BY <1>3, <1>4 DEF Computes
<1> QED
  BY <1>5

LEMMA Iterated ==
  ASSUME NEW n \in Nat, NEW S, NEW first \in S, NEW step \in [1..n -> [S -> S]]
  PROVE  \E f : Computes(f, n, S, first, step)
<1> DEFINE P == {m \in 0..n : \E f : Computes(f, m, S, first, step)}
<1>1. 0 \in P
  <2>1. Computes([i \in 0..0 |-> first], 0, S, first, step)
    BY DEF Computes
  <2> QED
    BY <2>1
<1>2. ASSUME NEW m \in 1..n, m - 1 \in P PROVE m \in P
  <2>1. \E f : Computes(f, m, S, first, step)
    BY <1>2, OneMore
  <2> QED
    BY <2>1
<1> HIDE DEF P
<1>3. 0..n \subseteq P
  BY <1>1, <1>2, UpTo
<1>4. n \in P
  BY <1>3
<1> QED
  BY <1>4 DEF P

-----------------------------------------------------------------------------
(* The health rules *)

Most   == MaxHp[Player]
Bodies == Healths(Most)

LEMMA MostType == Most \in Nat /\ Most > 0
BY ProfileAssumption, RosterAssumption DEF Most

\* ConditionsAgree, for a given record, but for whoever has no hit points ...
Marked(h) ==
  /\ h.dead => ~h.dying /\ ~h.unc /\ ~h.stab
  /\ h.dying => h.wound /\ ~h.stab
  /\ h.stab => h.wound
\* ... and with them.
Agree(h) == Marked(h) /\ (h.hp = 0 => h.unc \/ h.dead)

\* What blows may do to the conditions of h.
Hurts(h, g) ==
  /\ h.dead => g.dead
  /\ h.dying => g.dying \/ g.dead
  /\ g.stab => h.stab
  /\ h.stab => g.stab \/ g.dying \/ g.dead

LEMMA NewHealthAgrees == NewHealth(Most) \in Bodies /\ Agree(NewHealth(Most))
BY MostType DEF NewHealth, Bodies, Healths, Agree, Marked

LEMMA NormalizedAgrees ==
  ASSUME NEW h \in Bodies, Marked(h)
  PROVE  /\ Normalized(h) \in Bodies /\ Agree(Normalized(h))
         /\ Normalized(h).hp = h.hp /\ Normalized(h).dead = h.dead
         /\ Normalized(h).dying = h.dying /\ Normalized(h).stab = h.stab
         /\ Normalized(h).wound = h.wound
         /\ Normalized(h).unc = (h.unc \/ (h.hp = 0 /\ ~h.dead))
BY DEF Normalized, Bodies, Healths, Agree, Marked

(* A blow leaves the conditions in agreement, whatever the hit points were   *)
(* set to before.                                                            *)
LEMMA DamagedAgrees ==
  ASSUME NEW h \in Bodies, Marked(h), NEW event, NEW conFails \in BOOLEAN
  PROVE  /\ Damaged(h, Most, event, conFails) \in Bodies
         /\ Agree(Damaged(h, Most, event, conFails))
         /\ Damaged(h, Most, event, conFails).hp = h.hp
         /\ Hurts(h, Damaged(h, Most, event, conFails))
<1> DEFINE n     == Normalized(h)
           kills == event.damage >= Most
           major == ~kills /\ event.damage >= MajorWoundThreshold(Most)
           wound == n.wound \/ major
           dying == ~kills /\ (n.dying \/ (event.after = 0 /\ wound))
           unc   == ~kills /\ (n.unc \/ event.after = 0 \/ (major /\ conFails))
           stab  == n.stab /\ ~dying /\ ~kills
           d     == Damaged(h, Most, event, conFails)
<1>1. n \in Bodies /\ Agree(n) /\ n.hp = h.hp
      /\ n.dead = h.dead /\ n.dying = h.dying /\ n.stab = h.stab
  BY NormalizedAgrees
<1>2. CASE n.dead
  BY <1>1, <1>2 DEF Damaged, Hurts, Agree, Marked
<1>3. CASE ~ n.dead
  <2>1. d = [n EXCEPT !.dead = kills, !.wound = wound, !.dying = dying, !.unc = unc, !.stab = stab]
    BY <1>3 DEF Damaged
  <2> HIDE DEF n
  <2>2. /\ kills \in BOOLEAN /\ wound \in BOOLEAN /\ dying \in BOOLEAN /\ unc \in BOOLEAN
        /\ stab \in BOOLEAN
    BY <1>1 DEF Bodies, Healths
  <2>3. /\ kills => ~dying /\ ~unc /\ ~stab
        /\ dying => wound /\ ~stab
        /\ stab => wound
        /\ n.hp = 0 => unc \/ kills
        /\ n.dying => dying \/ kills
        /\ stab => n.stab
        /\ n.stab => stab \/ dying \/ kills
    BY <1>1, <1>3 DEF Agree, Marked, Bodies, Healths
  <2> HIDE DEF kills, major, wound, dying, unc, stab, d
  <2>4. /\ d \in Bodies /\ d.hp = n.hp /\ d.dead = kills /\ d.wound = wound /\ d.dying = dying
        /\ d.unc = unc /\ d.stab = stab
    <3>1. n \in Healths(Most)
      BY <1>1 DEF Bodies
    <3>2. d \in Healths(Most)
      BY <2>1, <2>2, <3>1 DEF Healths
    <3>3. d.hp = n.hp /\ d.dead = kills /\ d.wound = wound
      BY <2>1, <3>1 DEF Healths
    <3>4. d.dying = dying /\ d.unc = unc /\ d.stab = stab
      BY <2>1, <3>1 DEF Healths
    <3> QED
      BY <3>2, <3>3, <3>4 DEF Bodies
  <2>5. Agree(d) /\ Hurts(h, d)
    BY <1>1, <1>3, <2>3, <2>4 DEF Agree, Marked, Hurts
  <2> QED
    BY <1>1, <2>4, <2>5 DEF d
<1> QED
  BY <1>2, <1>3

(* The hit points stay in range after each amount, and without a blow they   *)
(* do not fall.                                                              *)
LEMMA HpAfterFacts ==
  ASSUME NEW hp \in 0..Most, NEW amounts \in Seq(Int)
  PROVE  LET after == HpAfter(hp, Most, amounts)
         IN  /\ after \in [0..Len(amounts) -> 0..Most] /\ after[0] = hp
             /\ (\A i \in 1..Len(amounts) : amounts[i] >= 0) => after[Len(amounts)] >= hp
<1> DEFINE n     == Len(amounts)
           after == HpAfter(hp, Most, amounts)
           step  == [i \in 1..n |-> [x \in 0..Most |-> Clamp(x + amounts[i], 0, Most)]]
           Rule(f) == f = [i \in 0..n |-> IF i = 0 THEN hp
                                          ELSE Clamp(f[i - 1] + amounts[i], 0, Most)]
<1>1. n \in Nat /\ (\A i \in 1..n : amounts[i] \in Int) /\ Most \in Nat
  BY MostType
<1>2. ASSUME NEW i \in 1..n, NEW x \in 0..Most PROVE Clamp(x + amounts[i], 0, Most) \in 0..Most
  <2>1. x + amounts[i] \in Int
    BY <1>1
  <2> QED
    BY <1>1, <2>1, ClampType
<1> HIDE DEF n
<1>3. step \in [1..n -> [0..Most -> 0..Most]]
  BY <1>2
<1>4. PICK f : Computes(f, n, 0..Most, hp, step)
  <2> HIDE DEF step
  <2> QED
    BY <1>1, <1>3, Iterated
<1>5. f \in [0..n -> 0..Most] /\ f[0] = hp
      /\ \A i \in 1..n : f[i] = Clamp(f[i - 1] + amounts[i], 0, Most)
  <2>1. f \in [0..n -> 0..Most] /\ f[0] = hp /\ \A i \in 1..n : f[i] = step[i][f[i - 1]]
    BY <1>4 DEF Computes
  <2>2. \A i \in 1..n : f[i - 1] \in 0..Most
    BY <1>1, <2>1
  <2> QED
    BY <2>1, <2>2
<1>6. Rule(f)
  BY <1>5
<1>7. after = CHOOSE g : Rule(g)
  BY DEF HpAfter, n
<1>8. Rule(after)
  <2> HIDE DEF Rule, after
  <2> QED
    BY <1>6, <1>7
<1>9. DOMAIN after = 0..n /\ after[0] = hp
      /\ \A i \in 1..n : after[i] = Clamp(after[i - 1] + amounts[i], 0, Most)
  <2> HIDE DEF after
  <2>1. after = [i \in 0..n |-> IF i = 0 THEN hp ELSE Clamp(after[i - 1] + amounts[i], 0, Most)]
    BY <1>8
  <2>2. 0 \in 0..n /\ \A i \in 1..n : i \in 0..n /\ i # 0
    BY <1>1
  <2> QED
    BY <2>1, <2>2
<1> HIDE DEF after
<1>10. \A i \in 0..n : after[i] \in 0..Most
  <2> DEFINE P == {i \in 0..n : after[i] \in 0..Most}
  <2>1. 0 \in P
    BY <1>1, <1>9
  <2>2. ASSUME NEW i \in 1..n, i - 1 \in P PROVE i \in P
    <3>1. after[i - 1] \in 0..Most /\ i \in 0..n
      BY <1>1, <2>2
    <3> QED
      BY <1>2, <1>9, <3>1
  <2>3. 0..n \subseteq P
    <3> HIDE DEF P
    <3> QED
      BY <1>1, <2>1, <2>2, UpTo
  <2> QED
    BY <2>3
<1>11. ASSUME \A i \in 1..n : amounts[i] >= 0 PROVE after[n] >= hp
  <2> DEFINE P == {i \in 0..n : after[i] >= hp}
  <2>1. 0 \in P
    BY <1>1, <1>9
  <2>2. ASSUME NEW i \in 1..n, i - 1 \in P PROVE i \in P
    <3>1. after[i - 1] \in 0..Most /\ after[i - 1] >= hp
      BY <1>10, <2>2
    <3>2. after[i] = Clamp(after[i - 1] + amounts[i], 0, Most) /\ amounts[i] \in Nat
      BY <1>1, <1>9, <1>11
    <3> QED
      BY <1>1, <3>1, <3>2 DEF Clamp
  <2>3. 0..n \subseteq P
    <3> HIDE DEF P
    <3> QED
      BY <1>1, <2>1, <2>2, UpTo
  <2> QED
    BY <1>1, <2>3
<1>12. after \in [0..n -> 0..Most]
  <2>1. after = [i \in 0..n |-> after[i]]
    BY <1>8, <1>9 DEF after
  <2> QED
    BY <1>10, <2>1
<1> QED
  BY <1>9, <1>11, <1>12 DEF after, n

LEMMA HurtsTransitive ==
  ASSUME NEW f, NEW g, NEW h, Hurts(f, g), Hurts(g, h)
  PROVE  Hurts(f, h)
BY DEF Hurts

(* A commit of hit points leaves the conditions in agreement: its blows      *)
(* classify themselves, and without a blow nobody falls.                     *)
LEMMA AdjustHpAgrees ==
  ASSUME NEW h \in Bodies, Agree(h), NEW amounts \in Seq(Int), NEW conFails \in BOOLEAN
  PROVE  /\ AdjustHp(h, Most, amounts, conFails) \in Bodies
         /\ Agree(AdjustHp(h, Most, amounts, conFails))
         /\ Hurts(h, AdjustHp(h, Most, amounts, conFails))
         /\ amounts = <<>> => AdjustHp(h, Most, amounts, conFails) = h
<1> DEFINE n        == Len(amounts)
           after    == HpAfter(h.hp, Most, amounts)
           first    == [h EXCEPT !.hp = after[n]]
           Event(i) == [damage |-> -amounts[i], after |-> after[i]]
           After(g, i) == IF amounts[i] >= 0 THEN g ELSE Damaged(g, Most, Event(i), conFails)
           S        == {g \in Bodies : Marked(g) /\ g.hp = after[n] /\ Hurts(h, g)}
           step     == [i \in 1..n |-> [g \in S |-> After(g, i)]]
           Rule(f)  == f = [i \in 0..n |-> IF i = 0 THEN first
                                           ELSE IF amounts[i] >= 0 THEN f[i - 1]
                                           ELSE Damaged(f[i - 1], Most, Event(i), conFails)]
           upTo     == CHOOSE f : Rule(f)
<1>1. n \in Nat /\ (\A i \in 1..n : amounts[i] \in Int) /\ h.hp \in 0..Most
  BY DEF Bodies, Healths
<1>2. /\ after[n] \in 0..Most
      /\ (\A i \in 1..n : amounts[i] >= 0) => after[n] >= h.hp
  BY <1>1, HpAfterFacts
<1>3. AdjustHp(h, Most, amounts, conFails) = upTo[n]
  BY DEF AdjustHp
<1> HIDE DEF after, n
<1>4. first \in S
  <2>1. first \in Bodies /\ first.hp = after[n] /\ first.dead = h.dead /\ first.dying = h.dying
        /\ first.stab = h.stab /\ first.wound = h.wound /\ first.unc = h.unc
    BY <1>2 DEF Bodies, Healths
  <2> HIDE DEF first
  <2> QED
    BY <2>1 DEF Agree, Marked, Hurts
<1>5. ASSUME NEW g \in S, NEW i \in 1..n
      PROVE  After(g, i) \in S /\ (amounts[i] < 0 => Agree(After(g, i)))
  <2>1. amounts[i] \in Int
    BY <1>1
  <2>2. CASE amounts[i] >= 0
    BY <2>1, <2>2
  <2>3. CASE ~ (amounts[i] >= 0)
    <3> DEFINE d == Damaged(g, Most, Event(i), conFails)
    <3>1. d \in Bodies /\ Agree(d) /\ d.hp = g.hp /\ Hurts(g, d)
      BY DamagedAgrees
    <3>2. Hurts(h, d)
      BY <3>1, HurtsTransitive
    <3>3. After(g, i) = d
      BY <2>3
    <3> HIDE DEF d
    <3> QED
      BY <3>1, <3>2, <3>3 DEF Agree
  <2> QED
    BY <2>2, <2>3
<1>6. step \in [1..n -> [S -> S]]
  <2> HIDE DEF S
  <2> QED
    BY <1>5
<1>7. \E f : Rule(f)
  <2> HIDE DEF S, step, first
  <2>1. PICK f : Computes(f, n, S, first, step)
    BY <1>1, <1>4, <1>6, Iterated
  <2>2. f \in [0..n -> S] /\ f[0] = first /\ \A i \in 1..n : f[i] = step[i][f[i - 1]]
    BY <2>1 DEF Computes
  <2>3. \A i \in 1..n : f[i - 1] \in S
    BY <1>1, <2>2
  <2>4. \A i \in 1..n : f[i] = After(f[i - 1], i)
    BY <2>2, <2>3 DEF step
  <2> QED
    BY <1>1, <2>2, <2>4
<1>8. Rule(upTo)
  <2> HIDE DEF Rule
  <2> QED
    BY <1>7
<1>9. upTo[0] = first /\ \A i \in 1..n : upTo[i] = After(upTo[i - 1], i)
  <2> HIDE DEF upTo, first
  <2>1. upTo = [i \in 0..n |-> IF i = 0 THEN first
                                ELSE IF amounts[i] >= 0 THEN upTo[i - 1]
                                ELSE Damaged(upTo[i - 1], Most, Event(i), conFails)]
    BY <1>8
  <2>2. 0 \in 0..n /\ \A i \in 1..n : i \in 0..n /\ i # 0
    BY <1>1
  <2> QED
    BY <2>1, <2>2
<1> DEFINE Untouched(i) == /\ upTo[i] = first
                           /\ \A j \in 1..i : amounts[j] >= 0
           P == {i \in 0..n : upTo[i] \in S /\ (Untouched(i) \/ Agree(upTo[i]))}
<1> HIDE DEF upTo, After
<1>10. 0..n \subseteq P
  <2>1. 0 \in P
    BY <1>1, <1>4, <1>9
  <2>2. ASSUME NEW i \in 1..n, i - 1 \in P PROVE i \in P
    <3>1. i \in 0..n /\ upTo[i - 1] \in S /\ (Untouched(i - 1) \/ Agree(upTo[i - 1]))
          /\ amounts[i] \in Int
      BY <1>1, <2>2
    <3>2. upTo[i] = After(upTo[i - 1], i)
      BY <1>9
    <3> HIDE DEF S
    <3>3. upTo[i] \in S /\ (amounts[i] < 0 => Agree(upTo[i]))
      BY <1>5, <3>1, <3>2
    <3>4. CASE amounts[i] >= 0
      <4>1. upTo[i] = upTo[i - 1]
        BY <3>2, <3>4 DEF After
      <4>2. Untouched(i - 1) => Untouched(i)
        BY <1>1, <3>4, <4>1
      <4> QED
        BY <3>1, <3>3, <4>1, <4>2
    <3> QED
      BY <3>1, <3>3, <3>4
  <2> HIDE DEF P
  <2> QED
    BY <1>1, <2>1, <2>2, UpTo
<1>11. upTo[n] \in S /\ (Untouched(n) \/ Agree(upTo[n]))
  BY <1>1, <1>10
<1>12. ASSUME Untouched(n) PROVE Agree(upTo[n])
  <2>1. first.hp = after[n] /\ first.unc = h.unc /\ first.dead = h.dead
    BY DEF Bodies, Healths
  <2>2. after[n] >= h.hp
    BY <1>2, <1>12
  <2>3. after[n] = 0 => h.hp = 0
    BY <1>1, <1>2, <2>2
  <2>4. Agree(first)
    BY <1>4, <2>1, <2>3 DEF Agree
  <2> QED
    BY <1>12, <2>4
<1>13. upTo[n] \in Bodies /\ Agree(upTo[n]) /\ Hurts(h, upTo[n])
  BY <1>11, <1>12
<1>14. ASSUME amounts = <<>> PROVE upTo[n] = h
  <2>1. n = 0
    BY <1>14 DEF n
  <2>2. after[0] = h.hp
    BY <1>1, HpAfterFacts DEF after
  <2>3. first = h
    BY <2>1, <2>2 DEF Bodies, Healths
  <2> QED
    BY <1>9, <2>1, <2>3
<1> QED
  BY <1>3, <1>13, <1>14

\* What care may do to the conditions of h, who is not dead.
SameLife(h, g) == g.dead = h.dead /\ g.dying = h.dying /\ g.stab = h.stab

LEMMA DyingRoundAgrees ==
  ASSUME NEW h \in Bodies, Agree(h), CanAdvanceDying(h), NEW passes \in BOOLEAN
  PROVE  /\ DyingRound(h, passes) \in Bodies
         /\ Agree(DyingRound(h, passes))
         /\ DyingRound(h, passes).hp = h.hp
         /\ h.dying /\ ~h.dead
         /\ DyingRound(h, passes).dead \/ SameLife(h, DyingRound(h, passes))
<1> DEFINE n == Normalized(h)
<1>1. n \in Bodies /\ Agree(n) /\ n.hp = h.hp /\ n.dead = h.dead /\ n.dying = h.dying
      /\ n.stab = h.stab
  BY NormalizedAgrees DEF Agree
<1>2. h.dying /\ ~h.dead
  BY <1>1 DEF CanAdvanceDying
<1>3. DyingRound(h, passes) =
        IF passes THEN n
        ELSE [n EXCEPT !.dead = TRUE, !.dying = FALSE, !.unc = FALSE, !.stab = FALSE]
  BY DEF DyingRound
<1> HIDE DEF n
<1> QED
  BY <1>1, <1>2, <1>3 DEF Bodies, Healths, Agree, Marked, SameLife

LEMMA FirstAidAgrees ==
  ASSUME NEW h \in Bodies, Agree(h), CanTreat(h, Most)
  PROVE  /\ FirstAid(h, Most) \in Bodies
         /\ Agree(FirstAid(h, Most))
         /\ ~h.dead /\ ~FirstAid(h, Most).dead /\ ~FirstAid(h, Most).dying
         /\ FirstAid(h, Most).stab = (h.stab \/ h.dying)
<1> DEFINE n  == Normalized(h)
           hp == Clamp(n.hp + 1, 0, Most)
           g  == FirstAid(h, Most)
<1>1. n \in Bodies /\ Agree(n) /\ n.hp = h.hp /\ n.dead = h.dead /\ n.dying = h.dying
      /\ n.stab = h.stab /\ ~h.dead
  BY NormalizedAgrees DEF Agree, CanTreat
<1>2. hp \in 0..Most /\ hp # 0
  BY <1>1, MostType DEF Clamp, Bodies, Healths
<1>3. g = [n EXCEPT !.hp = hp, !.stab = n.stab \/ n.dying, !.dying = FALSE, !.unc = FALSE]
  BY DEF FirstAid
<1> HIDE DEF n, hp, g
<1>4. /\ g \in Bodies /\ g.hp = hp /\ g.stab = (n.stab \/ n.dying) /\ g.dying = FALSE
      /\ g.unc = FALSE /\ g.dead = n.dead /\ g.wound = n.wound
  BY <1>1, <1>2, <1>3 DEF Bodies, Healths
<1> QED
  BY <1>1, <1>2, <1>4 DEF Agree, Marked, g

LEMMA NaturalDayAgrees ==
  ASSUME NEW h \in Bodies, Agree(h)
  PROVE  /\ NaturalDay(h, Most) \in Bodies
         /\ Agree(NaturalDay(h, Most))
         /\ SameLife(h, NaturalDay(h, Most))
<1> DEFINE n  == Normalized(h)
           hp == Clamp(n.hp + 1, 0, Most)
           g  == NaturalDay(h, Most)
<1>1. n \in Bodies /\ Agree(n) /\ n.hp = h.hp /\ n.dead = h.dead /\ n.dying = h.dying
      /\ n.stab = h.stab
  BY NormalizedAgrees DEF Agree
<1>2. hp \in 0..Most /\ hp # 0
  BY <1>1, MostType DEF Clamp, Bodies, Healths
<1>3. g = [n EXCEPT !.hp = hp]
  BY DEF NaturalDay
<1> HIDE DEF n, hp, g
<1>4. /\ g \in Bodies /\ g.hp = hp /\ g.stab = n.stab /\ g.dying = n.dying
      /\ g.unc = n.unc /\ g.dead = n.dead /\ g.wound = n.wound
  BY <1>1, <1>2, <1>3 DEF Bodies, Healths
<1> QED
  BY <1>1, <1>2, <1>4 DEF Agree, Marked, SameLife, g

\* Hit points gained after normalizing.
Gained(h, gain) == [Normalized(h) EXCEPT !.hp = Clamp(@ + gain, 0, Most)]

LEMMA GainedAgrees ==
  ASSUME NEW h \in Bodies, Agree(h), NEW gain \in Nat
  PROVE  /\ Gained(h, gain) \in Bodies
         /\ Agree(Gained(h, gain))
         /\ SameLife(h, Gained(h, gain))
<1> DEFINE n  == Normalized(h)
           hp == Clamp(n.hp + gain, 0, Most)
           g  == Gained(h, gain)
<1>1. n \in Bodies /\ Agree(n) /\ n.hp = h.hp /\ n.dead = h.dead /\ n.dying = h.dying
      /\ n.stab = h.stab
  BY NormalizedAgrees DEF Agree
<1>2. hp \in 0..Most /\ (hp = 0 => n.hp = 0)
  BY <1>1, MostType DEF Clamp, Bodies, Healths
<1>3. g = [n EXCEPT !.hp = hp]
  BY DEF Gained
<1> HIDE DEF n, hp, g
<1>4. /\ g \in Bodies /\ g.hp = hp /\ g.stab = n.stab /\ g.dying = n.dying
      /\ g.unc = n.unc /\ g.dead = n.dead /\ g.wound = n.wound
  BY <1>1, <1>2, <1>3 DEF Bodies, Healths
<1> QED
  BY <1>1, <1>2, <1>4 DEF Agree, Marked, SameLife, g

\* A wound that closes takes the stabilization with it.
Recovers(h, g) == g.dead = h.dead /\ g.dying = h.dying /\ (g.stab => h.stab)

LEMMA ClearedAgrees ==
  ASSUME NEW h \in Bodies, Agree(h), ~h.dying, NEW extreme \in BOOLEAN
  PROVE  /\ MaybeClearMajorWound(h, Most, extreme) \in Bodies
         /\ Agree(MaybeClearMajorWound(h, Most, extreme))
         /\ Recovers(h, MaybeClearMajorWound(h, Most, extreme))
BY DEF MaybeClearMajorWound, Bodies, Healths, Agree, Marked, Recovers

LEMMA WeekAgrees ==
  ASSUME NEW h \in Bodies, Agree(h), CanRollWeek(h),
         NEW level \in {"failure", "success", "extreme"}, NEW gain \in WeekGains(level)
  PROVE  /\ MajorWoundWeek(h, Most, level, gain) \in Bodies
         /\ Agree(MajorWoundWeek(h, Most, level, gain))
         /\ Recovers(h, MajorWoundWeek(h, Most, level, gain))
<1>1. gain \in Nat
  BY DEF WeekGains
<1>2. Gained(h, gain) \in Bodies /\ Agree(Gained(h, gain)) /\ SameLife(h, Gained(h, gain))
  BY <1>1, GainedAgrees
<1>3. ~Gained(h, gain).dying
  BY <1>2 DEF SameLife, CanRollWeek
<1>4. MajorWoundWeek(h, Most, level, gain)
        = MaybeClearMajorWound(Gained(h, gain), Most, level = "extreme")
  BY DEF MajorWoundWeek, Gained
<1> DEFINE g == MaybeClearMajorWound(Gained(h, gain), Most, level = "extreme")
<1>5. g \in Bodies /\ Agree(g) /\ Recovers(Gained(h, gain), g)
  BY <1>2, <1>3, ClearedAgrees
<1> HIDE DEF g
<1> QED
  BY <1>2, <1>4, <1>5 DEF SameLife, Recovers, g

LEMMA MedicineAgrees ==
  ASSUME NEW h \in Bodies, Agree(h), CanUseMedicine(h, Most),
         NEW success \in BOOLEAN, NEW gain \in MedicineGains(success)
  PROVE  /\ Medicine(h, Most, success, gain) \in Bodies
         /\ Agree(Medicine(h, Most, success, gain))
         /\ Recovers(h, Medicine(h, Most, success, gain))
<1>1. gain \in Nat
  BY DEF MedicineGains
<1>2. Gained(h, gain) \in Bodies /\ Agree(Gained(h, gain)) /\ SameLife(h, Gained(h, gain))
  BY <1>1, GainedAgrees
<1>3. ~Gained(h, gain).dying
  BY <1>2 DEF SameLife, CanUseMedicine
<1> DEFINE g == MaybeClearMajorWound(Gained(h, gain), Most, FALSE)
<1>4. Medicine(h, Most, success, gain) = IF success THEN g ELSE Gained(h, gain)
  BY DEF Medicine, Gained
<1>5. g \in Bodies /\ Agree(g) /\ Recovers(Gained(h, gain), g)
  BY <1>2, <1>3, ClearedAgrees
<1> HIDE DEF g
<1> QED
  BY <1>2, <1>4, <1>5 DEF SameLife, Recovers

-----------------------------------------------------------------------------
(* The state of a combat, as the handlers pass it on *)

Combats ==
  [on : BOOLEAN, round : Nat, turn : Nat, order : Orders, acted : [Fighters -> Nat],
   hp : [Opponents -> Nat], body : 0..Most, up : [Fighters -> BOOLEAN],
   forfeit : [Fighters -> 0..1], observed : Nat, lastCheck : Nat]
Pasts  == [unchecked : 0..2, outside : BOOLEAN, lost : BOOLEAN]
States == [c : Combats, h : Bodies, p : Pasts]

\* A round was ended without a check once: the dying was first seen in the
\* round that ended, and is due for a check at the end of this one.
Punctual(c, p) ==
  p.unchecked > 0 =>
    p.unchecked = 1 /\ c.observed # 0 /\ c.observed < c.round /\ c.lastCheck < c.round

\* What every intermediate state of a handler keeps ...
Ordered(c) ==
  /\ c.round > 0 /\ c.observed <= c.round /\ c.lastCheck <= c.round
  /\ \A q \in Fighters : c.up[q] => q \in ToSet(c.order)
Fit(s) ==
  /\ s \in States /\ Agree(s.h)
  /\ \A q \in Opponents : s.c.hp[q] <= MaxHp[q]
  /\ s.c.on => Ordered(s.c) /\ Punctual(s.c, s.p)

\* ... and what it owes when it is done.
Standing(c) == \E q \in Opponents : c.up[q] /\ c.hp[q] > 0
Alive(s)    == s.p.outside \/ ~s.h.dead
Sound(s) ==
  /\ Fit(s)
  /\ s.c.on => Standing(s.c) /\ Alive(s) /\ s.c.turn < Len(s.c.order)

\* A combat whose order, fighters and rounds are those of another.
SameFight(c, d) ==
  /\ d.on = c.on /\ d.round = c.round /\ d.turn = c.turn /\ d.order = c.order
  /\ d.hp = c.hp /\ d.body = c.body /\ d.up = c.up /\ d.lastCheck = c.lastCheck
  /\ d.acted = c.acted

\* Who is before the turn has had one in this round, and who still fights had
\* it once; who is at the turn or behind it and still fights has had none.
InTurn(c) ==
  \A i \in 1..Len(c.order) :
    IF i <= c.turn
    THEN c.acted[c.order[i]] >= 1 /\ (c.up[c.order[i]] => c.acted[c.order[i]] = 1)
    ELSE c.up[c.order[i]] => c.acted[c.order[i]] = 0

\* The first turn of the round after another one.
NewRound(c, d) ==
  /\ d.round = c.round + 1 /\ d.turn = 0 /\ d.order = c.order /\ d.up = c.up
  /\ \A q \in Fighters : d.acted[q] = 0

LEMMA ObserveFacts ==
  ASSUME NEW s \in States, Fit(s), s.c.on
  PROVE  /\ Fit(Observe(s)) /\ SameFight(s.c, Observe(s).c)
         /\ Observe(s).h = s.h /\ Observe(s).p.outside = s.p.outside
         /\ CanAdvanceDying(s.h) => Observe(s).c.observed # 0
         /\ ~CanAdvanceDying(s.h) => Observe(s).p.unchecked = 0
         /\ Observe(s).c.observed <= s.c.round
<1> DEFINE o == Observed(s.c, s.h)
           u == IF CanAdvanceDying(s.h) THEN s.p.unchecked ELSE 0
           t == Observe(s)
<1>1. s.c \in Combats /\ s.h \in Bodies /\ s.p \in Pasts
  BY DEF States
<1>2. o \in Nat /\ u \in 0..2 /\ o <= s.c.round
      /\ (CanAdvanceDying(s.h) => o # 0 /\ (s.c.observed # 0 => o = s.c.observed))
  BY <1>1 DEF Observed, Combats, Pasts, Fit, Ordered
<1>3. t = [s EXCEPT !.c = [s.c EXCEPT !.observed = o], !.p = [s.p EXCEPT !.unchecked = u]]
  BY <1>1 DEF Observe, States, Combats, Pasts
<1> HIDE DEF o, t
<1>4. t.c = [s.c EXCEPT !.observed = o] /\ t.h = s.h /\ t.p = [s.p EXCEPT !.unchecked = u]
      /\ t = [c |-> t.c, h |-> t.h, p |-> t.p]
  BY <1>3 DEF States
<1>5. t.c \in Combats /\ SameFight(s.c, t.c) /\ t.c.observed = o
  <2>1. [s.c EXCEPT !.observed = o] \in Combats
    BY <1>1, <1>2 DEF Combats
  <2>2. SameFight(s.c, [s.c EXCEPT !.observed = o]) /\ [s.c EXCEPT !.observed = o].observed = o
    BY <1>1 DEF Combats, SameFight
  <2> QED
    BY <1>4, <2>1, <2>2
<1>6. t.p \in Pasts /\ t.p.unchecked = u /\ t.p.outside = s.p.outside
  BY <1>1, <1>2, <1>4 DEF Pasts
<1>7. t \in States
  BY <1>1, <1>4, <1>5, <1>6 DEF States
<1>8. Ordered(t.c)
  BY <1>2, <1>5 DEF Fit, Ordered, SameFight
<1>9. Punctual(t.c, t.p)
  <2>1. CASE CanAdvanceDying(s.h)
    BY <1>2, <1>5, <1>6, <2>1 DEF Fit, Punctual, SameFight
  <2>2. CASE ~CanAdvanceDying(s.h)
    BY <1>6, <2>2 DEF Punctual
  <2> QED
    BY <2>1, <2>2
<1>10. Fit(t)
  BY <1>4, <1>5, <1>7, <1>8, <1>9 DEF Fit, SameFight
<1> QED
  BY <1>2, <1>4, <1>5, <1>6, <1>10 DEF t

LEMMA DyingRoundHurts ==
  ASSUME NEW h \in Bodies, Agree(h), CanAdvanceDying(h), NEW passes \in BOOLEAN
  PROVE  Hurts(h, DyingRound(h, passes))
BY DyingRoundAgrees DEF Hurts, SameLife, Agree, Marked

(* The end of a round leaves a combat that can go on, and no check is        *)
(* missed twice.                                                             *)
LEMMA RoundWrapSound ==
  ASSUME NEW start \in States, Fit(start), start.c.on, Standing(start.c), Alive(start),
         Len(start.c.order) > 0, NEW passes \in BOOLEAN
  PROVE  /\ Sound(RoundWrap(start, passes))
         /\ Hurts(start.h, RoundWrap(start, passes).h)
         /\ RoundWrap(start, passes).c.on => NewRound(start.c, RoundWrap(start, passes).c)
<1> DEFINE s   == Observe(start)
           due == DyingCheckDue(s.c, s.h)
           h   == IF due THEN DyingRound(s.h, passes) ELSE s.h
           c   == IF due THEN [s.c EXCEPT !.lastCheck = s.c.round] ELSE s.c
           u   == IF CanAdvanceDying(s.h) /\ ~due THEN Min({2, s.p.unchecked + 1}) ELSE 0
           p   == [s.p EXCEPT !.unchecked = u]
           over == [c |-> [c EXCEPT !.on = FALSE], h |-> h, p |-> p]
           d   == [c EXCEPT !.round = @ + 1, !.turn = 0, !.acted = [q \in Fighters |-> 0]]
           m   == [c |-> d, h |-> h, p |-> p]
<1>1. /\ Fit(s) /\ SameFight(start.c, s.c) /\ s.h = start.h /\ s.p.outside = start.p.outside
      /\ CanAdvanceDying(s.h) => s.c.observed # 0
  BY ObserveFacts
<1>2. /\ s.c \in Combats /\ s.h \in Bodies /\ s.p \in Pasts /\ Agree(s.h) /\ s.c.on
      /\ Ordered(s.c) /\ Punctual(s.c, s.p)
      /\ \A q \in Opponents : s.c.hp[q] <= MaxHp[q]
  BY <1>1 DEF Fit, States, SameFight
<1>3. RoundWrap(start, passes) = IF due /\ h.dead THEN over ELSE Observe(m)
  BY DEF RoundWrap
<1> HIDE DEF s
<1>4. due => CanAdvanceDying(s.h)
  BY DEF DyingCheckDue
<1>5. h \in Bodies /\ Agree(h) /\ Hurts(s.h, h)
  <2>1. Hurts(s.h, s.h)
    BY DEF Hurts
  <2> QED
    BY <1>2, <1>4, <2>1, DyingRoundAgrees, DyingRoundHurts
<1>6. /\ c \in Combats /\ c.on /\ c.round = s.c.round /\ c.order = s.c.order /\ c.hp = s.c.hp
      /\ c.up = s.c.up /\ c.observed = s.c.observed /\ c.body = s.c.body
      /\ c.lastCheck = IF due THEN s.c.round ELSE s.c.lastCheck
  <2>1. CASE due
    BY <1>2, <2>1 DEF Combats
  <2>2. CASE ~due
    BY <1>2, <2>2 DEF Combats
  <2> QED
    BY <2>1, <2>2
<1>7. /\ u \in 0..2
      /\ u > 0 => u = 1 /\ s.c.observed # 0
  <2>1. s.p.unchecked \in 0..2
    BY <1>2 DEF Pasts
  <2>2. Min({2, s.p.unchecked + 1}) = IF 2 <= s.p.unchecked + 1 THEN 2 ELSE s.p.unchecked + 1
    BY <2>1, MinOfTwo
  <2>3. CASE CanAdvanceDying(s.h) /\ ~due
    <3>1. ~ (s.c.round > s.c.observed /\ s.c.lastCheck # s.c.round)
      BY <1>1, <2>3 DEF DyingCheckDue
    <3>2. s.p.unchecked = 0
      BY <1>2, <2>1, <3>1 DEF Punctual, Ordered, Combats
    <3> QED
      BY <1>1, <2>2, <2>3, <3>2
  <2> QED
    BY <2>3
<1>8. p \in Pasts /\ p.unchecked = u /\ p.outside = s.p.outside
  BY <1>2, <1>7 DEF Pasts
<1> HIDE DEF due, h, c, u, p
<1>9. CASE due /\ h.dead
  <2> DEFINE e == [c EXCEPT !.on = FALSE]
  <2>1. e \in Combats /\ e.on = FALSE /\ e.hp = c.hp
    BY <1>6 DEF Combats
  <2>2. over = [c |-> e, h |-> h, p |-> p]
    OBVIOUS
  <2> HIDE DEF e, over
  <2>3. Sound(over) /\ over.h = h /\ ~over.c.on
    BY <1>2, <1>5, <1>6, <1>8, <2>1, <2>2 DEF Sound, Fit, States
  <2> QED
    BY <1>1, <1>3, <1>5, <1>9, <2>3
<1>10. CASE ~(due /\ h.dead)
  <2>1. /\ d \in Combats /\ d.on /\ d.round = c.round + 1 /\ d.turn = 0 /\ d.order = c.order
        /\ d.hp = c.hp /\ d.up = c.up /\ d.observed = c.observed /\ d.lastCheck = c.lastCheck
        /\ \A q \in Fighters : d.acted[q] = 0
    <3> DEFINE idle == [q \in Fighters |-> 0]
    <3>1. /\ c.round + 1 \in Nat /\ idle \in [Fighters -> Nat]
          /\ \A q \in Fighters : idle[q] = 0
      BY <1>6 DEF Combats
    <3>2. d = [c EXCEPT !.round = c.round + 1, !.turn = 0, !.acted = idle]
      OBVIOUS
    <3> HIDE DEF idle, d
    <3> QED
      BY <1>6, <3>1, <3>2 DEF Combats
  <2>2. h.dead => s.h.dead
    <3>1. CASE due
      BY <1>10, <3>1
    <3>2. CASE ~due
      BY <3>2 DEF h
    <3> QED
      BY <3>1, <3>2
  <2> HIDE DEF d
  <2>3. m \in States /\ m.c = d /\ m.h = h /\ m.p = p
    BY <1>5, <1>8, <2>1 DEF States
  <2> HIDE DEF m
  <2>4. Ordered(d) /\ d.observed < d.round /\ d.lastCheck < d.round
    <3>1. s.c.round \in Nat /\ s.c.observed \in Nat /\ s.c.lastCheck \in Nat
      BY <1>2 DEF Combats
    <3> QED
      BY <1>2, <1>6, <2>1, <3>1 DEF Ordered
  <2>5. Punctual(d, p)
    BY <1>6, <1>7, <1>8, <2>1, <2>4 DEF Punctual
  <2>6. Fit(m)
    BY <1>2, <1>5, <1>6, <2>1, <2>3, <2>4, <2>5 DEF Fit
  <2>7. Standing(d) /\ Alive(m) /\ d.turn < Len(d.order)
    BY <1>1, <1>6, <1>8, <2>1, <2>2, <2>3 DEF Standing, Alive, SameFight
  <2>8. Sound(Observe(m)) /\ Observe(m).h = h /\ NewRound(start.c, Observe(m).c)
    <3>1. /\ Fit(Observe(m)) /\ SameFight(d, Observe(m).c) /\ Observe(m).h = h
          /\ Observe(m).p.outside = p.outside
      BY <2>1, <2>3, <2>6, ObserveFacts
    <3>2. NewRound(start.c, Observe(m).c)
      BY <1>1, <1>6, <2>1, <3>1 DEF SameFight, NewRound
    <3>3. Sound(Observe(m))
      BY <2>3, <2>7, <3>1 DEF Sound, SameFight, Standing, Alive
    <3> QED
      BY <3>1, <3>2, <3>3
  <2> QED
    BY <1>1, <1>3, <1>5, <1>10, <2>8
<1> QED
  BY <1>9, <1>10

-----------------------------------------------------------------------------
(* Turns *)

LEMMA NormalizedCombatFacts ==
  ASSUME NEW c \in Combats
  PROVE  LET d == NormalizedCombat(c)
         IN  /\ d \in Combats /\ d.on = c.on /\ d.round = c.round /\ d.acted = c.acted
             /\ d.body = c.body /\ d.up = c.up /\ d.forfeit = c.forfeit
             /\ d.observed = c.observed /\ d.lastCheck = c.lastCheck
             /\ ToSet(d.order) = Fighters /\ Len(d.order) = Len(Roster)
             /\ Extends(d.order, c.order)
             /\ d.turn \in 0..(Len(Roster) - 1) /\ d.turn = c.turn % Len(Roster)
             /\ \A q \in Opponents : d.hp[q] = IF c.hp[q] = 0 THEN MaxHp[q] ELSE c.hp[q]
<1> DEFINE order == c.order \o combatOrder(Fighters \ ToSet(c.order))
           hp    == [q \in Opponents |-> IF c.hp[q] = 0 THEN MaxHp[q] ELSE c.hp[q]]
           turn  == c.turn % Len(Roster)
           d     == NormalizedCombat(c)
<1>1. order \in Orders /\ ToSet(order) = Fighters /\ Extends(order, c.order)
  <2>1. c.order \in Orders
    BY DEF Combats
  <2> QED
    BY <2>1, RefilledOrder
<1>2. hp \in [Opponents -> Nat]
      /\ \A q \in Opponents : hp[q] = IF c.hp[q] = 0 THEN MaxHp[q] ELSE c.hp[q]
  <2>1. \A q \in Opponents : MaxHp[q] \in Nat /\ c.hp[q] \in Nat
    BY ProfileAssumption DEF Combats, Opponents
  <2> QED
    BY <2>1
<1>3. turn \in 0..(Len(Roster) - 1)
  <2>1. c.turn \in Nat
    BY DEF Combats
  <2> QED
    BY <2>1, RosterFacts
<1>4. Len(order) = Len(Roster)
  BY <1>1, OrderLength
<1>5. d = [c EXCEPT !.order = order, !.hp = hp, !.turn = turn]
  <2>1. c.hp \in [Opponents -> Nat]
    BY DEF Combats
  <2> QED
    BY <2>1 DEF NormalizedCombat
<1>6. turn \in Nat
  BY <1>3
<1> HIDE DEF order, hp, turn, d
<1>7. d \in Combats
  BY <1>1, <1>2, <1>5, <1>6 DEF Combats
<1>8. /\ d.on = c.on /\ d.round = c.round /\ d.acted = c.acted /\ d.body = c.body /\ d.up = c.up
      /\ d.forfeit = c.forfeit /\ d.observed = c.observed /\ d.lastCheck = c.lastCheck
      /\ d.order = order /\ d.hp = hp /\ d.turn = turn
  BY <1>5 DEF Combats
<1> QED
  BY <1>1, <1>2, <1>3, <1>4, <1>7, <1>8 DEF d, turn

(* A place within the order is not taken back to its beginning.              *)
LEMMA WithinTheOrder ==
  ASSUME NEW a \in Nat, NEW b \in Nat, a < b
  PROVE  a % b = a
OBVIOUS

(* Whoever has had a turn still has, when those who are out come back.       *)
LEMMA NormalizedTurns ==
  ASSUME NEW c \in Combats, InTurn(c), c.turn < Len(c.order),
         \A q \in Fighters : c.up[q] => q \in ToSet(c.order)
  PROVE  LET d == NormalizedCombat(c)
         IN  InTurn(d) /\ d.turn = c.turn /\ CurrentActor(d) = CurrentActor(c)
<1> DEFINE d == NormalizedCombat(c)
           n == Len(c.order)
           m == Len(d.order)
<1>1. /\ d \in Combats /\ d.acted = c.acted /\ d.up = c.up /\ m = Len(Roster)
      /\ Extends(d.order, c.order) /\ d.turn = c.turn % Len(Roster)
  BY NormalizedCombatFacts
<1>2. c.turn \in Nat /\ c.order \in Seq(Fighters) /\ d.order \in Seq(Fighters)
  BY <1>1 DEF Combats, Orders
<1> HIDE DEF d
<1>3. /\ n \in Nat /\ m \in Nat /\ n <= m
      /\ \A i \in 1..m : IF i <= n THEN d.order[i] = c.order[i] ELSE d.order[i] \notin ToSet(c.order)
  BY <1>1, <1>2 DEF Extends
<1> HIDE DEF n, m
<1>4. c.turn < n /\ d.turn = c.turn
  <2>1. c.turn < n
    BY DEF n
  <2>2. c.turn < m /\ c.turn \in Nat /\ m \in Nat
    BY <1>2, <1>3, <2>1
  <2>3. c.turn % m = c.turn
    BY <2>2, WithinTheOrder
  <2> QED
    BY <1>1, <2>1, <2>3
<1>5. InTurn(d)
  <2> SUFFICES ASSUME NEW i \in 1..m
               PROVE  IF i <= c.turn
                      THEN c.acted[d.order[i]] >= 1
                           /\ (c.up[d.order[i]] => c.acted[d.order[i]] = 1)
                      ELSE c.up[d.order[i]] => c.acted[d.order[i]] = 0
    BY <1>1, <1>4 DEF InTurn, m
  <2>1. CASE i <= n
    BY <1>2, <1>3, <2>1 DEF InTurn, n
  <2>2. CASE ~ (i <= n)
    <3>1. d.order[i] \in Fighters /\ ~ (i <= c.turn)
      BY <1>2, <1>3, <1>4, <2>2 DEF m
    <3> QED
      BY <1>3, <2>2, <3>1
  <2> QED
    BY <2>1, <2>2
<1>6. CurrentActor(d) = CurrentActor(c)
  <2>2. c.turn < m /\ c.turn < n /\ c.turn \in Nat /\ m \in Nat /\ n \in Nat
    BY <1>2, <1>3, <1>4
  <2>3. c.turn % n = c.turn /\ c.turn % m = c.turn
    BY <2>2, WithinTheOrder
  <2>1. c.turn + 1 \in 1..m /\ c.turn + 1 <= n
    BY <2>2
  <2> QED
    BY <1>3, <1>4, <2>1, <2>3 DEF CurrentActor, n, m
<1> QED
  BY <1>4, <1>5, <1>6 DEF d

\* A combat with the rounds of another, whose turn and hit points may differ.
SameRound(c, d) ==
  /\ d.on = c.on /\ d.round = c.round /\ d.observed = c.observed /\ d.lastCheck = c.lastCheck

(* What is changed beside rounds, order and health keeps a combat fit.       *)
LEMMA SameRoundFits ==
  ASSUME NEW s \in States, Fit(s), NEW c \in Combats, SameRound(s.c, c),
         \A q \in Opponents : c.hp[q] <= MaxHp[q],
         \A q \in Fighters : c.up[q] => q \in ToSet(c.order)
  PROVE  LET t == [s EXCEPT !.c = c]
         IN  /\ t \in States /\ Fit(t) /\ t.c = c /\ t.h = s.h /\ t.p = s.p
<1> DEFINE t == [s EXCEPT !.c = c]
<1>1. t \in States /\ t.c = c /\ t.h = s.h /\ t.p = s.p
  BY DEF States
<1> HIDE DEF t
<1>2. Fit(t)
  BY <1>1 DEF Fit, SameRound, Ordered, Punctual
<1> QED
  BY <1>1, <1>2 DEF t

LEMMA ActorFacts ==
  ASSUME NEW c \in Combats, Len(c.order) > 0
  PROVE  CurrentActor(c) \in Fighters
<1> DEFINE n == Len(c.order)
           i == (c.turn % n) + 1
<1>1. c.order \in Seq(Fighters) /\ c.turn \in Nat
  BY DEF Combats, Orders
<1>2. n \in Nat \ {0}
  BY <1>1
<1> HIDE DEF n
<1>3. i \in 1..n
  BY <1>1, <1>2
<1>4. CurrentActor(c) = c.order[i]
  BY DEF CurrentActor, n
<1> QED
  BY <1>1, <1>3, <1>4 DEF n

\* The turn of a combat is passed on, in its round or into the next one.
Passed(c, d) ==
  LET n == NormalizedCombat(c)
      actor == CurrentActor(c)
  IN  \/ /\ d.round = c.round /\ d.up = c.up /\ d.order = n.order
         /\ d.turn = n.turn + 1 /\ d.turn < Len(d.order)
         /\ d.acted = [c.acted EXCEPT ![actor] = @ + 1]
      \/ /\ d.round = c.round + 1 /\ d.up = c.up /\ d.turn = 0 /\ d.order = n.order
         /\ n.turn + 1 >= Len(n.order)
         /\ \A q \in Fighters : d.acted[q] = 0

(* A turn that is passed on leaves a combat that can go on, or ends it with  *)
(* the investigator's death.                                                 *)
LEMMA AdvanceTurnSound ==
  ASSUME NEW start \in States, Fit(start), start.c.on, Standing(start.c), Alive(start),
         Len(start.c.order) > 0, NEW passes \in BOOLEAN
  PROVE  /\ Sound(AdvanceTurn(start, passes))
         /\ Hurts(start.h, AdvanceTurn(start, passes).h)
         /\ AdvanceTurn(start, passes).c.on => Passed(start.c, AdvanceTurn(start, passes).c)
<1> DEFINE actor == CurrentActor(start.c)
           c     == NormalizedCombat(start.c)
           used  == [c.forfeit EXCEPT ![actor] = Max({0, @ - 1})]
           acted == [c.acted EXCEPT ![actor] = @ + 1]
           d     == [c EXCEPT !.forfeit = used, !.acted = acted]
           s     == Observe([start EXCEPT !.c = d])
           e     == [s.c EXCEPT !.turn = @ + 1]
           t     == [s EXCEPT !.c = e]
<1>1. start.c \in Combats /\ start.h \in Bodies /\ start.p \in Pasts /\ actor \in Fighters
  BY ActorFacts DEF States
<1>2. /\ c \in Combats /\ SameRound(start.c, c) /\ c.up = start.c.up
      /\ ToSet(c.order) = Fighters /\ Len(c.order) = Len(Roster)
      /\ c.turn \in 0..(Len(Roster) - 1)
      /\ \A q \in Opponents : c.hp[q] = IF start.c.hp[q] = 0 THEN MaxHp[q] ELSE start.c.hp[q]
      /\ c.acted = start.c.acted
  BY <1>1, NormalizedCombatFacts DEF SameRound
<1>3. AdvanceTurn(start, passes) = IF t.c.turn >= Len(t.c.order) THEN RoundWrap(t, passes) ELSE t
  BY DEF AdvanceTurn
<1> HIDE DEF c, actor
<1>4. used \in [Fighters -> 0..1] /\ acted \in [Fighters -> Nat]
  <2>1. c.forfeit \in [Fighters -> 0..1] /\ c.acted \in [Fighters -> Nat]
    BY <1>2 DEF Combats
  <2>2. c.forfeit[actor] \in 0..1
    BY <1>1, <2>1
  <2>3. Max({0, c.forfeit[actor] - 1}) \in 0..1
    BY <2>2, MaxOfTwo
  <2> QED
    BY <1>1, <2>1, <2>3
<1> HIDE DEF used, acted
<1>5. d \in Combats
  BY <1>2, <1>4 DEF Combats
<1>6. /\ SameRound(start.c, d) /\ d.up = start.c.up /\ d.order = c.order /\ d.turn = c.turn
      /\ d.hp = c.hp /\ d.acted = acted
  BY <1>2 DEF Combats, SameRound
<1> HIDE DEF d
<1>7. (\A q \in Opponents : d.hp[q] <= MaxHp[q]) /\ Standing(d)
  <2>1. \A q \in Opponents : MaxHp[q] \in Nat \ {0} /\ start.c.hp[q] <= MaxHp[q]
                             /\ start.c.hp[q] \in Nat
    BY <1>1, ProfileAssumption DEF Fit, Opponents, Combats
  <2> QED
    BY <1>2, <1>6, <2>1 DEF Standing
<1>8. \A q \in Fighters : d.up[q] => q \in ToSet(d.order)
  BY <1>2, <1>6
<1>9. LET r == [start EXCEPT !.c = d]
      IN  r \in States /\ Fit(r) /\ r.c = d /\ r.h = start.h /\ r.p = start.p
  BY <1>5, <1>6, <1>7, <1>8, SameRoundFits
<1>10. /\ Fit(s) /\ SameFight(d, s.c) /\ s.h = start.h /\ s.p.outside = start.p.outside
  <2> DEFINE r == [start EXCEPT !.c = d]
  <2>1. r \in States /\ Fit(r) /\ r.c = d /\ r.h = start.h /\ r.p = start.p /\ s = Observe(r)
    BY <1>9
  <2> HIDE DEF r, s
  <2>2. r.c.on
    BY <1>6, <2>1 DEF SameRound
  <2> QED
    BY <2>1, <2>2, ObserveFacts
<1> HIDE DEF s
<1>11. s \in States /\ s.c \in Combats
  BY <1>10 DEF Fit, States
<1>12. /\ e \in Combats /\ SameRound(s.c, e) /\ e.turn = s.c.turn + 1 /\ e.order = d.order
       /\ e.hp = d.hp /\ e.up = d.up /\ e.acted = d.acted
  <2>1. s.c.turn \in Nat
    BY <1>11 DEF Combats
  <2>2. e \in Combats
    <3> DEFINE turn == s.c.turn + 1
    <3>1. turn \in Nat /\ e = [s.c EXCEPT !.turn = turn]
      BY <2>1
    <3> HIDE DEF turn, e
    <3> QED
      BY <1>11, <3>1 DEF Combats
  <2>3. SameRound(s.c, e) /\ e.turn = s.c.turn + 1 /\ e.order = s.c.order /\ e.hp = s.c.hp
        /\ e.up = s.c.up /\ e.acted = s.c.acted
    BY <1>11 DEF Combats, SameRound
  <2> QED
    BY <1>10, <2>2, <2>3 DEF SameFight
<1> HIDE DEF e
<1>13. /\ t \in States /\ Fit(t) /\ t.c = e /\ t.h = s.h /\ t.p = s.p
  BY <1>7, <1>8, <1>10, <1>11, <1>12, SameRoundFits
<1> HIDE DEF t
<1>14. t.c.on /\ Standing(t.c) /\ Alive(t) /\ Len(t.c.order) > 0
  <2>1. t.c.on
    BY <1>6, <1>10, <1>12, <1>13 DEF SameRound, SameFight
  <2>2. Standing(t.c) /\ Alive(t)
    BY <1>7, <1>10, <1>12, <1>13 DEF Standing, Alive
  <2> QED
    BY <1>2, <1>6, <1>12, <1>13, <2>1, <2>2, RosterFacts
<1>17. /\ t.c.round = start.c.round /\ t.c.up = start.c.up /\ t.c.order = c.order
       /\ t.c.turn = c.turn + 1 /\ t.c.acted = [start.c.acted EXCEPT ![actor] = @ + 1]
  <2>1. acted = [start.c.acted EXCEPT ![actor] = @ + 1]
    BY <1>2 DEF acted
  <2> QED
    BY <1>6, <1>10, <1>12, <1>13, <2>1 DEF SameRound, SameFight
<1>15. CASE t.c.turn >= Len(t.c.order)
  <2>1. /\ Sound(RoundWrap(t, passes)) /\ Hurts(t.h, RoundWrap(t, passes).h)
        /\ RoundWrap(t, passes).c.on => NewRound(t.c, RoundWrap(t, passes).c)
    BY <1>13, <1>14, RoundWrapSound
  <2>2. RoundWrap(t, passes).c.on => Passed(start.c, RoundWrap(t, passes).c)
    BY <1>15, <1>17, <2>1 DEF NewRound, Passed, c
  <2> QED
    BY <1>3, <1>10, <1>13, <1>15, <2>1, <2>2
<1>16. CASE ~ (t.c.turn >= Len(t.c.order))
  <2>1. t.c.turn < Len(t.c.order)
    <3>1. t.c.turn \in Nat /\ Len(t.c.order) \in Nat
      BY <1>13, OrderLength DEF States, Combats
    <3> QED
      BY <1>16, <3>1
  <2>2. Passed(start.c, t.c)
    BY <1>17, <2>1 DEF Passed, c, actor
  <2> QED
    BY <1>3, <1>10, <1>13, <1>14, <1>16, <2>1, <2>2 DEF Sound, Hurts
<1> QED
  BY <1>15, <1>16

\* From the turn of one combat to another: nobody is added, and a round that is
\* over had everybody in it who still fights, but for its last actor.
Fair(c, d) ==
  /\ \A q \in Fighters : d.up[q] => c.up[q]
  /\ \/ d.round = c.round /\ \A q \in Fighters \ {CurrentActor(c)} : d.acted[q] = c.acted[q]
     \/ /\ d.round = c.round + 1
        /\ \A q \in Fighters \ {CurrentActor(c)} : d.up[q] => c.acted[q] >= 1

(* The turn passes to somebody who has had none, at the earliest.            *)
LEMMA PassedTurns ==
  ASSUME NEW c \in Combats, NEW d \in Combats, InTurn(c), c.turn < Len(c.order),
         \A q \in Fighters : c.up[q] => q \in ToSet(c.order), Passed(c, d)
  PROVE  InTurn(d) /\ Fair(c, d)
<1> DEFINE n     == NormalizedCombat(c)
           order == n.order
           actor == CurrentActor(c)
           turn  == c.turn
           len   == Len(order)
<1>1. /\ n \in Combats /\ n.acted = c.acted /\ n.up = c.up /\ ToSet(order) = Fighters
      /\ len = Len(Roster)
  BY NormalizedCombatFacts
<1>2. InTurn(n) /\ n.turn = turn /\ CurrentActor(n) = actor
  BY NormalizedTurns
<1>10. /\ d.up = c.up /\ d.order = order
       /\ \/ d.round = c.round /\ d.turn = turn + 1 /\ d.acted = [c.acted EXCEPT ![actor] = @ + 1]
          \/ /\ d.round = c.round + 1 /\ d.turn = 0 /\ turn + 1 >= len
             /\ \A q \in Fighters : d.acted[q] = 0
  BY <1>2 DEF Passed
<1> HIDE DEF n
<1>3. /\ order \in Seq(Fighters) /\ turn \in Nat /\ len \in Nat
      /\ \A i, j \in 1..len : order[i] = order[j] => i = j
      /\ \A i \in 1..len : order[i] \in Fighters
      /\ c.acted \in [Fighters -> Nat] /\ c.up \in [Fighters -> BOOLEAN] /\ c.round \in Nat
  <2>1. order \in Orders
    BY <1>1 DEF Combats
  <2>2. /\ order \in Seq(Fighters) /\ len \in Nat
        /\ \A i, j \in 1..len : order[i] = order[j] => i = j
    BY <2>1 DEF Orders, IsInjective
  <2>3. /\ turn \in Nat /\ c.acted \in [Fighters -> Nat] /\ c.up \in [Fighters -> BOOLEAN]
        /\ c.round \in Nat
    BY DEF Combats
  <2> QED
    BY <2>2, <2>3
<1>4. turn < len
  <2>1. c.order \in Orders
    BY DEF Combats
  <2>2. Len(c.order) \in Nat /\ Len(c.order) <= Len(Roster)
    BY <2>1, OrderLength
  <2> QED
    BY <1>1, <1>3, <2>2
<1>5. turn + 1 \in 1..len /\ actor = order[turn + 1]
  <2>1. turn % len = turn
    BY <1>3, <1>4, WithinTheOrder
  <2>2. actor = order[(turn % len) + 1]
    BY <1>2 DEF CurrentActor
  <2> HIDE DEF order, actor, turn, len
  <2>3. turn + 1 \in 1..len
    BY <1>3, <1>4
  <2> QED
    BY <2>1, <2>2, <2>3
<1>6. \A i \in 1..len :
        IF i <= turn
        THEN c.acted[order[i]] >= 1 /\ (c.up[order[i]] => c.acted[order[i]] = 1)
        ELSE c.up[order[i]] => c.acted[order[i]] = 0
  BY <1>1, <1>2 DEF InTurn
<1> HIDE DEF order, actor, turn, len
<1>8. CASE d.round = c.round /\ d.turn = turn + 1 /\ d.acted = [c.acted EXCEPT ![actor] = @ + 1]
  <2>1. actor \in Fighters
    BY <1>3, <1>5
  <2>2. /\ d.acted[actor] = c.acted[actor] + 1
        /\ \A q \in Fighters \ {actor} : d.acted[q] = c.acted[q]
    BY <1>3, <1>8, <2>1
  <2>3. InTurn(d)
    <3> SUFFICES ASSUME NEW i \in 1..len
                 PROVE  IF i <= turn + 1
                        THEN d.acted[order[i]] >= 1
                             /\ (c.up[order[i]] => d.acted[order[i]] = 1)
                        ELSE c.up[order[i]] => d.acted[order[i]] = 0
      BY <1>10, <1>8 DEF InTurn, len
    <3>1. CASE i = turn + 1
      <4>1. order[i] = actor /\ ~ (i <= turn) /\ c.acted[actor] \in Nat
        BY <1>3, <1>5, <2>1, <3>1
      <4> QED
        BY <1>6, <2>2, <3>1, <4>1
    <3>2. CASE i # turn + 1
      <4>1. order[i] \in Fighters \ {actor} /\ (i <= turn + 1 <=> i <= turn)
        BY <1>3, <1>5, <3>2
      <4> QED
        BY <1>6, <2>2, <4>1
    <3> QED
      BY <3>1, <3>2
  <2> QED
    BY <1>10, <1>8, <2>2, <2>3 DEF Fair, actor
<1>9. CASE /\ d.round = c.round + 1 /\ d.turn = 0 /\ turn + 1 >= len
           /\ \A q \in Fighters : d.acted[q] = 0
  <2>1. InTurn(d)
    BY <1>3, <1>10, <1>9 DEF InTurn, len
  <2>2. ASSUME NEW q \in Fighters \ {actor} PROVE c.acted[q] >= 1
    <3>1. PICK i \in 1..len : order[i] = q
      BY <1>1, <1>3 DEF ToSet, len
    <3>2. order[i] # actor
      BY <2>2, <3>1
    <3>3. i # turn + 1
      BY <1>5, <3>2
    <3>4. i <= turn
      <4>1. len \in Nat /\ turn \in Nat /\ turn + 1 >= len
        BY <1>3, <1>9
      <4> QED
        BY <3>1, <3>3, <4>1
    <3> QED
      BY <1>6, <3>1, <3>4
  <2> QED
    BY <1>10, <1>9, <2>1, <2>2 DEF Fair, actor
<1> QED
  BY <1>10, <1>8, <1>9

-----------------------------------------------------------------------------
(* Blows *)

LEMMA EndFacts ==
  ASSUME NEW s \in States, Agree(s.h), \A q \in Opponents : s.c.hp[q] <= MaxHp[q]
  PROVE  Sound(End(s)) /\ End(s).h = s.h /\ ~End(s).c.on
<1> DEFINE e == [s.c EXCEPT !.on = FALSE]
           t == [s EXCEPT !.c = e]
<1>1. s.c \in Combats
  BY DEF States
<1>2. e \in Combats /\ e.on = FALSE /\ e.hp = s.c.hp
  BY <1>1 DEF Combats
<1>3. End(s) = t
  BY DEF End
<1> HIDE DEF e
<1>4. t \in States /\ t.c = e /\ t.h = s.h
  BY <1>2 DEF States
<1> HIDE DEF t
<1> QED
  BY <1>2, <1>3, <1>4 DEF Sound, Fit

\* Damage in a combat d that goes on has neither added anybody nor taken a turn
\* from anybody: either it left the round alone, or it ended one in which all who
\* still fight had acted.
Settled(c, d) ==
  d.on =>
    /\ c.on /\ \A q \in Fighters : d.up[q] => c.up[q]
    /\ \/ d.round = c.round /\ d.acted = c.acted
       \/ d.round = c.round + 1 /\ \A q \in Fighters : d.up[q] => c.acted[q] >= 1
    /\ InTurn(c) => InTurn(d)

\* Two combats with the same turns.
SameTurns(c, d) ==
  /\ d.on = c.on /\ d.round = c.round /\ d.turn = c.turn /\ d.order = c.order
  /\ d.up = c.up /\ d.acted = c.acted

LEMMA SameTurnsSettle ==
  ASSUME NEW c, NEW d, NEW e, SameTurns(c, d), Settled(d, e)
  PROVE  Settled(c, e)
BY DEF SameTurns, Settled, InTurn

LEMMA SameTurnsAreSettled ==
  ASSUME NEW c, NEW d, SameTurns(c, d)
  PROVE  Settled(c, d)
BY DEF SameTurns, Settled, InTurn

(* The turn goes back to the first of those who are left and have not acted. *)
LEMMA RepairTurns ==
  ASSUME NEW c \in Combats, NEW d \in Combats, NEW target, Ordered(c), c.on,
         \A q \in Fighters : d.up[q] => c.up[q] /\ q # target,
         d.order = RemoveFirst(c.order, target),
         NEW waiting, waiting = {i \in DOMAIN d.order : c.acted[d.order[i]] = 0},
         \/ waiting # {} /\ d.round = c.round /\ d.acted = c.acted /\ d.turn = Min(waiting) - 1
         \/ /\ waiting = {} /\ d.round = c.round + 1 /\ d.turn = 0
            /\ \A q \in Fighters : d.acted[q] = 0
  PROVE  Settled(c, d)
<1> DEFINE order == c.order
           rest  == d.order
           n     == Len(order)
           m     == Len(rest)
<1>1. ToSet(rest) = ToSet(order) \ {target} /\ Closes(rest, order)
  <2>1. c.order \in Orders
    BY DEF Combats
  <2> QED
    BY <2>1, ShortenedOrder
<1>2. /\ n \in Nat /\ m \in Nat /\ DOMAIN rest = 1..m
      /\ \A i \in 1..m : rest[i] \in Fighters
  <2>1. order \in Seq(Fighters) /\ rest \in Seq(Fighters)
    BY DEF Combats, Orders
  <2> QED
    BY <2>1
<1>3. c.acted \in [Fighters -> Nat] /\ c.turn \in Nat
  BY DEF Combats
<1>4. \A q \in Fighters : d.up[q] => \E i \in 1..m : rest[i] = q
  <2>1. ToSet(rest) = {rest[i] : i \in 1..m}
    BY <1>2 DEF ToSet
  <2> HIDE DEF rest, m
  <2>2. \A q \in Fighters : d.up[q] => q \in ToSet(rest)
    BY <1>1 DEF Ordered
  <2> QED
    BY <2>1, <2>2
<1>5. PICK k \in Nat : \A i \in 1..m :
        LET j == IF i < k THEN i ELSE i + 1 IN j \in 1..n /\ rest[i] = order[j]
  BY <1>1 DEF Closes
<1> HIDE DEF order, rest, n, m
<1>6. CASE waiting # {} /\ d.round = c.round /\ d.acted = c.acted /\ d.turn = Min(waiting) - 1
  <2> DEFINE w == Min(waiting)
  <2>1. w \in 1..m /\ c.acted[rest[w]] = 0 /\ \A i \in 1..m : i < w => c.acted[rest[i]] # 0
    <3>1. waiting = {i \in 1..m : c.acted[rest[i]] = 0}
      BY <1>2 DEF rest
    <3>2. waiting \in SUBSET Nat
      BY <3>1
    <3>3. w \in waiting /\ \A i \in waiting : w <= i
      BY <1>6, <3>2, MinOf
    <3> HIDE DEF w
    <3>4. w \in 1..m /\ c.acted[rest[w]] = 0
      BY <3>1, <3>3
    <3> QED
      BY <3>1, <3>3, <3>4
  <2> HIDE DEF w
  <2>2. ASSUME InTurn(c) PROVE InTurn(d)
    <3>1. \A j \in 1..n :
            IF j <= c.turn
            THEN c.acted[order[j]] >= 1 /\ (c.up[order[j]] => c.acted[order[j]] = 1)
            ELSE c.up[order[j]] => c.acted[order[j]] = 0
      BY <2>2 DEF InTurn, order, n
    <3>2. d.turn = w - 1
      BY <1>6 DEF w
    <3> SUFFICES ASSUME NEW i \in 1..m
                 PROVE  IF i <= w - 1
                        THEN c.acted[rest[i]] >= 1 /\ (d.up[rest[i]] => c.acted[rest[i]] = 1)
                        ELSE d.up[rest[i]] => c.acted[rest[i]] = 0
      BY <1>6, <3>2 DEF InTurn, rest, m
    <3>3. /\ d.up[rest[i]] => c.up[rest[i]]
          /\ c.acted[rest[i]] \in Nat
      BY <1>2, <1>3
    <3> DEFINE j == IF i < k THEN i ELSE i + 1
               v == IF w < k THEN w ELSE w + 1
    <3>4. j \in 1..n /\ rest[i] = order[j] /\ v \in 1..n /\ rest[w] = order[v]
      BY <1>5, <2>1
    <3>5. CASE i <= w - 1
      <4>1. c.acted[rest[i]] # 0
        BY <2>1, <3>5
      <4> QED
        BY <3>1, <3>3, <3>4, <3>5, <4>1
    <3>6. CASE ~ (i <= w - 1)
      <4>1. v <= j
        BY <2>1, <3>6
      <4> HIDE DEF j, v
      <4>2. ~ (v <= c.turn)
        BY <2>1, <3>1, <3>4
      <4>3. ~ (j <= c.turn)
        BY <1>3, <3>4, <4>1, <4>2
      <4> QED
        BY <3>1, <3>3, <3>4, <3>6, <4>3
    <3> QED
      BY <3>5, <3>6
  <2> QED
    BY <1>6, <2>2 DEF Settled
<1>7. CASE /\ waiting = {} /\ d.round = c.round + 1 /\ d.turn = 0
           /\ \A q \in Fighters : d.acted[q] = 0
  <2>1. \A i \in 1..m : c.acted[rest[i]] >= 1
    <3>1. waiting = {i \in 1..m : c.acted[rest[i]] = 0}
      BY <1>2 DEF rest
    <3>2. \A i \in 1..m : c.acted[rest[i]] # 0
      BY <1>7, <3>1
    <3>3. \A i \in 1..m : c.acted[rest[i]] \in Nat
      BY <1>2, <1>3
    <3> QED
      BY <3>2, <3>3
  <2>2. InTurn(d)
    BY <1>2, <1>7 DEF InTurn, m, rest
  <2>3. \A q \in Fighters : d.up[q] => c.acted[q] >= 1
    BY <1>4, <2>1
  <2> QED
    BY <1>7, <2>2, <2>3 DEF Settled
<1> QED
  BY <1>6, <1>7

(* The defeated leaves a combat that can go on, or ends it.                  *)
LEMMA RepairSound ==
  ASSUME NEW s \in States, Fit(s), NEW target \in Fighters, NEW passes \in BOOLEAN,
         s.c.on /\ target # Player => Alive(s)
  PROVE  /\ Sound(RepairAfterDefeat(s, target, passes))
         /\ Hurts(s.h, RepairAfterDefeat(s, target, passes).h)
         /\ Settled(s.c, RepairAfterDefeat(s, target, passes).c)
<1> DEFINE up      == [s.c.up EXCEPT ![target] = FALSE]
           order   == RemoveFirst(s.c.order, target)
           c       == [s.c EXCEPT !.up = up, !.order = order]
           waiting == {i \in DOMAIN c.order : c.acted[c.order[i]] = 0}
           t       == [s EXCEPT !.c = c]
           first   == Min(waiting) - 1
           d       == [c EXCEPT !.turn = first]
           r       == [s EXCEPT !.c = d]
           stands  == \E p \in Opponents : c.up[p] /\ c.hp[p] > 0
           result  == RepairAfterDefeat(s, target, passes)
<1>1. s.c \in Combats /\ s.h \in Bodies /\ s.p \in Pasts
  BY DEF States
<1>2. result = IF ~s.c.on THEN s
               ELSE IF target = Player \/ ~stands THEN End(t)
               ELSE IF waiting = {} THEN RoundWrap(t, passes) ELSE r
  BY DEF RepairAfterDefeat
<1>3. up \in [Fighters -> BOOLEAN] /\ \A q \in Fighters : up[q] => s.c.up[q] /\ q # target
  <2>1. s.c.up \in [Fighters -> BOOLEAN]
    BY <1>1 DEF Combats
  <2> QED
    BY <2>1
<1>4. order \in Orders /\ ToSet(order) = ToSet(s.c.order) \ {target}
  <2>1. s.c.order \in Orders
    BY <1>1 DEF Combats
  <2> QED
    BY <2>1, ShortenedOrder
<1> HIDE DEF up, order, result
<1>5. /\ c \in Combats /\ SameRound(s.c, c) /\ c.up = up /\ c.order = order /\ c.hp = s.c.hp
      /\ c.acted = s.c.acted
  <2>1. c \in Combats
    BY <1>1, <1>3, <1>4 DEF Combats
  <2>2. /\ SameRound(s.c, c) /\ c.up = up /\ c.order = order /\ c.hp = s.c.hp
        /\ c.acted = s.c.acted
    BY <1>1 DEF Combats, SameRound
  <2> QED
    BY <2>1, <2>2
<1> HIDE DEF c
<1>6. Hurts(s.h, s.h)
  BY DEF Hurts
<1>7. CASE ~s.c.on
  BY <1>2, <1>6, <1>7 DEF Sound, Settled, result
<1>8. CASE s.c.on
  <2>1. (\A q \in Opponents : c.hp[q] <= MaxHp[q]) /\ (\A q \in Fighters : c.up[q] => q \in ToSet(c.order))
    BY <1>3, <1>4, <1>5, <1>8 DEF Fit, Ordered
  <2>2. t \in States /\ Fit(t) /\ t.c = c /\ t.h = s.h /\ t.p = s.p
    BY <1>5, <2>1, SameRoundFits
  <2> HIDE DEF t
  <2>3. CASE target = Player \/ ~stands
    <3>1. result = End(t)
      BY <1>2, <1>8, <2>3
    <3>2. Sound(End(t)) /\ End(t).h = t.h /\ ~End(t).c.on
      BY <2>1, <2>2, EndFacts DEF Fit
    <3> QED
      BY <1>6, <2>2, <3>1, <3>2 DEF result, Settled
  <2>4. CASE ~ (target = Player \/ ~stands)
    <3>1. Standing(c) /\ Alive(t) /\ t.c.on
      BY <1>5, <1>8, <2>2, <2>4 DEF Standing, Alive, SameRound
    <3>2. c.order \in Seq(Fighters) /\ Len(c.order) \in Nat /\ DOMAIN c.order = 1..Len(c.order)
      BY <1>4, <1>5 DEF Orders
    <3>3. Len(c.order) > 0
      <4>1. \E q \in Opponents : q \in ToSet(c.order)
        BY <2>1, <3>1 DEF Standing, Opponents
      <4> QED
        BY <3>2, <4>1 DEF ToSet
    <3>4. CASE waiting = {}
      <4> DEFINE e == RoundWrap(t, passes).c
      <4>1. /\ Sound(RoundWrap(t, passes)) /\ Hurts(t.h, RoundWrap(t, passes).h)
            /\ e.on => NewRound(c, e)
        BY <2>2, <3>1, <3>3, RoundWrapSound
      <4>2. e \in Combats
        BY <4>1 DEF Sound, Fit, States
      <4>3. Settled(s.c, e)
        <5> HIDE DEF e
        <5>1. CASE ~e.on
          BY <5>1 DEF Settled
        <5>2. CASE e.on
          <6>1. /\ e.round = s.c.round + 1 /\ e.turn = 0 /\ e.order = RemoveFirst(s.c.order, target)
                /\ e.up = up /\ \A q \in Fighters : e.acted[q] = 0
            BY <1>5, <4>1, <5>2 DEF NewRound, SameRound, order
          <6>2. waiting = {i \in DOMAIN e.order : s.c.acted[e.order[i]] = 0}
            BY <1>5, <6>1 DEF order
          <6>3. Ordered(s.c)
            BY <1>8 DEF Fit
          <6> HIDE DEF waiting
          <6> QED
            BY <1>1, <1>3, <1>8, <3>4, <4>2, <6>1, <6>2, <6>3, RepairTurns
        <5> QED
          BY <5>1, <5>2
      <4> QED
        BY <1>2, <1>8, <2>2, <2>4, <3>4, <4>1, <4>3 DEF result
    <3>5. CASE waiting # {}
      <4>1. first \in 0..(Len(c.order) - 1)
        <5>1. waiting \in SUBSET Nat /\ waiting \subseteq 1..Len(c.order)
          BY <3>2
        <5> HIDE DEF waiting
        <5>2. Min(waiting) \in waiting
          BY <3>5, <5>1, MinOf
        <5>3. Min(waiting) \in 1..Len(c.order)
          BY <5>1, <5>2
        <5> DEFINE k == Min(waiting)
        <5> HIDE DEF k
        <5>4. k \in 1..Len(c.order) /\ first = k - 1
          BY <5>3 DEF k
        <5> HIDE DEF first
        <5> QED
          BY <3>2, <5>4
      <4> HIDE DEF first
      <4>2. first \in Nat /\ first < Len(c.order)
        BY <3>2, <4>1
      <4>3. d \in Combats
        BY <1>5, <4>2 DEF Combats
      <4>4. /\ SameRound(s.c, d) /\ d.up = c.up /\ d.order = c.order /\ d.hp = c.hp
            /\ d.turn = first /\ d.acted = c.acted
        BY <1>5 DEF Combats, SameRound
      <4> HIDE DEF d
      <4>5. r \in States /\ Fit(r) /\ r.c = d /\ r.h = s.h /\ r.p = s.p
        BY <2>1, <4>3, <4>4, SameRoundFits
      <4> HIDE DEF r
      <4>6. Sound(r)
        BY <2>2, <3>1, <4>2, <4>4, <4>5 DEF Sound, Standing, Alive
      <4>7. Settled(s.c, d)
        <5>1. /\ d.round = s.c.round /\ d.order = RemoveFirst(s.c.order, target)
              /\ d.up = up /\ d.acted = s.c.acted
          BY <1>5, <4>4 DEF SameRound, order
        <5>2. waiting = {i \in DOMAIN d.order : s.c.acted[d.order[i]] = 0}
          BY <1>5, <5>1 DEF order
        <5>3. Ordered(s.c)
          BY <1>8 DEF Fit
        <5>4. d.turn = Min(waiting) - 1
          BY <4>4 DEF first
        <5> HIDE DEF waiting
        <5> QED
          BY <1>1, <1>3, <1>8, <3>5, <4>3, <5>1, <5>2, <5>3, <5>4, RepairTurns
      <4> QED
        BY <1>2, <1>6, <1>8, <2>4, <3>5, <4>5, <4>6, <4>7 DEF result
    <3> QED
      BY <3>4, <3>5
  <2> QED
    BY <2>3, <2>4
<1> QED
  BY <1>7, <1>8

LEMMA HitOpponentSound ==
  ASSUME NEW s \in States, Sound(s), NEW p \in Opponents, s.c.up[p], NEW net \in Nat,
         NEW passes \in BOOLEAN
  PROVE  /\ Sound(HitOpponent(s, p, net, passes))
         /\ Hurts(s.h, HitOpponent(s, p, net, passes).h)
         /\ Settled(s.c, HitOpponent(s, p, net, passes).c)
<1> DEFINE left == Clamp(s.c.hp[p] - net, 0, MaxHp[p])
           hp   == [s.c.hp EXCEPT ![p] = left]
           c    == [s.c EXCEPT !.hp = hp]
           t    == [s EXCEPT !.c = c]
<1>1. s.c \in Combats /\ s.h \in Bodies /\ Fit(s)
  BY DEF States, Sound
<1>2. HitOpponent(s, p, net, passes) = IF left = 0 THEN RepairAfterDefeat(t, p, passes) ELSE t
  BY DEF HitOpponent
<1>3. left \in 0..MaxHp[p] /\ left \in Nat /\ MaxHp[p] \in Nat
  <2>1. s.c.hp[p] \in Nat /\ MaxHp[p] \in Nat
    BY <1>1, ProfileAssumption DEF Combats, Opponents
  <2>2. s.c.hp[p] - net \in Int
    BY <2>1
  <2>3. left \in 0..MaxHp[p]
    BY <2>1, <2>2, ClampType
  <2> HIDE DEF left
  <2> QED
    BY <2>1, <2>3
<1>4. /\ hp \in [Opponents -> Nat] /\ hp[p] = left
      /\ \A q \in Opponents : q # p => hp[q] = s.c.hp[q]
  <2>1. s.c.hp \in [Opponents -> Nat]
    BY <1>1 DEF Combats
  <2> HIDE DEF left
  <2> QED
    BY <1>3, <2>1
<1> HIDE DEF left, hp
<1>5. c \in Combats /\ SameRound(s.c, c) /\ c.up = s.c.up /\ c.order = s.c.order /\ c.hp = hp
      /\ c.turn = s.c.turn /\ SameTurns(s.c, c)
  <2>1. c \in Combats
    BY <1>1, <1>4 DEF Combats
  <2>2. SameRound(s.c, c) /\ c.up = s.c.up /\ c.order = s.c.order /\ c.hp = hp /\ c.turn = s.c.turn
    BY <1>1 DEF Combats, SameRound
  <2>3. SameTurns(s.c, c)
    BY <1>1 DEF Combats, SameTurns
  <2> QED
    BY <2>1, <2>2, <2>3
<1> HIDE DEF c
<1>6. \A q \in Opponents : c.hp[q] <= MaxHp[q]
  BY <1>1, <1>3, <1>4, <1>5 DEF Fit
<1>7. t \in States /\ Fit(t) /\ t.c = c /\ t.h = s.h /\ t.p = s.p
  <2>1. CASE s.c.on
    <3>1. \A q \in Fighters : c.up[q] => q \in ToSet(c.order)
      BY <1>1, <1>5, <2>1 DEF Fit, Ordered
    <3> QED
      BY <1>1, <1>5, <1>6, <3>1, SameRoundFits
  <2>2. CASE ~s.c.on
    <3>1. t \in States /\ t.c = c /\ t.h = s.h /\ t.p = s.p
      BY <1>5 DEF States
    <3> HIDE DEF t
    <3> QED
      BY <1>1, <1>5, <1>6, <2>2, <3>1 DEF Fit, SameRound
  <2> QED
    BY <2>1, <2>2
<1> HIDE DEF t
<1>8. t.c.on => Alive(t)
  BY <1>5, <1>7 DEF Sound, Alive, SameRound
<1>9. CASE left = 0
  <2>1. /\ Sound(RepairAfterDefeat(t, p, passes)) /\ Hurts(t.h, RepairAfterDefeat(t, p, passes).h)
        /\ Settled(t.c, RepairAfterDefeat(t, p, passes).c)
    BY <1>7, <1>8, RepairSound DEF Opponents
  <2>2. Settled(s.c, RepairAfterDefeat(t, p, passes).c)
    BY <1>5, <1>7, <2>1, SameTurnsSettle
  <2> QED
    BY <1>2, <1>7, <1>9, <2>1, <2>2
<1>10. CASE left # 0
  <2>1. t.c.on => Standing(t.c) /\ t.c.turn < Len(t.c.order)
    BY <1>3, <1>4, <1>5, <1>7, <1>10 DEF Sound, Standing, SameRound
  <2>2. Settled(s.c, t.c)
    BY <1>5, <1>7, SameTurnsAreSettled
  <2> QED
    BY <1>2, <1>7, <1>8, <1>10, <2>1, <2>2 DEF Sound, Hurts
<1> QED
  BY <1>9, <1>10

LEMMA HitPlayerSound ==
  ASSUME NEW s \in States, Sound(s), NEW net \in Nat, NEW conFails \in BOOLEAN,
         NEW passes \in BOOLEAN
  PROVE  /\ Sound(HitPlayer(s, net, conFails, passes))
         /\ Hurts(s.h, HitPlayer(s, net, conFails, passes).h)
         /\ Settled(s.c, HitPlayer(s, net, conFails, passes).c)
<1> DEFINE hp == Clamp(s.h.hp - net, 0, Most)
           g  == [s.h EXCEPT !.hp = hp]
           h  == IF net > 0 THEN Damaged(g, Most, [damage |-> net, after |-> hp], conFails) ELSE g
           c  == [s.c EXCEPT !.body = hp]
           t  == [s EXCEPT !.h = h, !.c = c]
           u  == [s EXCEPT !.c = c]
<1>1. s.c \in Combats /\ s.h \in Bodies /\ Fit(s) /\ Agree(s.h)
  BY DEF States, Sound, Fit
<1>2. HitPlayer(s, net, conFails, passes) = IF h.dead THEN RepairAfterDefeat(t, Player, passes) ELSE t
  <2>1. [s EXCEPT !.h = h, !.c.body = hp] = t
    BY DEF States
  <2> QED
    BY <2>1 DEF HitPlayer, Most
<1>3. hp \in 0..Most /\ (net = 0 => hp = s.h.hp)
  <2>1. s.h.hp \in 0..Most
    BY <1>1 DEF Bodies, Healths
  <2>2. s.h.hp - net \in Int /\ Most \in Nat
    BY <2>1, MostType
  <2> QED
    BY <2>1, <2>2, ClampType DEF Clamp
<1> HIDE DEF hp
<1>4. /\ g \in Bodies /\ g.hp = hp /\ g.dead = s.h.dead /\ g.dying = s.h.dying
      /\ g.stab = s.h.stab /\ g.wound = s.h.wound /\ g.unc = s.h.unc
  BY <1>1, <1>3 DEF Bodies, Healths
<1> HIDE DEF g
<1>5. Marked(g) /\ Hurts(s.h, g) /\ (net = 0 => Agree(g))
  BY <1>1, <1>3, <1>4 DEF Agree, Marked, Hurts
<1>6. h \in Bodies /\ Agree(h) /\ Hurts(s.h, h)
  <2>1. CASE net > 0
    <3> DEFINE e == Damaged(g, Most, [damage |-> net, after |-> hp], conFails)
    <3>1. e \in Bodies /\ Agree(e) /\ Hurts(g, e)
      BY <1>4, <1>5, DamagedAgrees
    <3>2. h = e
      BY <2>1
    <3> HIDE DEF e, h
    <3>3. Hurts(s.h, e)
      BY <1>5, <3>1, HurtsTransitive
    <3> QED
      BY <3>1, <3>2, <3>3
  <2>2. CASE ~ (net > 0)
    BY <1>4, <1>5, <2>2
  <2> QED
    BY <2>1, <2>2
<1> HIDE DEF h
<1>7. /\ c \in Combats /\ SameRound(s.c, c) /\ c.up = s.c.up /\ c.order = s.c.order
      /\ c.hp = s.c.hp /\ c.turn = s.c.turn /\ SameTurns(s.c, c)
  <2>1. c \in Combats
    BY <1>1, <1>3 DEF Combats
  <2>2. /\ SameRound(s.c, c) /\ c.up = s.c.up /\ c.order = s.c.order
        /\ c.hp = s.c.hp /\ c.turn = s.c.turn
    BY <1>1 DEF Combats, SameRound
  <2>3. SameTurns(s.c, c)
    BY <1>1 DEF Combats, SameTurns
  <2> QED
    BY <2>1, <2>2, <2>3
<1> HIDE DEF c
<1>8. t \in States /\ t.c = c /\ t.h = h /\ t.p = s.p
  BY <1>6, <1>7 DEF States
<1> HIDE DEF t
<1>9. Fit(t)
  BY <1>1, <1>6, <1>7, <1>8 DEF Fit, SameRound, Ordered, Punctual
<1>10. CASE h.dead
  <2>1. Player \in Fighters
    BY RosterAssumption
  <2> DEFINE r == RepairAfterDefeat(t, Player, passes)
  <2>2. Sound(r) /\ Hurts(t.h, r.h) /\ Settled(t.c, r.c)
    BY <1>8, <1>9, <2>1, RepairSound
  <2>3. HitPlayer(s, net, conFails, passes) = r
    BY <1>2, <1>10
  <2> HIDE DEF r
  <2>4. Settled(s.c, r.c) /\ Hurts(s.h, r.h)
    BY <1>6, <1>7, <1>8, <2>2, SameTurnsSettle, HurtsTransitive
  <2> QED
    BY <2>2, <2>3, <2>4
<1>11. CASE ~ h.dead
  <2>1. Sound(t)
    BY <1>7, <1>8, <1>9, <1>11 DEF Sound, Standing, Alive, SameRound
  <2>2. Settled(s.c, t.c)
    BY <1>7, <1>8, SameTurnsAreSettled
  <2> QED
    BY <1>2, <1>6, <1>8, <1>11, <2>1, <2>2
<1> QED
  BY <1>10, <1>11

(* Damage leaves a combat that can go on, or ends it.                        *)
LEMMA DispositionSound ==
  ASSUME NEW s \in States, Sound(s), NEW target \in Fighters, NEW gross \in Int,
         NEW conFails \in BOOLEAN, NEW passes \in BOOLEAN
  PROVE  /\ Sound(ApplyDisposition(s, target, gross, conFails, passes))
         /\ Hurts(s.h, ApplyDisposition(s, target, gross, conFails, passes).h)
         /\ Settled(s.c, ApplyDisposition(s, target, gross, conFails, passes).c)
<1> DEFINE net  == Max({0, gross - Arms[target].armor})
           hits == s.c.up[target]
                   /\ (IF target = Player THEN s.c.body ELSE s.c.hp[target]) > 0
           lost == s.p.lost \/ (/\ target = Player /\ s.c.up[Player]
                                /\ s.h.hp > 0 /\ ~s.h.dead /\ net > 0)
           p    == [s.p EXCEPT !.lost = lost]
           t    == [s EXCEPT !.p = p]
           u    == ApplyDisposition(s, target, gross, conFails, passes)
<1>1. s.c \in Combats /\ s.h \in Bodies /\ s.p \in Pasts /\ Fit(s)
  BY DEF States, Sound
<1>2. net \in Nat
  <2>1. gross - Arms[target].armor \in Int
    BY ProfileAssumption
  <2> QED
    BY <2>1, MaxOfTwo
<1>3. u = IF hits THEN IF target = Player THEN HitPlayer(s, net, conFails, passes)
                       ELSE HitOpponent(s, target, net, passes)
          ELSE t
  BY <1>1 DEF ApplyDisposition, States, Pasts
<1>4. hits => s.c.up[target]
  OBVIOUS
<1> HIDE DEF net, hits, u
<1>5. CASE hits /\ target = Player
  BY <1>2, <1>3, <1>5, HitPlayerSound DEF u
<1>6. CASE hits /\ target # Player
  <2>1. target \in Opponents
    BY <1>6 DEF Opponents
  <2> QED
    BY <1>2, <1>3, <1>4, <1>6, <2>1, HitOpponentSound DEF u
<1>7. CASE ~hits
  <2>1. lost \in BOOLEAN
    BY <1>1 DEF Pasts
  <2> HIDE DEF lost
  <2>2. p \in Pasts /\ p.unchecked = s.p.unchecked /\ p.outside = s.p.outside
    BY <1>1, <2>1 DEF Pasts
  <2> HIDE DEF p
  <2>3. t \in States /\ t.c = s.c /\ t.h = s.h /\ t.p = p
    BY <2>2 DEF States
  <2> HIDE DEF t
  <2>4. Sound(t)
    BY <2>2, <2>3 DEF Sound, Fit, Alive, Punctual
  <2>5. Settled(s.c, t.c)
    BY <2>3, SameTurnsAreSettled DEF SameTurns
  <2> QED
    BY <1>3, <1>7, <2>3, <2>4, <2>5 DEF Hurts, u
<1> QED
  BY <1>5, <1>6, <1>7

LEMMA GrossType ==
  ASSUME NEW owner \in Fighters, NEW mode
  PROVE  GrossDamages(owner, mode) \subseteq Int
<1> DEFINE w   == Arms[owner]
           top == Max(w.dice) + Max(w.bonus)
<1>1. /\ w.dice \subseteq Int /\ HasMax(w.dice) /\ w.bonus \subseteq Int /\ HasMax(w.bonus)
  BY ProfileAssumption
<1> HIDE DEF w
<1>2. top \in Int
  BY <1>1, MaxOf
<1> HIDE DEF top
<1>3. \A x \in Int : Max({0, x}) \in Int
  BY MaxOfTwo
<1>4. \A x \in w.dice : Max({0, top + x}) \in Int
  BY <1>1, <1>2, <1>3
<1>5. \A x \in w.dice, y \in w.bonus : Max({0, x + y}) \in Int
  BY <1>1, <1>3
<1>6. Max({0, top}) \in Int
  BY <1>2, <1>3
<1> DEFINE pierces == mode = "impaling" \/ (mode = "extreme" /\ w.kind = "impaling")
<1>7. GrossDamages(owner, mode) = IF pierces THEN {Max({0, top + x}) : x \in w.dice}
        ELSE IF mode = "extreme" THEN {Max({0, top})}
        ELSE {Max({0, x + y}) : x \in w.dice, y \in w.bonus}
  BY DEF GrossDamages, top, w
<1> HIDE DEF pierces
<1>8. CASE pierces
  <2> DEFINE T == {Max({0, top + x}) : x \in w.dice}
  <2>1. \A g \in T : \E x \in w.dice : g = Max({0, top + x})
    OBVIOUS
  <2>2. \A g \in T : g \in Int
    <3> HIDE DEF T
    <3> QED
      BY <1>4, <2>1, Zenon
  <2>3. GrossDamages(owner, mode) = T
    BY <1>7, <1>8
  <2> HIDE DEF T
  <2> QED
    BY <2>2, <2>3
<1>9. CASE ~pierces /\ mode = "extreme"
  BY <1>6, <1>7, <1>9
<1>10. CASE ~pierces /\ mode # "extreme"
  <2> DEFINE T == {Max({0, x + y}) : x \in w.dice, y \in w.bonus}
  <2>1. \A g \in T : \E x \in w.dice, y \in w.bonus : g = Max({0, x + y})
    OBVIOUS
  <2>2. \A g \in T : g \in Int
    <3> HIDE DEF T
    <3> QED
      BY <1>5, <2>1, Zenon
  <2>3. GrossDamages(owner, mode) = T
    BY <1>7, <1>10
  <2> HIDE DEF T
  <2> QED
    BY <2>2, <2>3
<1> QED
  BY <1>8, <1>9, <1>10

\* A combat in which a turn may be taken.
Open(start) ==
  /\ start \in States /\ Fit(start) /\ start.c.on /\ Standing(start.c) /\ Alive(start)
  /\ Len(start.c.order) > 0 /\ start.c.turn < Len(start.c.order) /\ InTurn(start.c)

\* What a handler leaves of it when it has taken one.
Taken(start, s) ==
  /\ Sound(s) /\ Hurts(start.h, s.h)
  /\ s.c.on => InTurn(s.c) /\ Fair(start.c, s.c)

(* An exchange leaves a combat that can go on, or ends it.                   *)
LEMMA TurnTaken ==
  ASSUME NEW start, Open(start), NEW passes \in BOOLEAN
  PROVE  Taken(start, AdvanceTurn(start, passes))
<1> DEFINE t == AdvanceTurn(start, passes)
<1>1. Sound(t) /\ Hurts(start.h, t.h) /\ (t.c.on => Passed(start.c, t.c))
  BY AdvanceTurnSound DEF Open
<1> HIDE DEF t
<1>2. start.c \in Combats /\ t.c \in Combats /\ \A q \in Fighters : start.c.up[q] => q \in ToSet(start.c.order)
  BY <1>1 DEF Open, Sound, Fit, States, Ordered
<1>3. t.c.on => InTurn(t.c) /\ Fair(start.c, t.c)
  BY <1>1, <1>2, PassedTurns DEF Open
<1> QED
  BY <1>1, <1>3 DEF Taken, t

LEMMA MissedSound ==
  ASSUME NEW start, Open(start), NEW s \in Missed(start)
  PROVE  Taken(start, s)
BY TurnTaken DEF Missed

LEMMA DealtSound ==
  ASSUME NEW start, Open(start), NEW owner \in Fighters, NEW target \in Fighters, NEW mode,
         NEW s \in Dealt(start, owner, target, mode)
  PROVE  Taken(start, s)
<1>1. PICK gross \in GrossDamages(owner, mode), passes \in BOOLEAN, conFails \in BOOLEAN :
         s = ApplyDisposition(AdvanceTurn(start, passes), target, gross, conFails, passes)
  BY DEF Dealt
<1>2. gross \in Int
  BY GrossType
<1> DEFINE t == AdvanceTurn(start, passes)
<1>3. Taken(start, t)
  BY TurnTaken
<1> HIDE DEF t
<1>4. t \in States /\ Sound(t) /\ Hurts(start.h, t.h)
  BY <1>3 DEF Taken, Sound, Fit
<1>5. s = ApplyDisposition(t, target, gross, conFails, passes)
  BY <1>1 DEF t
<1>6. Sound(s) /\ Hurts(t.h, s.h) /\ Settled(t.c, s.c)
  BY <1>2, <1>4, <1>5, DispositionSound
<1>7. Hurts(start.h, s.h)
  BY <1>4, <1>6, HurtsTransitive
<1>8. ASSUME s.c.on PROVE InTurn(s.c) /\ Fair(start.c, s.c)
  <2>1. t.c.on /\ InTurn(t.c) /\ Fair(start.c, t.c)
    BY <1>3, <1>6, <1>8 DEF Settled, Taken
  <2>2. start.c.round \in Nat /\ t.c.round \in Nat /\ s.c.round \in Nat
    BY <1>4, <1>6 DEF Open, Sound, Fit, States, Combats
  <2>3. InTurn(s.c) /\ \A q \in Fighters : s.c.up[q] => start.c.up[q] /\ t.c.up[q]
    BY <1>6, <1>8, <2>1 DEF Settled, Fair
  <2>4. CASE s.c.round = t.c.round /\ s.c.acted = t.c.acted
    BY <2>1, <2>2, <2>3, <2>4 DEF Fair
  <2>5. CASE s.c.round = t.c.round + 1 /\ \A q \in Fighters : s.c.up[q] => t.c.acted[q] >= 1
    <3>1. CASE t.c.round = start.c.round
      BY <2>1, <2>2, <2>3, <2>5, <3>1 DEF Fair
    <3>2. CASE t.c.round # start.c.round
      <4>1. \A q \in Fighters : t.c.acted[q] = 0
        BY <2>1, <3>2, AdvanceTurnSound DEF Open, Passed, t
      <4>2. PICK q \in Opponents : s.c.up[q]
        BY <1>6, <1>8 DEF Sound, Standing
      <4> QED
        BY <2>5, <4>1, <4>2 DEF Opponents
    <3> QED
      BY <3>1, <3>2
  <2> QED
    BY <1>6, <1>8, <2>4, <2>5 DEF Settled
<1> QED
  BY <1>6, <1>7, <1>8 DEF Taken

-----------------------------------------------------------------------------
(* Steps *)

\* The inductive invariant: what a handler owes, within the bound of the model.
Inv ==
  /\ Sound(Now)
  /\ combat.on => combat.round <= MaxRound /\ InTurn(combat)
  /\ ~combat.on => past.unchecked = 0

\* What a step does to the turns of a combat that goes on.
Turns == combat.on /\ combat'.on => Fair(combat, combat')

\* What a step does to the investigator's conditions.
Aided(h, g) == ~h.dead /\ ~g.dead /\ ~g.dying /\ g.stab = (h.stab \/ h.dying)
Moves(h, g) == Hurts(h, g) \/ Recovers(h, g) \/ Aided(h, g)

LEMMA InvFacts ==
  ASSUME Inv
  PROVE  /\ Now \in States /\ Fit(Now) /\ Sound(Now)
         /\ Now.c = combat /\ Now.h = health /\ Now.p = past
         /\ combat \in Combats /\ health \in Bodies /\ past \in Pasts /\ Agree(health)
         /\ \A q \in Opponents : combat.hp[q] <= MaxHp[q]
         /\ combat.on => Ordered(combat) /\ Punctual(combat, past) /\ Standing(combat)
                         /\ (past.outside \/ ~health.dead) /\ combat.turn < Len(combat.order)
                         /\ Len(combat.order) > 0 /\ InTurn(combat)
<1>1. Now.c = combat /\ Now.h = health /\ Now.p = past
  BY DEF Now
<1>2. Now \in States /\ Fit(Now) /\ Sound(Now)
  BY DEF Inv, Sound, Fit
<1>3. combat \in Combats /\ health \in Bodies /\ past \in Pasts
  BY <1>1, <1>2 DEF States
<1>4. combat.turn \in Nat /\ Len(combat.order) \in Nat
  BY <1>3, OrderLength DEF Combats
<1> QED
  BY <1>1, <1>2, <1>3, <1>4 DEF Sound, Fit, Alive, Inv

LEMMA NoCombatType ==
  /\ NoCombat \in Combats /\ ~NoCombat.on
  /\ \A q \in Opponents : NoCombat.hp[q] <= MaxHp[q]
<1>1. <<>> \in Orders
  BY DEF Orders, IsInjective
<1>2. \A q \in Opponents : MaxHp[q] \in Nat
  BY ProfileAssumption DEF Opponents
<1>3. 0 \in 0..Most /\ 0 \in 0..1
  BY MostType
<1> DEFINE none == [p \in Opponents |-> 0]
<1>4. none \in [Opponents -> Nat] /\ \A q \in Opponents : none[q] = 0
  OBVIOUS
<1>5. NoCombat.hp = none
  BY DEF NoCombat
<1> HIDE DEF none
<1>6. NoCombat \in Combats
  BY <1>1, <1>3 DEF NoCombat, Combats
<1> QED
  BY <1>2, <1>4, <1>5, <1>6 DEF NoCombat

LEMMA InitInv == Init => Inv
<1> SUFFICES ASSUME Init PROVE Inv
  OBVIOUS
<1>1. health \in Bodies /\ Agree(health)
  BY NewHealthAgrees DEF Init, Most
<1>2. combat = NoCombat /\ past = [unchecked |-> 0, outside |-> FALSE, lost |-> FALSE]
  BY DEF Init
<1>3. past \in Pasts /\ past.unchecked = 0
  BY <1>2 DEF Pasts
<1>4. Now \in States /\ Now.c = combat /\ Now.h = health /\ Now.p = past
  BY <1>1, <1>2, <1>3, NoCombatType DEF Now, States
<1> QED
  BY <1>1, <1>2, <1>3, <1>4, NoCombatType DEF Inv, Sound, Fit

(* A handler of the combat commits what it owes.                             *)
LEMMA BecomesInv ==
  ASSUME NEW h, NEW c, NEW p, Sound([c |-> c, h |-> h, p |-> p]), c.on => InTurn(c),
         Becomes(h, c, p)
  PROVE  Inv' /\ health' = h /\ (combat'.on => c.on /\ combat' = c)
<1> DEFINE s == [c |-> c, h |-> h, p |-> p]
<1>1. s.c = c /\ s.h = h /\ s.p = p
  OBVIOUS
<1> HIDE DEF s
<1>2. Sound(s) /\ s \in States
  BY DEF s, Sound, Fit
<1>3. c \in Combats /\ h \in Bodies /\ p \in Pasts /\ Agree(h)
  BY <1>1, <1>2 DEF Sound, Fit, States
<1>4. health' = h
  BY DEF Becomes
<1>5. CASE c.on
  <2>1. combat' = c /\ past' = p /\ c.round <= MaxRound
    BY <1>5 DEF Becomes
  <2>2. Now' = s
    BY <1>4, <2>1 DEF Now, s
  <2> QED
    BY <1>2, <1>4, <1>5, <2>1, <2>2 DEF Inv
<1>6. CASE ~c.on
  <2> DEFINE r == [p EXCEPT !.unchecked = 0, !.outside = FALSE]
  <2>1. r \in Pasts /\ r.unchecked = 0
    <3> DEFINE a == [p EXCEPT !.unchecked = 0]
    <3>1. a \in Pasts /\ a.unchecked = 0
      BY <1>3 DEF Pasts
    <3>2. r = [a EXCEPT !.outside = FALSE]
      OBVIOUS
    <3> HIDE DEF a, r
    <3> QED
      BY <3>1, <3>2 DEF Pasts
  <2>2. combat' = NoCombat /\ past' = r
    BY <1>6 DEF Becomes
  <2> HIDE DEF r
  <2> DEFINE t == [c |-> NoCombat, h |-> h, p |-> r]
  <2>3. t \in States /\ t.c = NoCombat /\ t.h = h
    BY <1>3, <2>1, NoCombatType DEF States
  <2>4. Now' = t
    BY <1>4, <2>2 DEF Now
  <2> HIDE DEF t
  <2>5. Sound(t)
    BY <1>3, <2>3, NoCombatType DEF Sound, Fit
  <2> QED
    BY <1>4, <2>1, <2>2, <2>4, <2>5, NoCombatType DEF Inv
<1> QED
  BY <1>5, <1>6

\* A combat as a handler starts with it: its turn is that of the present one.
Begins(start) ==
  /\ Open(start) /\ start.h = health /\ CurrentActor(start.c) = CurrentActor(combat)
  /\ start.c.round = combat.round /\ start.c.up = combat.up /\ start.c.acted = combat.acted

(* A handler of the combat that takes the turn commits what it owes.         *)
LEMMA CommitInv ==
  ASSUME NEW start, Begins(start), NEW s, Taken(start, s), Becomes(s.h, s.c, s.p)
  PROVE  Inv' /\ Moves(health, health') /\ Turns
<1>1. s = [c |-> s.c, h |-> s.h, p |-> s.p]
  BY DEF Taken, Sound, Fit, States
<1>2. Sound([c |-> s.c, h |-> s.h, p |-> s.p]) /\ (s.c.on => InTurn(s.c))
  BY <1>1 DEF Taken
<1>3. Inv' /\ health' = s.h /\ (combat'.on => s.c.on /\ combat' = s.c)
  BY <1>2, BecomesInv
<1>4. Moves(health, health')
  BY <1>3 DEF Taken, Begins, Moves
<1>5. Turns
  BY <1>3 DEF Taken, Begins, Turns, Fair
<1> QED
  BY <1>3, <1>4, <1>5

LEMMA CombatRests ==
  ASSUME combat' = combat
  PROVE  Turns
BY DEF Turns, Fair

(* Care beside a combat kills nobody in it.                                  *)
LEMMA CareInv ==
  ASSUME Inv, NEW h \in Bodies, Agree(h), combat.on /\ h.dead => health.dead, HealthBecomes(h)
  PROVE  Inv' /\ health' = h /\ Turns
<1>1. health' = h /\ combat' = combat /\ past' = past
  BY DEF HealthBecomes
<1> DEFINE t == [c |-> combat, h |-> h, p |-> past]
<1>2. t \in States /\ t.c = combat /\ t.h = h /\ t.p = past
  BY InvFacts DEF States
<1>3. Now' = t
  BY <1>1 DEF Now
<1> HIDE DEF t
<1>4. Sound(t)
  BY <1>2, InvFacts DEF Sound, Fit, Alive
<1> QED
  BY <1>1, <1>3, <1>4, CombatRests DEF Inv

(* What is put in beside a combat may kill in it, and is on record then.     *)
LEMMA WoundsInv ==
  ASSUME Inv, NEW ways \in SUBSET Seq(Int), Wounds(ways)
  PROVE  Inv' /\ Moves(health, health') /\ Turns
<1>1. PICK amounts \in ways, conFails \in BOOLEAN :
         health' = AdjustHp(health, Most, amounts, conFails)
  BY DEF Wounds, Most
<1> DEFINE h == AdjustHp(health, Most, amounts, conFails)
           o == past.outside \/ (combat.on /\ h # health)
           p == [past EXCEPT !.outside = o]
           t == [c |-> combat, h |-> h, p |-> p]
<1>2. h \in Bodies /\ Agree(h) /\ Hurts(health, h)
  BY InvFacts, AdjustHpAgrees
<1>3. combat' = combat /\ past' = p /\ health' = h
  BY <1>1 DEF Wounds
<1> HIDE DEF h
<1>4. p \in Pasts /\ p.unchecked = past.unchecked /\ p.outside = o
  BY InvFacts DEF Pasts
<1> HIDE DEF p
<1>5. t \in States /\ t.c = combat /\ t.h = h /\ t.p = p
  BY <1>2, <1>4, InvFacts DEF States
<1>6. Now' = t
  BY <1>3 DEF Now
<1> HIDE DEF t
<1>7. Sound(t)
  BY <1>2, <1>4, <1>5, InvFacts DEF Sound, Fit, Alive, Punctual
<1> QED
  BY <1>2, <1>3, <1>4, <1>6, <1>7, CombatRests DEF Inv, Moves

LEMMA NormalizedStart ==
  ASSUME Inv, combat.on
  PROVE  LET c == NormalizedCombat(combat)
         IN  /\ c \in Combats /\ SameRound(combat, c) /\ c.up = combat.up
             /\ (\A q \in Opponents : c.hp[q] <= MaxHp[q])
             /\ (\A q \in Fighters : c.up[q] => q \in ToSet(c.order))
             /\ Standing(c) /\ Len(c.order) > 0 /\ c.turn < Len(c.order)
             /\ InTurn(c) /\ CurrentActor(c) = CurrentActor(combat) /\ c.acted = combat.acted
<1> DEFINE c == NormalizedCombat(combat)
<1>1. /\ c \in Combats /\ SameRound(combat, c) /\ c.up = combat.up
      /\ ToSet(c.order) = Fighters /\ Len(c.order) = Len(Roster)
      /\ c.turn \in 0..(Len(Roster) - 1)
      /\ \A q \in Opponents : c.hp[q] = IF combat.hp[q] = 0 THEN MaxHp[q] ELSE combat.hp[q]
      /\ c.acted = combat.acted
  BY InvFacts, NormalizedCombatFacts DEF SameRound
<1>5. InTurn(c) /\ CurrentActor(c) = CurrentActor(combat)
  BY InvFacts, NormalizedTurns DEF Ordered
<1> HIDE DEF c
<1>2. \A q \in Opponents : MaxHp[q] \in Nat \ {0} /\ combat.hp[q] <= MaxHp[q]
                           /\ combat.hp[q] \in Nat
  BY InvFacts, ProfileAssumption DEF Opponents, Combats
<1>3. Standing(c) /\ \A q \in Opponents : c.hp[q] <= MaxHp[q]
  BY <1>1, <1>2, InvFacts DEF Standing
<1>4. Len(c.order) > 0 /\ c.turn < Len(c.order)
  BY <1>1, RosterFacts
<1> QED
  BY <1>1, <1>3, <1>4, <1>5 DEF c

LEMMA StartFacts ==
  ASSUME Inv, combat.on, NEW d \in Combats, SameRound(combat, d), d.up = combat.up,
         d.order = NormalizedCombat(combat).order, d.hp = NormalizedCombat(combat).hp,
         d.turn = NormalizedCombat(combat).turn, d.acted = combat.acted
  PROVE  Begins([Now EXCEPT !.c = d])
<1> DEFINE c     == NormalizedCombat(combat)
           start == [Now EXCEPT !.c = d]
<1>1. /\ (\A q \in Opponents : c.hp[q] <= MaxHp[q])
      /\ (\A q \in Fighters : c.up[q] => q \in ToSet(c.order))
      /\ c.up = combat.up /\ Standing(c) /\ Len(c.order) > 0 /\ c.turn < Len(c.order)
      /\ InTurn(c) /\ CurrentActor(c) = CurrentActor(combat) /\ c.acted = combat.acted
  BY NormalizedStart
<1>2. d.order = c.order /\ d.hp = c.hp /\ d.turn = c.turn
  OBVIOUS
<1> HIDE DEF c
<1>3. start \in States /\ Fit(start) /\ start.c = d /\ start.h = health /\ start.p = past
  BY <1>1, <1>2, InvFacts, SameRoundFits
<1> HIDE DEF start
<1>4. start.c.on /\ Standing(start.c) /\ Alive(start) /\ Len(start.c.order) > 0
  BY <1>1, <1>2, <1>3, InvFacts DEF Standing, Alive, SameRound
<1>5. InTurn(d) /\ CurrentActor(d) = CurrentActor(combat) /\ d.turn < Len(d.order)
  BY <1>1, <1>2 DEF InTurn, CurrentActor
<1>6. Open(start)
  BY <1>3, <1>4, <1>5 DEF Open
<1> QED
  BY <1>3, <1>5, <1>6 DEF Begins, SameRound, start

LEMMA FoeFacts ==
  ASSUME NEW c, NEW p, Foe(c, p) # 0
  PROVE  Roster[Foe(c, p)] \in Fighters
<1> DEFINE I == {i \in 1..Len(Roster) : Side(Roster[i]) # Side(p) /\ c.up[Roster[i]]}
<1>1. Roster \in Seq(Fighters) /\ Len(Roster) \in Nat
  BY RosterAssumption, RosterFacts
<1>2. Foe(c, p) = IF I # {} THEN Min(I) ELSE 0
  BY <1>1 DEF Foe, SelectInSeq
<1>3. I \in SUBSET Nat /\ I \subseteq 1..Len(Roster)
  OBVIOUS
<1> HIDE DEF I
<1>4. Foe(c, p) \in I
  BY <1>2, <1>3, MinOf
<1> DEFINE k == Foe(c, p)
<1>5. k \in 1..Len(Roster)
  BY <1>3, <1>4
<1> HIDE DEF k
<1>6. Roster[k] \in Fighters
  BY <1>1, <1>5
<1> QED
  BY <1>6 DEF k

LEMMA StartInv ==
  ASSUME Inv, combatStart
  PROVE  Inv' /\ Moves(health, health') /\ Turns
<1> DEFINE order == combatOrder(Fighters)
           hp    == [q \in Opponents |-> MaxHp[q]]
           up    == [q \in Fighters |-> TRUE]
           seen  == IF CanAdvanceDying(health) THEN 1 ELSE 0
           c     == [NoCombat EXCEPT !.on = TRUE, !.round = 1, !.order = order, !.hp = hp,
                                     !.body = health.hp, !.up = up, !.observed = seen]
<1>1. ~combat.on /\ ~health.dead /\ Becomes(health, c, past)
  BY DEF combatStart
<1>2. order \in Orders /\ ToSet(order) = Fighters /\ Len(order) > 0
  <2> DEFINE n == Cardinality(Fighters)
  <2>1. /\ n \in Nat /\ order \in [1..n -> Fighters]
        /\ \A i, j \in 1..n : order[i] = order[j] => i = j
        /\ \A q \in Fighters : \E i \in 1..n : order[i] = q
    BY OrderFacts
  <2>2. n > 0
    BY RosterFacts
  <2> HIDE DEF n, order
  <2>3. order \in Seq(Fighters) /\ Len(order) = n /\ DOMAIN order = 1..n
    BY <2>1
  <2> QED
    BY <2>1, <2>2, <2>3 DEF Orders, IsInjective, ToSet
<1>3. hp \in [Opponents -> Nat] /\ \A q \in Opponents : hp[q] = MaxHp[q] /\ hp[q] > 0
  BY ProfileAssumption DEF Opponents
<1>4. up \in [Fighters -> BOOLEAN] /\ \A q \in Fighters : up[q]
  OBVIOUS
<1>5. seen \in 0..1 /\ health.hp \in 0..Most
  BY InvFacts DEF Bodies, Healths
<1> HIDE DEF order, hp, up, seen
<1>6. c \in Combats
  <2> DEFINE n == NoCombat
  <2>1. n \in Combats /\ seen \in Nat
    BY <1>5, NoCombatType
  <2>2. c = [n EXCEPT !.on = TRUE, !.round = 1, !.order = order, !.hp = hp,
                      !.body = health.hp, !.up = up, !.observed = seen]
    OBVIOUS
  <2> HIDE DEF n, c
  <2> QED
    BY <1>2, <1>3, <1>4, <1>5, <2>1, <2>2 DEF Combats
<1>7. /\ c.on /\ c.round = 1 /\ c.order = order /\ c.hp = hp /\ c.up = up /\ c.observed = seen
      /\ c.lastCheck = 0 /\ c.turn = 0 /\ \A q \in Fighters : c.acted[q] = 0
  BY NoCombatType DEF Combats, NoCombat
<1> HIDE DEF c
<1>8. past.unchecked = 0
  BY <1>1 DEF Inv
<1>9. Ordered(c) /\ Punctual(c, past) /\ Standing(c) /\ c.turn < Len(c.order)
  <2>1. \E q \in Opponents : q \in Fighters
    BY RosterAssumption DEF Opponents
  <2> QED
    BY <1>2, <1>3, <1>4, <1>5, <1>7, <1>8, <2>1 DEF Ordered, Punctual, Standing, Opponents
<1> DEFINE s == [c |-> c, h |-> health, p |-> past]
<1>10. s \in States /\ s.c = c /\ s.h = health /\ s.p = past
  BY <1>6, InvFacts DEF States
<1> HIDE DEF s
<1>11. \A q \in Opponents : c.hp[q] <= MaxHp[q]
  <2>1. \A q \in Opponents : MaxHp[q] \in Nat
    BY ProfileAssumption DEF Opponents
  <2> QED
    BY <1>3, <1>7, <2>1
<1>12. Sound(s)
  BY <1>1, <1>7, <1>9, <1>10, <1>11, InvFacts DEF Sound, Fit, Alive
<1>14. InTurn(c)
  <2>1. c.order \in Seq(Fighters)
    BY <1>6 DEF Combats, Orders
  <2> QED
    BY <1>7, <2>1 DEF InTurn
<1>13. Inv' /\ health' = health
  BY <1>1, <1>12, <1>14, BecomesInv DEF s
<1> QED
  BY <1>1, <1>13 DEF Moves, Hurts, Turns

LEMMA EndInv ==
  ASSUME Inv, combatEnd
  PROVE  Inv' /\ Moves(health, health') /\ Turns
<1> DEFINE e == End(Now)
<1>1. e.c = [combat EXCEPT !.on = FALSE] /\ health = e.h /\ past = e.p
      /\ e = [c |-> e.c, h |-> e.h, p |-> e.p]
  <2> DEFINE off == [combat EXCEPT !.on = FALSE]
  <2>2. Now = [c |-> combat, h |-> health, p |-> past]
    BY DEF Now
  <2>3. e = [Now EXCEPT !.c = off]
    BY <2>2 DEF End
  <2> HIDE DEF off, e
  <2>4. e = [c |-> off, h |-> health, p |-> past]
    BY <2>2, <2>3
  <2>1. e = [c |-> [combat EXCEPT !.on = FALSE], h |-> health, p |-> past]
    BY <2>4 DEF off
  <2> HIDE DEF e
  <2> QED
    BY <2>1
<1>2. Sound(e) /\ ~e.c.on /\ Becomes(e.h, e.c, e.p)
  BY <1>1, InvFacts, EndFacts DEF combatEnd
<1> HIDE DEF e
<1>3. Inv' /\ health' = e.h /\ ~(combat'.on)
  BY <1>1, <1>2, BecomesInv
<1> QED
  BY <1>1, <1>3 DEF Moves, Hurts, Turns

LEMMA PassInv ==
  ASSUME Inv, combatPassTurn
  PROVE  Inv' /\ Moves(health, health') /\ Turns
<1>1. PICK passes \in BOOLEAN :
         LET s == AdvanceTurn(Now, passes) IN Becomes(s.h, s.c, s.p)
  BY DEF combatPassTurn
<1> DEFINE s == AdvanceTurn(Now, passes)
<1>2. combat.on
  BY DEF combatPassTurn
<1>3. Begins(Now)
  BY <1>2, InvFacts DEF Begins, Open, Alive
<1>4. Taken(Now, s)
  BY <1>3, TurnTaken DEF Begins
<1>5. Becomes(s.h, s.c, s.p)
  BY <1>1
<1> HIDE DEF s
<1> QED
  BY <1>3, <1>4, <1>5, CommitInv

LEMMA MeleeInv ==
  ASSUME Inv, combatResolveMelee
  PROVE  Inv' /\ Moves(health, health') /\ Turns
<1> DEFINE attacker == CurrentActor(combat)
           c        == NormalizedCombat(combat)
           start    == [Now EXCEPT !.c = c]
           defender == Roster[Foe(combat, attacker)]
           Outcomes(x) == CASE x.by = "attacker" -> Dealt(start, attacker, defender, x.mode)
                            [] x.by = "defender" -> Dealt(start, defender, attacker, x.mode)
                            [] x.by = "nobody"   -> Missed(start)
<1>1. combat.on /\ Foe(combat, attacker) # 0
  BY DEF combatResolveMelee
<1>2. PICK response \in {"dodge", "fight_back"} : \E x \in Dispositions(response) :
         \E s \in Outcomes(x) : Becomes(s.h, s.c, s.p)
  BY DEF combatResolveMelee
<1>3. PICK x \in Dispositions(response) : \E s \in Outcomes(x) : Becomes(s.h, s.c, s.p)
  BY <1>2
<1>4. PICK s \in Outcomes(x) : Becomes(s.h, s.c, s.p)
  BY <1>3
<1>5. x.by \in {"attacker", "defender", "nobody"}
  BY DEF Dispositions, combatResolveRanks
<1>6. attacker \in Fighters /\ defender \in Fighters
  BY <1>1, InvFacts, ActorFacts, FoeFacts
<1>7. Begins(start) /\ Open(start)
  BY <1>1, NormalizedStart, StartFacts DEF Begins
<1> HIDE DEF c, start, attacker, defender
<1>8. Taken(start, s)
  <2>1. CASE x.by = "attacker"
    <3>1. s \in Dealt(start, attacker, defender, x.mode)
      BY <1>4, <2>1
    <3> QED
      BY <1>6, <1>7, <3>1, DealtSound
  <2>2. CASE x.by = "defender"
    <3>1. s \in Dealt(start, defender, attacker, x.mode)
      BY <1>4, <2>2
    <3> QED
      BY <1>6, <1>7, <3>1, DealtSound
  <2>3. CASE x.by = "nobody"
    <3>1. s \in Missed(start)
      BY <1>4, <2>3
    <3> QED
      BY <1>7, <3>1, MissedSound
  <2> QED
    BY <1>5, <2>1, <2>2, <2>3
<1> HIDE DEF Outcomes
<1> QED
  BY <1>4, <1>7, <1>8, CommitInv

LEMMA ShotInv ==
  ASSUME Inv, firearmsResolveShot
  PROVE  Inv' /\ Moves(health, health') /\ Turns
<1> DEFINE shooter == CurrentActor(combat)
           c       == NormalizedCombat(combat)
           target  == Roster[Foe(combat, shooter)]
           Ready(dives) == IF dives THEN [c EXCEPT !.forfeit[target] = Max({1, @})] ELSE c
           Start(dives) == [Now EXCEPT !.c = Ready(dives)]
           Outcomes(dives, result) ==
              IF result = "miss" THEN Missed(Start(dives))
              ELSE Dealt(Start(dives), shooter, target, result)
<1>1. combat.on /\ Foe(combat, shooter) # 0
  BY DEF firearmsResolveShot
<1>2. PICK dives \in BOOLEAN, result \in {"miss", "regular", "impaling"} :
         \E s \in Outcomes(dives, result) : Becomes(s.h, s.c, s.p)
  BY DEF firearmsResolveShot
<1>3. PICK s \in Outcomes(dives, result) : Becomes(s.h, s.c, s.p)
  BY <1>2
<1>4. shooter \in Fighters /\ target \in Fighters
  BY <1>1, InvFacts, ActorFacts, FoeFacts
<1>5. c \in Combats /\ SameRound(combat, c) /\ c.up = combat.up /\ c.acted = combat.acted
  BY <1>1, NormalizedStart
<1> DEFINE d == Ready(dives)
<1>6. /\ d \in Combats /\ SameRound(combat, d) /\ d.up = combat.up
      /\ d.order = c.order /\ d.hp = c.hp /\ d.turn = c.turn /\ d.acted = combat.acted
  <2> HIDE DEF c, target
  <2>1. CASE dives
    <3> DEFINE forfeit == [c.forfeit EXCEPT ![target] = Max({1, @})]
    <3>1. c.forfeit \in [Fighters -> 0..1]
      BY <1>5 DEF Combats
    <3>2. c.forfeit[target] \in 0..1
      BY <1>4, <3>1
    <3>3. Max({1, c.forfeit[target]}) \in 0..1
      BY <3>2, MaxOfTwo
    <3>4. forfeit \in [Fighters -> 0..1]
      BY <3>1, <3>3
    <3>5. d = [c EXCEPT !.forfeit = forfeit]
      BY <2>1
    <3> HIDE DEF d, forfeit
    <3>6. d \in Combats
      BY <1>5, <3>4, <3>5 DEF Combats
    <3>7. /\ SameRound(c, d) /\ d.up = c.up /\ d.order = c.order /\ d.hp = c.hp
          /\ d.turn = c.turn /\ d.acted = c.acted
      BY <1>5, <3>5 DEF Combats, SameRound
    <3> QED
      BY <1>5, <3>6, <3>7 DEF SameRound
  <2>2. CASE ~dives
    BY <1>5, <2>2
  <2> QED
    BY <2>1, <2>2
<1> DEFINE start == Start(dives)
<1>7. start = [Now EXCEPT !.c = d]
  OBVIOUS
<1>8. s \in IF result = "miss" THEN Missed(start) ELSE Dealt(start, shooter, target, result)
  BY <1>3
<1> HIDE DEF d, Outcomes, start
<1>9. Begins(start) /\ Open(start)
  BY <1>1, <1>6, <1>7, StartFacts DEF Begins
<1> HIDE DEF shooter, target, c
<1>10. Taken(start, s)
  BY <1>4, <1>8, <1>9, MissedSound, DealtSound
<1> QED
  BY <1>3, <1>9, <1>10, CommitInv

LEMMA CareStepInv ==
  ASSUME Inv, dyingRound \/ firstAid \/ naturalDay \/ majorWoundWeek \/ medicine
  PROVE  Inv' /\ Moves(health, health') /\ Turns
<1>1. health \in Bodies /\ Agree(health)
  BY InvFacts
<1>2. CASE dyingRound
  <2>1. PICK passes \in BOOLEAN : HealthBecomes(DyingRound(health, passes))
    BY <1>2 DEF dyingRound
  <2>2. ~combat.on /\ CanAdvanceDying(health)
    BY <1>2 DEF dyingRound
  <2> DEFINE h == DyingRound(health, passes)
  <2>3. h \in Bodies /\ Agree(h) /\ Hurts(health, h)
    BY <1>1, <2>2, DyingRoundAgrees, DyingRoundHurts
  <2> HIDE DEF h
  <2>4. Inv' /\ health' = h /\ Turns
    BY <2>1, <2>2, <2>3, CareInv DEF h
  <2> QED
    BY <2>3, <2>4 DEF Moves
<1>3. CASE firstAid
  <2>1. PICK success \in BOOLEAN :
           HealthBecomes(IF success THEN FirstAid(health, Most) ELSE Normalized(health))
    BY <1>3 DEF firstAid, Most
  <2>2. CanTreat(health, Most)
    BY <1>3 DEF firstAid, Most
  <2> DEFINE h == IF success THEN FirstAid(health, Most) ELSE Normalized(health)
  <2>3. h \in Bodies /\ Agree(h) /\ (h.dead => health.dead) /\ Moves(health, h)
    <3>1. CASE success
      <4>1. h = FirstAid(health, Most)
        BY <3>1
      <4> QED
        BY <1>1, <2>2, <4>1, FirstAidAgrees DEF Moves, Aided
    <3>2. CASE ~success
      <4>1. h = Normalized(health)
        BY <3>2
      <4>2. Marked(health)
        BY <1>1 DEF Agree
      <4> QED
        BY <1>1, <4>1, <4>2, NormalizedAgrees DEF Moves, Recovers
    <3> QED
      BY <3>1, <3>2
  <2>4. HealthBecomes(h)
    BY <2>1
  <2> HIDE DEF h
  <2> QED
    BY <2>3, <2>4, CareInv
<1>4. CASE naturalDay
  <2> DEFINE h == NaturalDay(health, Most)
  <2>1. HealthBecomes(h)
    BY <1>4 DEF naturalDay, Most
  <2>2. h \in Bodies /\ Agree(h) /\ SameLife(health, h)
    BY <1>1, NaturalDayAgrees
  <2> HIDE DEF h
  <2>3. Inv' /\ health' = h /\ Turns
    BY <2>1, <2>2, CareInv DEF SameLife
  <2> QED
    BY <2>2, <2>3 DEF SameLife, Recovers, Moves
<1>5. CASE majorWoundWeek
  <2>6. PICK level \in {"failure", "success", "extreme"} : \E gain \in WeekGains(level) :
           HealthBecomes(MajorWoundWeek(health, Most, level, gain))
    BY <1>5 DEF majorWoundWeek, Most
  <2>1. PICK gain \in WeekGains(level) :
           HealthBecomes(MajorWoundWeek(health, Most, level, gain))
    BY <2>6
  <2>2. CanRollWeek(health)
    BY <1>5 DEF majorWoundWeek
  <2> DEFINE h == MajorWoundWeek(health, Most, level, gain)
  <2>3. h \in Bodies /\ Agree(h) /\ Recovers(health, h)
    BY <1>1, <2>2, WeekAgrees
  <2>4. HealthBecomes(h)
    BY <2>1
  <2> HIDE DEF h
  <2>5. Inv' /\ health' = h /\ Turns
    BY <2>3, <2>4, CareInv DEF Recovers
  <2> QED
    BY <2>3, <2>5 DEF Moves
<1>6. CASE medicine
  <2>6. PICK success \in BOOLEAN : \E gain \in MedicineGains(success) :
           HealthBecomes(Medicine(health, Most, success, gain))
    BY <1>6 DEF medicine, Most
  <2>1. PICK gain \in MedicineGains(success) :
           HealthBecomes(Medicine(health, Most, success, gain))
    BY <2>6
  <2>2. CanUseMedicine(health, Most)
    BY <1>6 DEF medicine, Most
  <2> DEFINE h == Medicine(health, Most, success, gain)
  <2>3. h \in Bodies /\ Agree(h) /\ Recovers(health, h)
    BY <1>1, <2>2, MedicineAgrees
  <2>4. HealthBecomes(h)
    BY <2>1
  <2> HIDE DEF h
  <2>5. Inv' /\ health' = h /\ Turns
    BY <2>3, <2>4, CareInv DEF Recovers
  <2> QED
    BY <2>3, <2>5 DEF Moves
<1> QED
  BY <1>2, <1>3, <1>4, <1>5, <1>6

LEMMA ReloadInv ==
  ASSUME Inv, reload
  PROVE  Inv' /\ Moves(health, health') /\ Turns
<1> DEFINE h == Normalized(health)
           c == IF combat.on THEN NormalizedCombat(combat) ELSE combat
           t == [c |-> c, h |-> h, p |-> past]
<1>1. /\ h \in Bodies /\ Agree(h) /\ h.dead = health.dead /\ h.dying = health.dying
      /\ h.stab = health.stab
  BY InvFacts, NormalizedAgrees DEF Agree
<1>2. health' = h /\ combat' = c /\ past' = past
  BY DEF reload
<1> HIDE DEF h
<1>3. /\ c \in Combats /\ SameRound(combat, c) /\ (\A q \in Opponents : c.hp[q] <= MaxHp[q])
      /\ combat.on => /\ Standing(c) /\ c.turn < Len(c.order)
                      /\ \A q \in Fighters : c.up[q] => q \in ToSet(c.order)
                      /\ InTurn(c) /\ c.up = combat.up /\ c.acted = combat.acted
  <2>1. CASE combat.on
    BY <2>1, NormalizedStart
  <2>2. CASE ~combat.on
    BY <2>2, InvFacts DEF SameRound
  <2> QED
    BY <2>1, <2>2
<1> HIDE DEF c
<1>4. t \in States /\ t.c = c /\ t.h = h /\ t.p = past
  BY <1>1, <1>3, InvFacts DEF States
<1>5. Now' = t
  BY <1>2 DEF Now
<1> HIDE DEF t
<1>6. Sound(t)
  BY <1>1, <1>3, <1>4, InvFacts DEF Sound, Fit, Alive, Ordered, Punctual, SameRound
<1>7. Turns
  BY <1>2, <1>3 DEF Turns, Fair, SameRound
<1> QED
  BY <1>1, <1>2, <1>3, <1>5, <1>6, <1>7 DEF Inv, SameRound, Moves, Recovers

LEMMA RepliesType == Replies \subseteq Seq(Int)
<1>1. Blows \subseteq Int
  BY AmountsAssumption
<1>2. \A a, b \in Blows : <<a>> \in Seq(Int) /\ <<a, b>> \in Seq(Int)
  BY <1>1
<1>3. <<>> \in Seq(Int)
  OBVIOUS
<1>4. \A r \in Replies : r = <<>> \/ (\E a \in Blows : r = <<a>>) \/ \E a, b \in Blows : r = <<a, b>>
  BY DEF Replies
<1> QED
  BY <1>2, <1>3, <1>4, Zenon

LEMMA PlainReplyInv ==
  ASSUME Inv, plainReply
  PROVE  Inv' /\ Moves(health, health') /\ Turns
<1>1. PICK amounts \in Replies, conFails \in BOOLEAN :
         HealthBecomes(AdjustHp(health, Most, StrippedInCombat(amounts), conFails))
  BY DEF plainReply, Most
<1> DEFINE left == StrippedInCombat(amounts)
           h    == AdjustHp(health, Most, left, conFails)
<1>2. left \in Seq(Int) /\ (combat.on => left = <<>>)
  BY RepliesType DEF StrippedInCombat
<1> HIDE DEF left
<1>3. h \in Bodies /\ Agree(h) /\ Hurts(health, h) /\ (left = <<>> => h = health)
  BY <1>2, InvFacts, AdjustHpAgrees
<1>4. HealthBecomes(h)
  BY <1>1 DEF left
<1> HIDE DEF h
<1> QED
  BY <1>2, <1>3, <1>4, CareInv DEF Moves

LEMMA ContinuationInv ==
  ASSUME Inv, continuation \/ secretCheck
  PROVE  Inv' /\ Moves(health, health') /\ Turns
<1>1. CASE continuation
  <2> DEFINE ways == {ContinuationHp(record, StrippedInCombat(amounts), health.hp) :
                        record \in Records, amounts \in Replies}
  <2>1. ASSUME NEW record \in Records, NEW amounts \in Replies
        PROVE  ContinuationHp(record, StrippedInCombat(amounts), health.hp) \in Seq(Int)
    <3>1. StrippedInCombat(amounts) \in Replies
      BY DEF StrippedInCombat, Replies
    <3>2. health.hp \in 0..MaxHp[Player]
      BY InvFacts DEF Bodies, Healths, Most
    <3> QED
      BY <3>1, <3>2, AmountsAssumption
  <2>2. ways \in SUBSET Seq(Int)
    <3>1. \A w \in ways : \E record \in Records, amounts \in Replies :
             w = ContinuationHp(record, StrippedInCombat(amounts), health.hp)
      OBVIOUS
    <3> HIDE DEF ways
    <3>2. \A w \in ways : w \in Seq(Int)
      BY <2>1, <3>1, Zenon
    <3> QED
      BY <3>2
  <2>3. Wounds(ways)
    BY <1>1 DEF continuation
  <2> HIDE DEF ways
  <2> QED
    BY <2>2, <2>3, WoundsInv
<1>2. CASE secretCheck
  <2> DEFINE ways == {<<amount>> : amount \in Blows}
  <2>1. ways \in SUBSET Seq(Int)
    <3>1. ways \subseteq Replies
      BY DEF Replies
    <3> QED
      BY <3>1, RepliesType
  <2>2. Wounds(ways)
    BY <1>2 DEF secretCheck
  <2> HIDE DEF ways
  <2> QED
    BY <2>1, <2>2, WoundsInv
<1> QED
  BY <1>1, <1>2

LEMMA NextInv ==
  ASSUME Inv, [Next]_vars
  PROVE  Inv' /\ Moves(health, health') /\ Turns
<1>1. CASE Next
  BY <1>1, StartInv, EndInv, PassInv, MeleeInv, ShotInv, CareStepInv, ReloadInv, PlainReplyInv,
     ContinuationInv DEF Next, Fight, Care, Story
<1>2. CASE UNCHANGED vars
  <2>1. health' = health /\ combat' = combat /\ past' = past
    BY <1>2 DEF vars
  <2>2. Now' = Now
    BY <2>1 DEF Now
  <2> QED
    BY <2>1, <2>2, CombatRests DEF Inv, Moves, Hurts
<1> QED
  BY <1>1, <1>2

LEMMA InvAlways == Spec => []Inv
<1>1. Init => Inv
  BY InitInv
<1>2. Inv /\ [Next]_vars => Inv'
  BY NextInv
<1> QED
  BY <1>1, <1>2, PTL DEF Spec

-----------------------------------------------------------------------------
(* Theorems *)

(* Through blows, care, recovery, replies and secret checks in any order the *)
(* investigator's conditions agree, and the order, the turn, the rounds and  *)
(* the hit points of the combat are what its handlers index and count with.  *)
THEOREM SoloCombatTypes == Spec => []TypeOK
<1>1. ASSUME Inv PROVE TypeOK
  <2>1. health \in Healths(MaxHp[Player]) /\ ConditionsAgree
    BY InvFacts, <1>1 DEF ConditionsAgree, Agree, Marked, Bodies, Most
  <2>2. /\ combat.on \in BOOLEAN /\ combat.acted \in [Fighters -> Nat]
        /\ combat.hp \in [Opponents -> Nat] /\ combat.body \in 0..MaxHp[Player]
        /\ combat.up \in [Fighters -> BOOLEAN] /\ combat.forfeit \in [Fighters -> 0..1]
        /\ combat.round \in Nat /\ combat.turn \in Nat /\ combat.observed \in Nat
        /\ combat.lastCheck \in Nat /\ combat.order \in Orders
    BY InvFacts, <1>1 DEF Combats, Most
  <2>3. \A p \in Opponents : combat.hp[p] <= MaxHp[p]
    BY InvFacts, <1>1
  <2>4. ASSUME combat.on
        PROVE  /\ combat.round \in 1..MaxRound
               /\ combat.turn \in 0..(Len(combat.order) - 1)
               /\ combat.observed \in 0..combat.round
               /\ combat.lastCheck \in 0..combat.round
    <3>1. /\ Ordered(combat) /\ combat.turn < Len(combat.order) /\ combat.round <= MaxRound
          /\ MaxRound \in Nat /\ Len(combat.order) \in Nat
      BY <1>1, <2>2, <2>4, InvFacts, OrderLength, ProfileAssumption DEF Inv
    <3> QED
      BY <2>2, <3>1 DEF Ordered
  <2>5. ToSet(combat.order) \subseteq Fighters /\ IsInjective(combat.order)
    BY <2>2 DEF Orders, ToSet
  <2> QED
    BY <2>1, <2>2, <2>3, <2>4, <2>5 DEF TypeOK
<1> QED
  BY <1>1, InvAlways, PTL

(* No combat goes on without an opponent who can fight, and none with a dead *)
(* investigator unless the story killed beside it.                           *)
THEOREM NoEmptyCombat == Spec => []BothSidesStand
<1>1. ASSUME Inv PROVE BothSidesStand
  BY InvFacts, <1>1 DEF BothSidesStand, Standing
<1> QED
  BY <1>1, InvAlways, PTL

(* However the rounds end, the dying are checked at the end of every round   *)
(* but the one they were first seen in.                                      *)
THEOREM SoloDyingAreChecked == Spec => []DyingCheckedEveryRound
<1>1. ASSUME Inv PROVE DyingCheckedEveryRound
  <2>1. past.unchecked \in 0..2 /\ (combat.on => Punctual(combat, past))
    BY InvFacts, <1>1 DEF Pasts
  <2> QED
    BY <2>1 DEF DyingCheckedEveryRound, Punctual
<1> QED
  BY <1>1, InvAlways, PTL

LEMMA MovesFollowLifecycle ==
  ASSUME health \in Bodies, Agree(health), health' \in Bodies, Agree(health'),
         Moves(health, health')
  PROVE  [Lifecycle!Next]_Condition
<1>1. /\ health.dead \in BOOLEAN /\ health.dying \in BOOLEAN /\ health.stab \in BOOLEAN
      /\ health'.dead \in BOOLEAN /\ health'.dying \in BOOLEAN /\ health'.stab \in BOOLEAN
  BY DEF Bodies, Healths
<1>2. CASE Hurts(health, health')
  BY <1>1, <1>2 DEF Hurts, Agree, Marked, Condition, Lifecycle!Next, Lifecycle!Collapse,
     Lifecycle!Stabilize, Lifecycle!Recover, Lifecycle!Die
<1>3. CASE Recovers(health, health')
  BY <1>1, <1>3 DEF Recovers, Agree, Marked, Condition, Lifecycle!Next, Lifecycle!Collapse,
     Lifecycle!Stabilize, Lifecycle!Recover, Lifecycle!Die
<1>4. CASE Aided(health, health')
  BY <1>1, <1>4 DEF Aided, Agree, Marked, Condition, Lifecycle!Next, Lifecycle!Collapse,
     Lifecycle!Stabilize, Lifecycle!Recover, Lifecycle!Die
<1> QED
  BY <1>2, <1>3, <1>4 DEF Moves

(* The page's health rules implement the life cycle of an investigator:      *)
(* whatever heals or hurts, death is final and only First Aid ends dying.    *)
THEOREM SoloHealthFollowsLifecycle == Spec => FollowsLifecycle
<1>1. Init => Lifecycle!Init
  BY DEF Init, NewHealth, Condition, Lifecycle!Init
<1>2. Inv /\ Inv' /\ [Next]_vars => [Lifecycle!Next]_Condition
  <2> SUFFICES ASSUME Inv, Inv', [Next]_vars PROVE [Lifecycle!Next]_Condition
    OBVIOUS
  <2>1. Moves(health, health')
    BY NextInv
  <2>2. health \in Bodies /\ Agree(health)
    BY InvFacts
  <2>3. health' \in Bodies /\ Agree(health')
    <3>1. Now'.h = health'
      BY DEF Now
    <3> QED
      BY <3>1 DEF Inv, Sound, Fit, States
  <2> QED
    BY <2>1, <2>2, <2>3, MovesFollowLifecycle
<1> QED
  BY <1>1, <1>2, InvAlways, PTL DEF Spec, FollowsLifecycle, Lifecycle!Spec

(* Defeats take fighters out of the order and put the turn back, and those   *)
(* who are out come back at its end; still nobody who fights acts twice in a *)
(* round, and no round ends before everybody who fights has acted.           *)
THEOREM EverybodyHasOneTurn == Spec => OneTurnEach
<1>1. ASSUME Inv PROVE ActsOncePerRound
  <2> SUFFICES ASSUME combat.on, NEW p \in Fighters, combat.up[p] PROVE combat.acted[p] <= 1
    BY DEF ActsOncePerRound
  <2>1. combat.order \in Seq(Fighters) /\ p \in ToSet(combat.order) /\ InTurn(combat)
    BY <1>1, InvFacts DEF Combats, Orders, Ordered
  <2>2. PICK i \in 1..Len(combat.order) : combat.order[i] = p
    BY <2>1 DEF ToSet
  <2>3. combat.acted[p] = 1 \/ combat.acted[p] = 0
    BY <2>1, <2>2 DEF InTurn
  <2> QED
    BY <2>3
<1>2. ASSUME Inv, [Next]_vars PROVE NobodyIsSkipped
  <2> SUFFICES ASSUME combat.on, combat'.on, combat'.round # combat.round,
                      NEW p \in Fighters \ {CurrentActor(combat)}, combat'.up[p]
               PROVE  combat.acted[p] >= 1
    BY DEF NobodyIsSkipped
  <2>1. Fair(combat, combat') /\ combat.round \in Nat
    BY <1>2, NextInv, InvFacts DEF Turns, Combats
  <2> QED
    BY <2>1 DEF Fair
<1>3. Inv /\ [Next]_vars => Inv'
  BY NextInv
<1>4. Inv' => ActsOncePerRound'
  BY <1>1, PTL
<1>5. Inv /\ [Next]_vars => [ActsOncePerRound' /\ NobodyIsSkipped]_vars
  BY <1>2, <1>3, <1>4
<1> QED
  BY <1>5, InvAlways, PTL DEF Spec, OneTurnEach
=============================================================================
