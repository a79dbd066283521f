--------------------------- MODULE SoloStoryProofs ---------------------------
(* The story of the single-player page, for every scenario: any nodes,       *)
(* clocks with any rules, gates, and effects of replies and checks.  The     *)
(* clocks keep pace with the turns, settled clocks stay as they are, an      *)
(* ending is earned, every loss of sanity is counted once, and a check costs *)
(* what its author wrote, and once.                                          *)
(*                                                                           *)
(* The model computes along a sequence by a function of the positions; that  *)
(* it exists (Iterated) and that what it passes on holds at the end (UpTo)   *)
(* follow from the least position where they would not.                      *)
EXTENDS CostSweep, SoloStory, FiniteSetTheorems, FunctionTheorems, SequenceTheorems,
        WellFoundedInduction, TLAPS

-----------------------------------------------------------------------------
(* Numbers, sequences and recursion *)

(* A set of natural numbers has a least one.                                 *)
LEMMA LeastOf ==
  ASSUME NEW T \in SUBSET Nat, T # {}
  PROVE  \E m \in T : \A n \in T : m <= n
<1> DEFINE R == OpToRel(<, Nat)
<1>1. IsWellFoundedOn(R, Nat)
  BY NatLessThanWellFounded
<1>2. \A m, n \in Nat : n < m => <<n, m>> \in R
  BY DEF OpToRel
<1> HIDE DEF R
<1>3. PICK m \in T : \A n \in T : ~ (<<n, m>> \in R)
  BY <1>1, WFMin
<1>4. m \in Nat /\ \A n \in T : n \in Nat
  OBVIOUS
<1>5. ASSUME NEW n \in T PROVE ~ (n < m)
  BY <1>2, <1>3, <1>4, Zenon
<1>6. \A n \in T : m <= n
  BY <1>4, <1>5
<1> QED
  BY <1>6

(* The smallest of a set of natural numbers is one that is least.            *)
LEMMA MinOf ==
  ASSUME NEW T \in SUBSET Nat, T # {}
  PROVE  Min(T) \in T
BY LeastOf DEF Min

(* The smaller and the larger of two numbers.                                *)
LEMMA Pairs ==
  ASSUME NEW a \in Int, NEW b \in Int
  PROVE  /\ Min({a, b}) = IF a <= b THEN a ELSE b
         /\ Max({a, b}) = IF a >= b THEN a ELSE b
<1>1. /\ Min({a, b}) \in {a, b} /\ \A y \in {a, b} : Min({a, b}) <= y
  <2>1. \E x \in {a, b} : \A y \in {a, b} : x <= y
    OBVIOUS
  <2> QED
    BY <2>1 DEF Min
<1>2. /\ Max({a, b}) \in {a, b} /\ \A y \in {a, b} : Max({a, b}) >= y
  <2>1. \E x \in {a, b} : \A y \in {a, b} : x >= y
    OBVIOUS
  <2> QED
    BY <2>1 DEF Max
<1> HIDE DEF Min, Max
<1> QED
  BY <1>1, <1>2

(* What holds at 0 and passes from every number to the next holds up to n.   *)
LEMMA UpTo ==
  ASSUME NEW n \in Nat, NEW P, 0 \in P, \A i \in 1..n : i - 1 \in P => i \in P
  PROVE  0..n \subseteq P
<1> DEFINE missed == {i \in 0..n : i \notin P}
<1>1. SUFFICES ASSUME missed # {} PROVE FALSE
  OBVIOUS
<1>2. PICK m \in missed : \A i \in missed : m <= i
  <2>1. missed \in SUBSET Nat
    OBVIOUS
  <2> HIDE DEF missed
  <2> QED
    BY <1>1, <2>1, LeastOf
<1>3. m \in 1..n /\ m - 1 \in 0..n
  BY <1>2
<1>4. m - 1 \in P
  BY <1>2, <1>3
<1> QED
  BY <1>2, <1>3, <1>4

(* Whatever is computed from its predecessor, one step at a time, exists.    *)
Computes(f, m, S, first, step) ==
  /\ f \in [0..m -> S] /\ f[0] = first
  /\ \A i \in 1..m : f[i] = step[i][f[i - 1]]

(* A computation goes on by one step.                                        *)
LEMMA OneMore ==
  ASSUME NEW n \in Nat, NEW S, NEW first \in S, NEW step \in [1..n -> [S -> S]],
         NEW m \in 1..n, NEW f, Computes(f, m - 1, S, first, step)
  PROVE  \E g : Computes(g, m, S, first, step)
<1> DEFINE next == step[m][f[m - 1]]
           g == [i \in 0..m |-> IF i = m THEN next ELSE f[i]]
<1>1. f \in [0..(m - 1) -> S] /\ f[0] = first
  BY DEF Computes
<1>2. next \in S
  BY <1>1
<1> HIDE DEF next
<1>3. g \in [0..m -> S] /\ g[0] = first
  BY <1>1, <1>2
<1>4. ASSUME NEW i \in 1..m PROVE g[i] = step[i][g[i - 1]]
  <2>1. g[i - 1] = f[i - 1]
    OBVIOUS
  <2>2. CASE i = m
    <3>1. g[i] = next
      BY <2>2
    <3> QED
      BY <2>1, <2>2, <3>1 DEF next
  <2>3. CASE i # m
    <3>1. i \in 1..(m - 1) /\ g[i] = f[i]
      BY <2>3
    <3>2. f[i] = step[i][f[i - 1]]
      BY <3>1 DEF Computes
    <3> QED
      BY <2>1, <3>1, <3>2
  <2> QED
    BY <2>2, <2>3
<1>5. Computes(g, m, S, first, step)
  BY <1>3, <1>4 DEF Computes
<1> QED
  BY <1>5

(* A computation from the first value to the last exists.                    *)
LEMMA Iterated ==
  ASSUME NEW n \in Nat, NEW S, NEW first \in S, NEW step \in [1..n -> [S -> S]]
  PROVE  \E f : Computes(f, n, S, first, step)
<1> DEFINE P == {m \in 0..n : \E f : Computes(f, m, S, first, step)}
<1>1. 0 \in P
  <2>1. Computes([i \in 0..0 |-> first], 0, S, first, step)
    BY DEF Computes
  <2> QED
    BY <2>1
<1>2. ASSUME NEW m \in 1..n, m - 1 \in P PROVE m \in P
  <2>1. \E f : Computes(f, m, S, first, step)
    BY <1>2, OneMore
  <2> QED
    BY <2>1
<1> HIDE DEF P
<1>3. 0..n \subseteq P
  BY <1>1, <1>2, UpTo
<1>4. n \in P
  BY <1>3
<1> QED
  BY <1>4 DEF P

(* The values of a sequence of values are its elements.                      *)
LEMMA Elements ==
  ASSUME NEW S, NEW s \in Seq(S)
  PROVE  /\ Len(s) \in Nat /\ \A i \in 1..Len(s) : s[i] \in S /\ s[i] \in ToSet(s)
         /\ \A e \in ToSet(s) : e \in S /\ \E i \in 1..Len(s) : s[i] = e
BY DEF ToSet

(* The elements of two sequences put together.                               *)
LEMMA ElementsOfConcat ==
  ASSUME NEW S, NEW s \in Seq(S), NEW u \in Seq(S)
  PROVE  ToSet(s \o u) = ToSet(s) \cup ToSet(u)
<1> DEFINE n == Len(s)
           m == Len(u)
           w == s \o u
<1>1. n \in Nat /\ m \in Nat /\ w \in Seq(S) /\ Len(w) = n + m
      /\ (\A i \in 1..n : w[i] = s[i]) /\ (\A i \in (n + 1)..(n + m) : w[i] = u[i - n])
  OBVIOUS
<1>2. \A i \in 1..n : i \in 1..(n + m)
  BY <1>1
<1>3. \A i \in 1..m : i + n \in (n + 1)..(n + m) /\ i + n \in 1..(n + m) /\ (i + n) - n = i
  BY <1>1
<1>4. \A i \in 1..(n + m) : i \in 1..n \/ (i \in (n + 1)..(n + m) /\ i - n \in 1..m)
  BY <1>1
<1>5. /\ ToSet(s) = {s[i] : i \in 1..n} /\ ToSet(u) = {u[i] : i \in 1..m}
      /\ ToSet(w) = {w[i] : i \in 1..(n + m)}
  BY <1>1 DEF ToSet
<1> HIDE DEF n, m, w
<1>6. ASSUME NEW e \in ToSet(w) PROVE e \in ToSet(s) \cup ToSet(u)
  <2>1. PICK i \in 1..(n + m) : e = w[i]
    BY <1>5
  <2> QED
    BY <1>1, <1>4, <1>5, <2>1
<1>7. ToSet(s) \subseteq ToSet(w)
  BY <1>1, <1>2, <1>5
<1>8. ASSUME NEW e \in ToSet(u) PROVE e \in ToSet(w)
  <2>1. PICK i \in 1..m : e = u[i]
    BY <1>5
  <2>2. w[i + n] = e
    BY <1>1, <1>3, <2>1
  <2> QED
    BY <1>3, <1>5, <2>2
<1> QED
  BY <1>6, <1>7, <1>8 DEF w

(* What holds of the empty sequence and of one element more holds of all.    *)
LEMMA AllSequences ==
  ASSUME NEW S, NEW T, <<>> \in T, \A s \in Seq(S), e \in S : s \in T => Append(s, e) \in T
  PROVE  Seq(S) \subseteq T
<1> SUFFICES ASSUME NEW s \in Seq(S) PROVE s \in T
  OBVIOUS
<1> DEFINE n == Len(s)
           part(i) == SubSeq(s, 1, i)
           P == {i \in 0..n : part(i) \in T}
<1>1. n \in Nat /\ part(0) = <<>> /\ part(n) = s
  OBVIOUS
<1>2. 0 \in P
  <2> HIDE DEF part
  <2>1. 0 \in 0..n /\ part(0) \in T
    BY <1>1
  <2> QED
    BY <2>1
<1>3. ASSUME NEW i \in 1..n, i - 1 \in P PROVE i \in P
  <2> DEFINE a == part(i - 1)
             b == part(i)
  <2>1. s[i] \in S /\ i \in 0..n /\ a \in T
    <3> HIDE DEF part
    <3> QED
      BY <1>3
  <2>2. a \in Seq(S)
    OBVIOUS
  <2>3. b = Append(a, s[i])
    <3>1. Len(b) = i /\ Len(a) = i - 1 /\ b \in Seq(S)
      OBVIOUS
    <3>2. \A j \in 1..i : b[j] = s[j]
      OBVIOUS
    <3>3. \A j \in 1..(i - 1) : a[j] = s[j]
      OBVIOUS
    <3> HIDE DEF a, b
    <3>4. Append(a, s[i]) \in Seq(S) /\ Len(Append(a, s[i])) = i
          /\ \A j \in 1..i : Append(a, s[i])[j] = s[j]
      BY <2>1, <2>2, <3>1, <3>3
    <3> QED
      BY <3>1, <3>2, <3>4
  <2> HIDE DEF a, part
  <2> QED
    BY <2>1, <2>2, <2>3
<1>4. 0..n \subseteq P
  <2> HIDE DEF P
  <2> QED
    BY <1>1, <1>2, <1>3, UpTo
<1> HIDE DEF part
<1> QED
  BY <1>1, <1>4

(* Two functions that start alike and go on alike are alike.                 *)
LEMMA Alike ==
  ASSUME NEW n \in Nat, NEW f, NEW g, f[0] = g[0],
         \A i \in 1..n : f[i - 1] = g[i - 1] => f[i] = g[i]
  PROVE  f[n] = g[n]
<1> DEFINE P == {i \in 0..n : f[i] = g[i]}
<1>1. 0 \in P
  OBVIOUS
<1>2. \A i \in 1..n : i - 1 \in P => i \in P
  OBVIOUS
<1>3. 0..n \subseteq P
  <2> HIDE DEF P
  <2> QED
    BY <1>1, <1>2, UpTo
<1> QED
  BY <1>3

(* The elements of a longer sequence.                                        *)
LEMMA OneElementMore ==
  ASSUME NEW S, NEW s \in Seq(S), NEW e
  PROVE  ToSet(Append(s, e)) = ToSet(s) \cup {e}
<1> DEFINE u == Append(s, e)
           n == Len(s)
<1>1. /\ n \in Nat /\ DOMAIN s = 1..n /\ DOMAIN u = 1..(n + 1) /\ u[n + 1] = e
      /\ \A i \in 1..n : u[i] = s[i]
  OBVIOUS
<1> HIDE DEF u, n
<1> QED
  BY <1>1 DEF ToSet, u

-----------------------------------------------------------------------------
(* The clocks *)

Fire == [count : Nat, last : Int, seen : BOOLEAN]
Ids(c) == {r.id : r \in Rules(c)}
ClockStates(c) == [current : 0..ClockMax[c], triggered : BOOLEAN, resolved : BOOLEAN,
                   fresh : BOOLEAN, fires : [Ids(c) -> Fire]]

(* A rule about events has fired at most once for each of n events, and when *)
(* its clock has a new one and it has not fired on it, less often.           *)
Answers(c, k, n) ==
  \A r \in Rules(c) : r.event = "semantic" =>
    /\ k.fires[r.id].count <= n
    /\ k.fresh /\ ~ k.fires[r.id].seen => k.fires[r.id].count < n

Sound(c, k, n) ==
  /\ k \in ClockStates(c)
  /\ k.triggered <=> k.current = ClockMax[c]
  /\ Answers(c, k, n)

(* The rules of a clock, and what tells them apart.                          *)
LEMMA RuleFacts ==
  ASSUME NEW c \in AuthoredClocks
  PROVE  /\ Rules(c) = ToSet(AdvanceRules[c]) \cup ToSet(ResolveRules[c])
         /\ \A r, s \in Rules(c) : r.id = s.id => r = s
         /\ \A r \in ToSet(AdvanceRules[c]) : r.amount \in Nat \ {0}
<1> DEFINE A == AdvanceRules[c]
           R == ResolveRules[c]
           S == ToSet(A) \cup ToSet(R)
<1>1. A \in Seq(ToSet(A)) /\ R \in Seq(ToSet(R))
  BY RuleAssumption
<1>2. A \in Seq(S) /\ R \in Seq(S)
  BY <1>1
<1>3. Rules(c) = ToSet(A \o R)
  BY DEF Rules
<1> HIDE DEF A, R, S
<1>4. ToSet(A \o R) = ToSet(A) \cup ToSet(R)
  BY <1>2, ElementsOfConcat
<1> QED
  BY <1>3, <1>4, RuleAssumption DEF A, R

(* A rule about events only fires on a new one.                              *)
LEMMA FiresOnNews ==
  ASSUME NEW t, NEW k, NEW rule, Fires(t, k, rule), rule.event = "semantic"
  PROVE  k.fresh /\ ~ k.fires[rule.id].seen
<1>1. k.fresh /\ rule.kinds \cap authoredClockLatestExternalSemantic(t) # {}
  BY DEF Fires, ruleMatches
<1>2. ~ (rule.event = "semantic" /\ k.fresh /\ k.fires[rule.id].seen)
  BY DEF Fires, ruleCanFire
<1> QED
  BY <1>1, <1>2

(* Firing is noted with its rule alone.                                      *)
LEMMA MarkFacts ==
  ASSUME NEW c \in Clocks, NEW k \in ClockStates(c), NEW rule \in Rules(c), NEW turn \in Nat
  PROVE  LET m == markFire(k, rule, turn)
         IN  /\ m \in ClockStates(c)
             /\ m.current = k.current /\ m.triggered = k.triggered
             /\ m.resolved = k.resolved /\ m.fresh = k.fresh
             /\ m.fires[rule.id].count = k.fires[rule.id].count + 1
             /\ m.fires[rule.id].seen = (k.fires[rule.id].seen \/ rule.event = "semantic")
             /\ \A id \in Ids(c) : id # rule.id => m.fires[id] = k.fires[id]
<1> DEFINE old   == k.fires[rule.id]
           new   == [count |-> old.count + 1, last |-> turn,
                     seen |-> old.seen \/ rule.event = "semantic"]
           fires == [k.fires EXCEPT ![rule.id] = new]
           m     == markFire(k, rule, turn)
<1>1. rule.id \in Ids(c)
  BY DEF Ids
<1>2. k.fires \in [Ids(c) -> Fire] /\ k.current \in 0..ClockMax[c] /\ k.triggered \in BOOLEAN
      /\ k.resolved \in BOOLEAN /\ k.fresh \in BOOLEAN
  BY DEF ClockStates
<1>3. old \in Fire
  BY <1>1, <1>2
<1>4. new \in Fire /\ new.count = old.count + 1
      /\ new.seen = (old.seen \/ rule.event = "semantic")
  BY <1>3 DEF Fire
<1>5. m = [k EXCEPT !.fires = fires]
  BY DEF markFire
<1> HIDE DEF new
<1>6. /\ fires \in [Ids(c) -> Fire] /\ fires[rule.id] = new
      /\ \A id \in Ids(c) : id # rule.id => fires[id] = k.fires[id]
  BY <1>1, <1>2, <1>4
<1> HIDE DEF fires, m
<1>7. m \in ClockStates(c)
  BY <1>5, <1>6 DEF ClockStates
<1>8. m.fires = fires /\ m.current = k.current /\ m.triggered = k.triggered
      /\ m.resolved = k.resolved /\ m.fresh = k.fresh
  BY <1>5 DEF ClockStates
<1> QED
  BY <1>4, <1>6, <1>7, <1>8 DEF m

(* Firing keeps the clock sound, when it comes at most once per event.       *)
LEMMA MarkSound ==
  ASSUME NEW c \in AuthoredClocks, NEW n \in Nat, NEW k, Sound(c, k, n),
         NEW rule \in Rules(c), NEW turn \in Nat,
         rule.event = "semantic" => k.fresh /\ ~ k.fires[rule.id].seen
  PROVE  LET m == markFire(k, rule, turn)
         IN  /\ Sound(c, m, n)
             /\ m.current = k.current /\ m.triggered = k.triggered
             /\ m.resolved = k.resolved /\ m.fresh = k.fresh
             /\ m.fires[rule.id].count > k.fires[rule.id].count
<1> DEFINE m == markFire(k, rule, turn)
<1>1. c \in Clocks
  BY ClockAssumption
<1>2. /\ m \in ClockStates(c)
      /\ m.current = k.current /\ m.triggered = k.triggered
      /\ m.resolved = k.resolved /\ m.fresh = k.fresh
      /\ m.fires[rule.id].count = k.fires[rule.id].count + 1
      /\ m.fires[rule.id].seen = (k.fires[rule.id].seen \/ rule.event = "semantic")
      /\ \A id \in Ids(c) : id # rule.id => m.fires[id] = k.fires[id]
  BY <1>1, MarkFacts DEF Sound
<1> HIDE DEF m
<1>3. \A id \in Ids(c) : k.fires[id] \in Fire
  BY DEF Sound, ClockStates
<1>4. k.fires[rule.id].count \in Nat
  BY <1>3 DEF Ids, Fire
<1>5. ASSUME NEW r \in Rules(c), r.event = "semantic"
      PROVE  /\ m.fires[r.id].count <= n
             /\ m.fresh /\ ~ m.fires[r.id].seen => m.fires[r.id].count < n
  <2>1. CASE r.id = rule.id
    <3>1. r = rule
      BY <2>1, RuleFacts
    <3>2. k.fires[rule.id].count < n
      BY <1>5, <3>1 DEF Sound, Answers
    <3>3. m.fires[r.id].count = k.fires[rule.id].count + 1 /\ m.fires[r.id].seen
      BY <1>2, <1>5, <3>1
    <3>4. n \in Nat
      OBVIOUS
    <3> QED
      BY <1>4, <3>2, <3>3, <3>4
  <2>2. CASE r.id # rule.id
    <3>1. m.fires[r.id] = k.fires[r.id]
      BY <1>2, <2>2 DEF Ids
    <3> QED
      BY <1>2, <1>5, <3>1 DEF Sound, Answers
  <2> QED
    BY <2>1, <2>2
<1>6. Sound(c, m, n)
  BY <1>2, <1>5 DEF Sound, Answers
<1> QED
  BY <1>2, <1>4, <1>6 DEF m

(* A clock moves by no more than it is told to, and triggers when it is full.*)
LEMMA AdvanceByFacts ==
  ASSUME NEW c \in Clocks, NEW n \in Nat, NEW k, Sound(c, k, n), NEW amount \in Nat
  PROVE  LET m == advanceThreatClockInDirector(c, k, amount)
         IN  /\ Sound(c, m, n)
             /\ m.current <= k.current + amount
             /\ k.triggered => m.triggered
             /\ m.resolved = k.resolved /\ m.fresh = k.fresh /\ m.fires = k.fires
<1> DEFINE new == Min({k.current + amount, ClockMax[c]})
           now == k.triggered \/ new >= ClockMax[c]
           m   == advanceThreatClockInDirector(c, k, amount)
<1>1. /\ ClockMax[c] \in Nat /\ k.current \in 0..ClockMax[c] /\ k.triggered \in BOOLEAN
      /\ k \in ClockStates(c) /\ (k.triggered <=> k.current = ClockMax[c])
  BY ClockAssumption DEF Sound, ClockStates
<1>2. k.current + amount \in Int
  BY <1>1
<1>3. new = IF k.current + amount <= ClockMax[c] THEN k.current + amount ELSE ClockMax[c]
  BY <1>1, <1>2, Pairs
<1>4. m = [k EXCEPT !.current = new, !.triggered = now]
  BY DEF advanceThreatClockInDirector
<1> HIDE DEF new
<1>5. new \in 0..ClockMax[c] /\ new <= k.current + amount
  BY <1>1, <1>3
<1>6. now <=> new = ClockMax[c]
  BY <1>1, <1>3, <1>5
<1>7. now \in BOOLEAN /\ (k.triggered => now)
  OBVIOUS
<1> HIDE DEF now, m
<1>8. m \in ClockStates(c)
  BY <1>1, <1>4, <1>5, <1>7 DEF ClockStates
<1>9. m.current = new /\ m.triggered = now /\ m.resolved = k.resolved /\ m.fresh = k.fresh
      /\ m.fires = k.fires
  BY <1>1, <1>4 DEF ClockStates
<1>10. Answers(c, m, n)
  BY <1>9 DEF Sound, Answers
<1> QED
  BY <1>5, <1>6, <1>7, <1>8, <1>9, <1>10 DEF Sound, m

(* Resolving a clock changes nothing else about it.                          *)
LEMMA ResolveFacts ==
  ASSUME NEW c \in Clocks, NEW n \in Nat, NEW k, Sound(c, k, n)
  PROVE  LET m == resolveThreatClockInDirector(k)
         IN  /\ Sound(c, m, n) /\ m.resolved
             /\ m.current = k.current /\ m.triggered = k.triggered
             /\ m.fresh = k.fresh /\ m.fires = k.fires
<1> DEFINE m == resolveThreatClockInDirector(k)
<1>1. m = [k EXCEPT !.resolved = TRUE] /\ k \in ClockStates(c)
  BY DEF resolveThreatClockInDirector, Sound
<1> HIDE DEF m
<1>2. m \in ClockStates(c)
  BY <1>1 DEF ClockStates
<1>3. m.resolved /\ m.current = k.current /\ m.triggered = k.triggered
      /\ m.fresh = k.fresh /\ m.fires = k.fires
  BY <1>1 DEF ClockStates
<1>4. Answers(c, m, n)
  BY <1>3 DEF Sound, Answers
<1> QED
  BY <1>2, <1>3, <1>4 DEF Sound, m

(* A resolving rule that fires is the reason a clock is resolved.            *)
LEMMA ResolutionFacts ==
  ASSUME NEW c \in AuthoredClocks, NEW n \in Nat, NEW k, Sound(c, k, n),
         NEW t, t.turn \in Nat
  PROVE  LET m == Resolution(t, c, k)
         IN  /\ Sound(c, m, n)
             /\ m.current = k.current /\ m.triggered = k.triggered /\ m.fresh = k.fresh
             /\ k.resolved => m = k
             /\ m.resolved /\ ~ k.resolved =>
                  \E r \in ToSet(ResolveRules[c]) : m.fires[r.id].count > k.fires[r.id].count
             /\ ~ m.resolved => m = k
<1> DEFINE R == ResolveRules[c]
           I == {i \in 1..Len(R) : Fires(t, k, R[i])}
           f == SelectInSeq(R, LAMBDA rule : Fires(t, k, rule))
           m == Resolution(t, c, k)
<1>1. f = IF I # {} THEN Min(I) ELSE 0
  BY DEF SelectInSeq
<1>2. m = IF k.resolved \/ f = 0 THEN k
          ELSE markFire(resolveThreatClockInDirector(k), R[f], t.turn)
  BY DEF Resolution
<1>3. c \in Clocks /\ R \in Seq(ToSet(R))
  BY ClockAssumption, RuleAssumption
<1>4. Len(R) \in Nat /\ I \in SUBSET Nat /\ I \subseteq 1..Len(R)
  BY <1>3
<1>5. CASE k.resolved \/ f = 0
  <2>1. m = k
    BY <1>2, <1>5
  <2> QED
    BY <2>1
<1>6. CASE ~ k.resolved /\ f # 0
  <2> HIDE DEF I, f, m
  <2>1. f \in I
    BY <1>1, <1>4, <1>6, MinOf
  <2>2. f \in 1..Len(R) /\ Fires(t, k, R[f])
    BY <1>4, <2>1 DEF I
  <2> DEFINE rule == R[f]
             z == resolveThreatClockInDirector(k)
  <2>3. rule \in ToSet(R) /\ rule \in Rules(c)
    <3>1. rule \in ToSet(R)
      BY <1>3, <2>2, Elements
    <3> QED
      BY <3>1, RuleFacts DEF R
  <2>4. m = markFire(z, rule, t.turn)
    BY <1>2, <1>6
  <2>5. Fires(t, k, rule)
    BY <2>2
  <2> HIDE DEF rule, z
  <2>6. /\ Sound(c, z, n) /\ z.resolved
        /\ z.current = k.current /\ z.triggered = k.triggered
        /\ z.fresh = k.fresh /\ z.fires = k.fires
    BY <1>3, ResolveFacts DEF z
  <2>7. rule.event = "semantic" => z.fresh /\ ~ z.fires[rule.id].seen
    BY <2>5, <2>6, FiresOnNews
  <2>8. /\ Sound(c, m, n)
        /\ m.current = z.current /\ m.triggered = z.triggered
        /\ m.resolved = z.resolved /\ m.fresh = z.fresh
        /\ m.fires[rule.id].count > z.fires[rule.id].count
    <3>1. t.turn \in Nat /\ Sound(c, z, n) /\ rule \in Rules(c)
      BY <2>3, <2>6
    <3>2. /\ Sound(c, markFire(z, rule, t.turn), n)
          /\ markFire(z, rule, t.turn).current = z.current
          /\ markFire(z, rule, t.turn).triggered = z.triggered
          /\ markFire(z, rule, t.turn).resolved = z.resolved
          /\ markFire(z, rule, t.turn).fresh = z.fresh
          /\ markFire(z, rule, t.turn).fires[rule.id].count > z.fires[rule.id].count
      BY <2>7, <3>1, MarkSound
    <3> QED
      BY <2>4, <3>2
  <2>9. \E r \in ToSet(R) : m.fires[r.id].count > k.fires[r.id].count
    BY <2>3, <2>6, <2>8
  <2> QED
    BY <1>6, <2>6, <2>8, <2>9 DEF m, R
<1> QED
  BY <1>5, <1>6

(* One rule of an evaluation, and what an evaluation of a clock that started *)
(* as k may have come to.                                                    *)
Stepped(t, c, acc, rule) ==
  LET amount == Min({acc.budget, rule.amount})
  IN  IF acc.budget <= 0 \/ acc.k.triggered \/ ~Fires(t, acc.k, rule) THEN acc
      ELSE [k |-> markFire(advanceThreatClockInDirector(c, acc.k, amount), rule, t.turn),
            budget |-> acc.budget - amount]

Evaluations(c, k, n) ==
  {acc \in [k : ClockStates(c), budget : Nat] :
     /\ Sound(c, acc.k, n)
     /\ acc.k.current + acc.budget <= k.current + MaxAdvance[c]
     /\ acc.k.resolved = k.resolved /\ acc.k.fresh = k.fresh}

(* The rules of an evaluation share a budget.                                *)
LEMMA SteppedFacts ==
  ASSUME NEW c \in AuthoredClocks, NEW n \in Nat, NEW k, Sound(c, k, n),
         NEW t, t.turn \in Nat, NEW acc \in Evaluations(c, k, n),
         NEW rule \in ToSet(AdvanceRules[c])
  PROVE  Stepped(t, c, acc, rule) \in Evaluations(c, k, n)
<1> DEFINE amount == Min({acc.budget, rule.amount})
           turn   == t.turn
           a      == acc.k
           z      == advanceThreatClockInDirector(c, a, amount)
           m      == markFire(z, rule, turn)
           new    == [k |-> m, budget |-> acc.budget - amount]
<1>1. CASE acc.budget <= 0 \/ a.triggered \/ ~Fires(t, a, rule)
  BY <1>1 DEF Stepped
<1>2. CASE ~ (acc.budget <= 0 \/ a.triggered \/ ~Fires(t, a, rule))
  <2>1. Stepped(t, c, acc, rule) = new
    BY <1>2 DEF Stepped
  <2>2. /\ c \in Clocks /\ turn \in Nat /\ MaxAdvance[c] \in Nat /\ rule.amount \in Nat \ {0}
        /\ rule \in Rules(c)
    BY ClockAssumption, RuleFacts
  <2>3. /\ acc.budget \in Nat /\ acc.budget > 0 /\ a \in ClockStates(c) /\ Sound(c, a, n)
        /\ a.current + acc.budget <= k.current + MaxAdvance[c]
        /\ a.resolved = k.resolved /\ a.fresh = k.fresh
    BY <1>2 DEF Evaluations
  <2>4. Fires(t, a, rule)
    BY <1>2
  <2>5. a.current \in Nat /\ k.current \in Nat
    <3>1. ClockMax[c] \in Nat
      BY <2>2, ClockAssumption
    <3> QED
      BY <2>3, <3>1 DEF Sound, ClockStates
  <2> HIDE DEF a, turn
  <2>6. amount \in Nat /\ amount <= acc.budget
    BY <2>2, <2>3, Pairs
  <2> HIDE DEF amount
  <2>7. /\ Sound(c, z, n) /\ z.current <= a.current + amount
        /\ z.resolved = a.resolved /\ z.fresh = a.fresh /\ z.fires = a.fires
    <3>1. c \in Clocks /\ n \in Nat /\ Sound(c, a, n) /\ amount \in Nat
      BY <2>2, <2>3, <2>6
    <3> QED
      BY <3>1, AdvanceByFacts
  <2> HIDE DEF z
  <2>8. rule.event = "semantic" => z.fresh /\ ~ z.fires[rule.id].seen
    BY <2>4, <2>7, FiresOnNews
  <2>9. /\ Sound(c, m, n) /\ m.current = z.current /\ m.resolved = z.resolved
        /\ m.fresh = z.fresh
    BY <2>2, <2>7, <2>8, MarkSound
  <2> HIDE DEF m
  <2>10. m \in ClockStates(c) /\ m.current \in Nat
    <3>1. ClockMax[c] \in Nat
      BY <2>2, ClockAssumption
    <3> QED
      BY <2>9, <3>1 DEF Sound, ClockStates
  <2>11. m.current + (acc.budget - amount) <= k.current + MaxAdvance[c]
    BY <2>2, <2>3, <2>5, <2>6, <2>7, <2>9, <2>10
  <2>12. acc.budget - amount \in Nat
    BY <2>3, <2>6
  <2>13. new \in [k : ClockStates(c), budget : Nat] /\ new.k = m
         /\ new.budget = acc.budget - amount
    BY <2>10, <2>12
  <2> HIDE DEF new
  <2>14. new \in Evaluations(c, k, n)
    BY <2>3, <2>7, <2>9, <2>11, <2>13 DEF Evaluations
  <2> QED
    BY <2>1, <2>14
<1> QED
  BY <1>1, <1>2

(* An evaluation moves an active clock by no more than its budget.           *)
LEMMA AdvanceFacts ==
  ASSUME NEW c \in AuthoredClocks, NEW n \in Nat, NEW k, Sound(c, k, n),
         NEW t, t.turn \in Nat
  PROVE  /\ Sound(c, Advance(t, c, k), n)
         /\ Advance(t, c, k).current <= k.current + MaxAdvance[c]
         /\ Advance(t, c, k).resolved = k.resolved /\ Advance(t, c, k).fresh = k.fresh
         /\ ~ Active(k) => Advance(t, c, k) = k
<1> DEFINE R     == AdvanceRules[c]
           len   == Len(R)
           S     == Evaluations(c, k, n)
           first == [k |-> k, budget |-> MaxAdvance[c]]
           Rule(g) == g = [i \in 0..len |-> IF i = 0 THEN first
                                            ELSE Stepped(t, c, g[i - 1], R[i])]
           after == CHOOSE g : Rule(g)
           step  == [i \in 1..len |-> [acc \in S |-> Stepped(t, c, acc, R[i])]]
<1>1. /\ c \in Clocks /\ R \in Seq(ToSet(R)) /\ MaxAdvance[c] \in Nat /\ ClockMax[c] \in Nat
  BY ClockAssumption, RuleAssumption
<1>2. len \in Nat /\ \A i \in 1..len : R[i] \in ToSet(R)
  BY <1>1, Elements
<1>3. k.current \in Nat /\ k \in ClockStates(c)
  BY <1>1 DEF Sound, ClockStates
<1>4. first \in S
  <2>1. first \in [k : ClockStates(c), budget : Nat] /\ first.k = k
        /\ first.budget = MaxAdvance[c]
    BY <1>1, <1>3
  <2> HIDE DEF first
  <2> QED
    BY <1>1, <1>3, <2>1 DEF Evaluations
<1>5. \A i \in 1..len : \A acc \in S : Stepped(t, c, acc, R[i]) \in S
  BY <1>2, SteppedFacts
<1>6. Advance(t, c, k) = IF Active(k) THEN after[len].k ELSE k
  BY DEF Advance, Stepped
<1> HIDE DEF S, first, len
<1>7. step \in [1..len -> [S -> S]]
  BY <1>5
<1>8. PICK f : Computes(f, len, S, first, step)
  <2> HIDE DEF step
  <2> QED
    BY <1>2, <1>4, <1>7, Iterated
<1>9. Rule(f)
  <2>1. f \in [0..len -> S] /\ f[0] = first /\ \A i \in 1..len : f[i] = step[i][f[i - 1]]
    BY <1>8 DEF Computes
  <2>2. \A i \in 1..len : f[i - 1] \in S
    BY <1>2, <2>1
  <2>3. \A i \in 1..len : f[i] = Stepped(t, c, f[i - 1], R[i])
    BY <2>1, <2>2
  <2>4. \A i \in 0..len : i = 0 \/ i \in 1..len
    BY <1>2
  <2> QED
    BY <2>1, <2>3, <2>4
<1>10. Rule(after)
  <2> HIDE DEF Rule
  <2> QED
    BY <1>9
<1> HIDE DEF after
<1>11. after[0] = first /\ \A i \in 1..len : after[i] = Stepped(t, c, after[i - 1], R[i])
  <2>1. 0 \in 0..len /\ \A i \in 1..len : i \in 0..len /\ i # 0
    BY <1>2
  <2> QED
    BY <1>10, <2>1
<1>12. after[len] \in S
  <2> DEFINE P == {i \in 0..len : after[i] \in S}
  <2>1. 0 \in P
    BY <1>2, <1>4, <1>11
  <2>2. ASSUME NEW i \in 1..len, i - 1 \in P PROVE i \in P
    <3>1. after[i - 1] \in S /\ i \in 0..len
      BY <1>2, <2>2
    <3> QED
      BY <1>5, <1>11, <3>1
  <2>3. 0..len \subseteq P
    <3> HIDE DEF P
    <3> QED
      BY <1>2, <2>1, <2>2, UpTo
  <2> QED
    BY <1>2, <2>3
<1>13. CASE Active(k)
  <2> DEFINE acc == after[len]
  <2>1. Advance(t, c, k) = acc.k
    BY <1>6, <1>13
  <2> HIDE DEF acc
  <2>2. /\ Sound(c, acc.k, n) /\ acc.budget \in Nat /\ acc.k \in ClockStates(c)
        /\ acc.k.current + acc.budget <= k.current + MaxAdvance[c]
        /\ acc.k.resolved = k.resolved /\ acc.k.fresh = k.fresh
    BY <1>12 DEF Evaluations, S, acc
  <2>3. acc.k.current \in Nat
    BY <1>1, <2>2 DEF ClockStates
  <2>4. acc.k.current <= k.current + MaxAdvance[c]
    BY <1>1, <1>3, <2>2, <2>3
  <2> QED
    BY <1>13, <2>1, <2>2, <2>4
<1>14. CASE ~ Active(k)
  <2>1. Advance(t, c, k) = k
    BY <1>6, <1>14
  <2> QED
    BY <1>1, <1>3, <2>1
<1> QED
  BY <1>13, <1>14

(* A new event renews what the clocks have not seen.                         *)
LEMMA RenewedFacts ==
  ASSUME NEW ks, NEW c \in Clocks, NEW n \in Nat, Sound(c, ks[c], n)
  PROVE  LET k == Renewed(ks)[c]
         IN  /\ Sound(c, k, n + 1)
             /\ k.current = ks[c].current /\ k.triggered = ks[c].triggered
             /\ k.resolved = ks[c].resolved
             /\ \A id \in Ids(c) : k.fires[id].count = ks[c].fires[id].count
<1> DEFINE old == ks[c]
           fires == [id \in DOMAIN old.fires |-> [old.fires[id] EXCEPT !.seen = FALSE]]
           k == Renewed(ks)[c]
<1>1. k = [current |-> old.current, triggered |-> old.triggered, resolved |-> old.resolved,
           fresh |-> TRUE, fires |-> fires]
  BY DEF Renewed
<1>2. old \in ClockStates(c) /\ (old.triggered <=> old.current = ClockMax[c])
  BY DEF Sound
<1>3. old.fires \in [Ids(c) -> Fire] /\ old.current \in 0..ClockMax[c]
      /\ old.triggered \in BOOLEAN /\ old.resolved \in BOOLEAN
  BY <1>2 DEF ClockStates
<1>4. ASSUME NEW id \in Ids(c)
      PROVE  /\ fires[id] \in Fire /\ fires[id].count = old.fires[id].count
             /\ fires[id].count \in Nat
  <2>1. old.fires[id] \in Fire /\ fires[id] = [old.fires[id] EXCEPT !.seen = FALSE]
    BY <1>3
  <2> QED
    BY <2>1 DEF Fire
<1>5. fires \in [Ids(c) -> Fire]
  BY <1>3, <1>4
<1> HIDE DEF fires
<1>6. ASSUME NEW r \in Rules(c), r.event = "semantic"
      PROVE  fires[r.id].count <= n /\ fires[r.id].count \in Nat
  <2>1. r.id \in Ids(c)
    BY DEF Ids
  <2>2. old.fires[r.id].count <= n
    BY <1>6 DEF Sound, Answers
  <2> QED
    BY <1>4, <2>1, <2>2
<1> HIDE DEF old, k
<1>7. k \in ClockStates(c) /\ k.fires = fires /\ k.current = old.current
      /\ k.triggered = old.triggered /\ k.resolved = old.resolved
  BY <1>1, <1>3, <1>5 DEF ClockStates
<1>8. Answers(c, k, n + 1)
  BY <1>6, <1>7 DEF Answers
<1> QED
  BY <1>2, <1>4, <1>7, <1>8 DEF Sound, k, old
-----------------------------------------------------------------------------
(* Endings *)

Fields == {"turn", "scene", "progressed", "evaluated", "node", "flags", "clues", "tension",
           "threat", "history", "phase", "place", "proposal", "ending"}

(* A record of StoryInit's fields, with a proposal the scenario knows. *)
IsTale(t) == t = [f \in Fields |-> t[f]] /\ t.proposal \in DOMAIN Endings \cup {NoOne}

(* Once the campaign has ended nothing is proposed any more, so that no step *)
(* but the epilogue's is left.                                               *)
Over == tale.ending # NoOne =>
          tale.phase = "campaign_ended" /\ tale.place = NoOne /\ tale.proposal = NoOne

IInv == IsTale(tale) /\ Over /\ EndingStands

(* A campaign is only ended on an open gate.                                 *)
Opens == tale'.ending \notin {tale.ending, NoOne} =>
           endingGateEvaluate(tale'.ending, tale, clocks)

-----------------------------------------------------------------------------
(* Recording an event ends no campaign. *)
LEMMA RecordingKeeps ==
  ASSUME NEW t, IsTale(t), NEW kinds, NEW external
  PROVE  /\ IsTale(recordProgressSemantics(t, kinds, external))
         /\ recordProgressSemantics(t, kinds, external).ending = t.ending
  BY DEF recordProgressSemantics, IsTale, Fields

(* A commit ends no campaign. *)
LEMMA CommittedKeeps ==
  ASSUME NEW t, IsTale(t), t.ending = NoOne, NEW ks, NEW other, NEW always,
         Committed(t, ks, other, always)
  PROVE  IInv' /\ Opens
<1>1. PICK t2, kinds3 : /\ t2 = t \/ \E kinds : t2 = recordProgressSemantics(t, kinds, TRUE)
                        /\ tale' = recordProgressSemantics(t2, kinds3, FALSE)
  BY DEF Committed
<1>2. IsTale(t2) /\ t2.ending = NoOne
  BY <1>1, RecordingKeeps
<1>3. IsTale(tale') /\ tale'.ending = NoOne
  BY <1>1, <1>2, RecordingKeeps
<1> QED
  BY <1>3 DEF IInv, Over, EndingStands, Opens, IsTale

(* The event of the ending itself takes nothing from the state it needs. *)
LEMMA RenewalKeepsGate ==
  ASSUME NEW e \in DOMAIN Endings, StateEarns(e, tale, clocks),
         NEW t, t.flags = tale.flags, t.clues = tale.clues, t.node = tale.node,
         t.threat = tale.threat
  PROVE  StateEarns(e, t, Renewed(clocks))
<1>1. ASSUME NEW c \in DOMAIN Endings[e].clocks
      PROVE  endingGateClockMatches(clocks[c], Endings[e].clocks[c])
               <=> endingGateClockMatches(Renewed(clocks)[c], Endings[e].clocks[c])
  <2>1. c \in Clocks
    BY GateAssumption
  <2> QED
    BY <2>1 DEF Renewed, endingGateClockMatches, Active
<1> QED
  BY <1>1 DEF StateEarns

(* Every way to end the campaign goes through applyEnding. *)
LEMMA EndingStep ==
  ASSUME IInv, NEW e \in DOMAIN Endings, applyEnding(e)
  PROVE  IInv' /\ Opens
<1>1. /\ IsTale(tale')
      /\ tale'.ending = e /\ tale'.proposal = NoOne /\ tale'.place = NoOne
      /\ tale'.phase = "campaign_ended"
      /\ tale'.flags = tale.flags /\ tale'.clues = tale.clues /\ tale'.node = tale.node
      /\ tale'.threat = tale.threat
  BY DEF IInv, IsTale, applyEnding, recordProgressSemantics, Fields
<1>2. endingGateEvaluate(e, tale, clocks) /\ clocks' = Renewed(clocks)
  BY DEF applyEnding
<1>3. Endings[e].alwaysAvailable \/ StateEarns(e, tale', clocks')
  BY <1>1, <1>2, RenewalKeepsGate DEF endingGateEvaluate
<1>4. Opens
  BY <1>1, <1>2 DEF Opens
<1> QED
  BY <1>1, <1>3, <1>4 DEF IInv, Over, EndingStands, IsTale

-----------------------------------------------------------------------------
(* Nothing has ended at the start. *)
LEMMA InitInvariant == StoryInit => IInv
<1>1. IsTale(NewTale) /\ NewTale.ending = NoOne
  BY DEF NewTale, IsTale, Fields
<1> QED
  BY <1>1 DEF StoryInit, IInv, Over, EndingStands

(* One case per action. *)
LEMMA NextInvariant == IInv /\ [StoryNext]_storyVars => IInv' /\ Opens
<1> SUFFICES ASSUME IInv, [StoryNext]_storyVars PROVE IInv' /\ Opens
  OBVIOUS
<1> USE DEF IInv, Over
<1>1. CASE submitAction
  <2>1. tale.ending = NoOne
    BY <1>1 DEF submitAction, Idle
  <2>2. PICK kinds :
          tale' = [recordProgressSemantics(
                     [tale EXCEPT !.turn = @ + 1, !.scene = @ + 1, !.phase = "requesting_ai"],
                     kinds, FALSE) EXCEPT !.evaluated = tale.turn + 1]
    BY <1>1 DEF submitAction, IsTale, Fields
  <2>3. IsTale(tale') /\ tale'.ending = NoOne
    BY <2>1, <2>2 DEF IsTale, Fields, recordProgressSemantics
  <2> QED
    BY <2>3 DEF EndingStands, Opens, IsTale
<1>2. CASE commitCheckReply
  <2>1. IsTale([tale EXCEPT !.place = NoOne, !.proposal = NoOne])
    BY DEF IsTale, Fields
  <2>2. [tale EXCEPT !.place = NoOne, !.proposal = NoOne].ending = NoOne
    BY <1>2 DEF commitCheckReply, IsTale, Fields
  <2> QED
    BY <1>2, <2>1, <2>2, CommittedKeeps DEF commitCheckReply
<1>3. CASE commitAiTransaction
  <2>1. PICK e, place, ending, phase, ks :
          /\ Committed([prepareCampaign(e) EXCEPT !.place = place, !.proposal = ending,
                                                  !.phase = phase], ks, e.other, TRUE)
          /\ ending \in DOMAIN Endings \cup {NoOne}
    BY <1>3 DEF commitAiTransaction
  <2>2. IsTale(prepareCampaign(e)) /\ prepareCampaign(e).ending = NoOne
    BY <1>3 DEF commitAiTransaction, prepareCampaign, IsTale, Fields
  <2>3. IsTale([prepareCampaign(e) EXCEPT !.place = place, !.proposal = ending, !.phase = phase])
    BY <2>1, <2>2 DEF IsTale, Fields
  <2>4. [prepareCampaign(e) EXCEPT !.place = place, !.proposal = ending,
                                   !.phase = phase].ending = NoOne
    BY <2>2 DEF IsTale, Fields
  <2> QED
    BY <2>1, <2>3, <2>4, CommittedKeeps
<1>4. CASE applySecretCheckOutcome
  <2>1. PICK e : Committed(prepareCampaign(e), clocks, e.other, FALSE)
    BY <1>4 DEF applySecretCheckOutcome
  <2>2. IsTale(prepareCampaign(e)) /\ prepareCampaign(e).ending = NoOne
    BY <1>4 DEF applySecretCheckOutcome, prepareCampaign, IsTale, Fields
  <2> QED
    BY <2>1, <2>2, CommittedKeeps
<1>5. CASE enterNode
  <2> DEFINE t == [tale EXCEPT !.node = tale.place, !.place = NoOne, !.scene = 0,
                               !.progressed = 0, !.phase = "awaiting_player_action"]
  <2>1. IsTale(t) /\ t.ending = NoOne
    BY <1>5 DEF enterNode, IsTale, Fields
  <2>2. Committed(t, clocks, {}, FALSE)
    BY <1>5 DEF enterNode
  <2> QED
    BY <2>1, <2>2, CommittedKeeps
<1>6. CASE rejectNodeProposal
  BY <1>6 DEF rejectNodeProposal, EndingStands, Opens, IsTale, Fields
<1>7. CASE applyHintCost
  BY <1>7 DEF applyHintCost, Idle, EndingStands, Opens, IsTale, Fields
<1>8. CASE confirmEndingProposal
  <2>1. CASE endingGateEvaluate(tale.proposal, tale, clocks)
    <3>1. applyEnding(tale.proposal) /\ tale.proposal \in DOMAIN Endings
      BY <1>8, <2>1 DEF confirmEndingProposal, IsTale
    <3> QED
      BY <3>1, EndingStep
  <2>2. CASE ~ endingGateEvaluate(tale.proposal, tale, clocks)
    BY <1>8, <2>2 DEF confirmEndingProposal, EndingStands, Opens, IsTale, Fields
  <2> QED
    BY <2>1, <2>2
<1>9. CASE rejectEndingProposal
  BY <1>9 DEF rejectEndingProposal, EndingStands, Opens, IsTale, Fields
<1>10. CASE chooseEnding
  BY <1>10, EndingStep DEF chooseEnding
<1>11. CASE continueEpilogue
  BY <1>11 DEF continueEpilogue, EndingStands, Opens, IsTale, Fields
<1>12. CASE UNCHANGED storyVars
  BY <1>12 DEF storyVars, EndingStands, Opens, IsTale
<1> QED
  BY <1>1, <1>2, <1>3, <1>4, <1>5, <1>6, <1>7, <1>8, <1>9, <1>10, <1>11, <1>12 DEF StoryNext

(* Whatever happened between the proposal of an ending and its confirmation, *)
(* the campaign only ends on an open gate, and as long as it is over its     *)
(* state has earned the ending (src/ending-resolution-gate.js:107-119).      *)
THEOREM EndingsAreEarned == StorySpec => EndingEarned
<1> DEFINE Earned == /\ tale'.ending \notin {tale.ending, NoOne} =>
                           endingGateEvaluate(tale'.ending, tale, clocks)
                     /\ EndingStands'
<1>1. IInv /\ [StoryNext]_storyVars => Earned
  BY NextInvariant DEF Opens, IInv
<1>2. EndingEarned <=> [][Earned]_storyVars
  BY DEF EndingEarned
<1> HIDE DEF Earned
<1>3. StorySpec => [][Earned]_storyVars
  BY <1>1, InitInvariant, NextInvariant, PTL DEF StorySpec
<1> QED
  BY <1>2, <1>3

-----------------------------------------------------------------------------
(* The whole state *)

Phases == {"awaiting_player_action", "requesting_ai", "awaiting_node_confirmation",
           "awaiting_ending_confirmation", "campaign_ended"}

Steady(t) ==
  /\ t = [f \in Fields |-> t[f]]
  /\ t.turn \in 0..MaxTurn /\ t.scene \in Nat /\ t.progressed \in 0..t.scene
  /\ t.evaluated \in Int /\ t.evaluated <= t.turn
  /\ t.tension \in 1..TopTension /\ t.phase \in Phases

AllSound(ks, n) == ks = [c \in Clocks |-> ks[c]] /\ \A c \in Clocks : Sound(c, ks[c], n)

InPace(ks, turn) == \A c \in AuthoredClocks : ks[c].current <= MaxAdvance[c] * turn

(* The inductive invariant of the clocks.                                    *)
Paced ==
  /\ Steady(tale) /\ events \in Nat
  /\ AllSound(clocks, events) /\ InPace(clocks, tale.turn)

(* How a clock of the scenario may go on from k to m.                        *)
Settles(c, k, m) ==
  /\ ~Active(k) => m.current = k.current
  /\ k.triggered => m.triggered
  /\ k.resolved => m.resolved
  /\ m.resolved /\ ~k.resolved =>
        \E r \in ToSet(ResolveRules[c]) : m.fires[r.id].count > k.fires[r.id].count

(* Recording an event keeps the ranges of the story.                         *)
LEMMA RecordingSteady ==
  ASSUME NEW t, Steady(t), NEW kinds, NEW external
  PROVE  /\ Steady(recordProgressSemantics(t, kinds, external))
         /\ recordProgressSemantics(t, kinds, external).turn = t.turn
<1> DEFINE u == recordProgressSemantics(t, kinds, external)
           told == Retained(Append(t.history, [kinds |-> kinds, external |-> external]))
<1>1. u = t \/ u = [t EXCEPT !.history = told]
  BY DEF recordProgressSemantics
<1> HIDE DEF told, u
<1>2. u = [f \in Fields |-> u[f]]
  BY <1>1 DEF Steady
<1>3. u.turn = t.turn /\ u.scene = t.scene /\ u.progressed = t.progressed
      /\ u.evaluated = t.evaluated /\ u.tension = t.tension /\ u.phase = t.phase
  BY <1>1 DEF Steady, Fields
<1> QED
  BY <1>2, <1>3 DEF Steady, u

(* The clocks of the scenario are clocks.                                    *)
LEMMA AuthoredAreClocks == AuthoredClocks \subseteq Clocks
BY ClockAssumption

(* The resolving rules after an event, and what they leave to a clock.       *)
LEMMA ResolutionsFacts ==
  ASSUME NEW t, t.turn \in Nat, NEW ks, NEW n \in Nat, AllSound(ks, n)
  PROVE  LET rs == evaluateAuthoredThreatClockResolutions(t, ks)
         IN  /\ AllSound(rs, n)
             /\ \A c \in Clocks : rs[c].current = ks[c].current
             /\ \A c \in AuthoredClocks : rs[c] = Resolution(t, c, ks[c])
<1> DEFINE rs == evaluateAuthoredThreatClockResolutions(t, ks)
<1>1. rs = [c \in Clocks |-> IF c \in AuthoredClocks THEN Resolution(t, c, ks[c]) ELSE ks[c]]
  BY DEF evaluateAuthoredThreatClockResolutions
<1> HIDE DEF rs
<1>2. ASSUME NEW c \in Clocks
      PROVE  Sound(c, rs[c], n) /\ rs[c].current = ks[c].current
  <2>1. Sound(c, ks[c], n)
    BY DEF AllSound
  <2>2. CASE c \in AuthoredClocks
    <3>1. rs[c] = Resolution(t, c, ks[c])
      BY <1>1, <2>2
    <3> QED
      BY <2>1, <2>2, <3>1, ResolutionFacts
  <2>3. CASE c \notin AuthoredClocks
    BY <1>1, <2>1, <2>3
  <2> QED
    BY <2>2, <2>3
<1>3. \A c \in AuthoredClocks : rs[c] = Resolution(t, c, ks[c])
  BY <1>1, AuthoredAreClocks
<1>4. rs = [c \in Clocks |-> rs[c]]
  BY <1>1
<1> QED
  BY <1>2, <1>3, <1>4 DEF AllSound, rs

(* A new event keeps every clock sound.                                      *)
LEMMA AllRenewed ==
  ASSUME NEW ks, NEW n \in Nat, AllSound(ks, n)
  PROVE  /\ AllSound(Renewed(ks), n + 1)
         /\ \A c \in Clocks : Renewed(ks)[c].current = ks[c].current
<1>1. \A c \in Clocks : Sound(c, Renewed(ks)[c], n + 1) /\ Renewed(ks)[c].current = ks[c].current
  BY RenewedFacts DEF AllSound
<1>2. Renewed(ks) = [c \in Clocks |-> Renewed(ks)[c]]
  BY DEF Renewed
<1> QED
  BY <1>1, <1>2 DEF AllSound

(* Renewing and resolving are steps a clock may take.                        *)
LEMMA RenewedSettles ==
  ASSUME NEW ks, NEW c \in Clocks, NEW n \in Nat, Sound(c, ks[c], n)
  PROVE  Settles(c, ks[c], Renewed(ks)[c])
<1>1. /\ Renewed(ks)[c].current = ks[c].current /\ Renewed(ks)[c].triggered = ks[c].triggered
      /\ Renewed(ks)[c].resolved = ks[c].resolved
  BY RenewedFacts
<1> QED
  BY <1>1 DEF Settles

(* Resolving by a rule is a step a clock may take.                           *)
LEMMA ResolutionSettles ==
  ASSUME NEW c \in AuthoredClocks, NEW n \in Nat, NEW k, Sound(c, k, n),
         NEW t, t.turn \in Nat
  PROVE  Settles(c, k, Resolution(t, c, k))
<1> DEFINE m == Resolution(t, c, k)
<1>1. /\ m.current = k.current /\ m.triggered = k.triggered
      /\ k.resolved => m = k
      /\ m.resolved /\ ~ k.resolved =>
           \E r \in ToSet(ResolveRules[c]) : m.fires[r.id].count > k.fires[r.id].count
  BY ResolutionFacts
<1> HIDE DEF m
<1>2. Settles(c, k, m)
  BY <1>1 DEF Settles
<1> QED
  BY <1>2 DEF m

(* What a commit makes of the story and the clocks: it tells an event of its *)
(* own or changes nothing that could be told.                                *)
LEMMA CommittedSteps ==
  ASSUME NEW t, NEW ks, NEW other, NEW always, Committed(t, ks, other, always)
  PROVE  \E kinds, clockKinds :
           \/ /\ tale' = recordProgressSemantics(
                            recordProgressSemantics(t, kinds, TRUE), clockKinds, FALSE)
              /\ clocks' = evaluateAuthoredThreatClockResolutions(
                              recordProgressSemantics(t, kinds, TRUE), Renewed(ks))
              /\ events' = events + 1
           \/ /\ tale' = recordProgressSemantics(t, clockKinds, FALSE)
              /\ clocks' = evaluateAuthoredThreatClockResolutions(t, ks)
              /\ events' = events + 0
<1> DEFINE kinds == deriveProgressSemantics(tale, clocks, t, ks, other)
           told  == always \/ kinds # {"NONE"}
           t2    == IF told THEN recordProgressSemantics(t, kinds, TRUE) ELSE t
           ks2   == IF told THEN Renewed(ks) ELSE ks
           ks3   == evaluateAuthoredThreatClockResolutions(t2, ks2)
           clockKinds == deriveProgressSemantics(t2, ks2, t2, ks3, {})
<1>1. /\ tale' = recordProgressSemantics(t2, clockKinds, FALSE)
      /\ clocks' = ks3
      /\ events' = events + (IF told THEN 1 ELSE 0)
  BY DEF Committed
<1> HIDE DEF clockKinds
<1>2. CASE told
  <2>1. t2 = recordProgressSemantics(t, kinds, TRUE) /\ ks2 = Renewed(ks)
    BY <1>2
  <2> HIDE DEF kinds
  <2> QED
    BY <1>1, <1>2, <2>1
<1>3. CASE ~told
  <2>1. t2 = t /\ ks2 = ks
    BY <1>3
  <2> HIDE DEF kinds
  <2> QED
    BY <1>1, <1>3, <2>1
<1> QED
  BY <1>2, <1>3

(* A commit keeps the ranges, and no clock of the scenario that it was given *)
(* as it stood unsettles.                                                    *)
LEMMA CommittedPaced ==
  ASSUME NEW t, Steady(t), NEW ks, AllSound(ks, events), InPace(ks, t.turn), events \in Nat,
         NEW other, NEW always, Committed(t, ks, other, always)
  PROVE  /\ Paced'
         /\ \A c \in AuthoredClocks : Settles(c, ks[c], clocks'[c])
<1>1. PICK kinds, clockKinds :
           \/ /\ tale' = recordProgressSemantics(
                            recordProgressSemantics(t, kinds, TRUE), clockKinds, FALSE)
              /\ clocks' = evaluateAuthoredThreatClockResolutions(
                              recordProgressSemantics(t, kinds, TRUE), Renewed(ks))
              /\ events' = events + 1
           \/ /\ tale' = recordProgressSemantics(t, clockKinds, FALSE)
              /\ clocks' = evaluateAuthoredThreatClockResolutions(t, ks)
              /\ events' = events + 0
  BY CommittedSteps
<1> DEFINE told == recordProgressSemantics(t, kinds, TRUE)
<1>2. Steady(told) /\ told.turn = t.turn /\ t.turn \in Nat
  <2>1. t.turn \in Nat
    BY DEF Steady
  <2> QED
    BY <2>1, RecordingSteady
<1>3. AllSound(Renewed(ks), events + 1) /\ \A c \in Clocks : Renewed(ks)[c].current = ks[c].current
  BY AllRenewed
<1>4. \A c \in AuthoredClocks : c \in Clocks /\ Sound(c, ks[c], events)
  BY AuthoredAreClocks DEF AllSound
<1> HIDE DEF told
<1>5. CASE /\ tale' = recordProgressSemantics(told, clockKinds, FALSE)
           /\ clocks' = evaluateAuthoredThreatClockResolutions(told, Renewed(ks))
           /\ events' = events + 1
  <2>1. Steady(tale') /\ tale'.turn = t.turn
    BY <1>2, <1>5, RecordingSteady
  <2>2. events' \in Nat /\ events + 1 \in Nat
    BY <1>5
  <2>3. told.turn \in Nat
    BY <1>2
  <2>4. /\ AllSound(clocks', events + 1)
        /\ \A c \in Clocks : clocks'[c].current = Renewed(ks)[c].current
        /\ \A c \in AuthoredClocks : clocks'[c] = Resolution(told, c, Renewed(ks)[c])
    BY <1>3, <1>5, <2>2, <2>3, ResolutionsFacts
  <2>5. InPace(clocks', tale'.turn)
    BY <1>3, <1>4, <2>1, <2>4 DEF InPace
  <2>6. ASSUME NEW c \in AuthoredClocks PROVE Settles(c, ks[c], clocks'[c])
    <3> DEFINE k == ks[c]
               r == Renewed(ks)[c]
               m == clocks'[c]
    <3>1. /\ Sound(c, k, events) /\ Sound(c, r, events + 1) /\ m = Resolution(told, c, r)
      BY <1>3, <1>4, <2>4 DEF AllSound
    <3>2. /\ r.current = k.current /\ r.triggered = k.triggered /\ r.resolved = k.resolved
          /\ \A id \in Ids(c) : r.fires[id].count = k.fires[id].count
      BY <1>4, RenewedFacts
    <3> HIDE DEF k, r, m
    <3>3. Settles(c, r, m)
      BY <2>2, <2>3, <3>1, ResolutionSettles
    <3>4. \A x \in ToSet(ResolveRules[c]) : x.id \in Ids(c)
      BY RuleFacts DEF Ids
    <3>5. Settles(c, k, m)
      BY <3>2, <3>3, <3>4 DEF Settles, Active
    <3> QED
      BY <3>5 DEF k, m
  <2> QED
    BY <1>5, <2>1, <2>2, <2>4, <2>5, <2>6 DEF Paced
<1>6. CASE /\ tale' = recordProgressSemantics(t, clockKinds, FALSE)
           /\ clocks' = evaluateAuthoredThreatClockResolutions(t, ks)
           /\ events' = events + 0
  <2>1. Steady(tale') /\ tale'.turn = t.turn
    BY <1>6, RecordingSteady
  <2>2. events' = events
    BY <1>6
  <2>3. /\ AllSound(clocks', events)
        /\ \A c \in Clocks : clocks'[c].current = ks[c].current
        /\ \A c \in AuthoredClocks : clocks'[c] = Resolution(t, c, ks[c])
    BY <1>2, <1>6, ResolutionsFacts
  <2>4. InPace(clocks', tale'.turn)
    BY <1>4, <2>1, <2>3 DEF InPace
  <2>5. \A c \in AuthoredClocks : Settles(c, ks[c], clocks'[c])
    BY <1>2, <1>4, <2>3, ResolutionSettles
  <2> QED
    BY <2>1, <2>2, <2>3, <2>4, <2>5 DEF Paced
<1> QED
  BY <1>1, <1>5, <1>6 DEF told

(* The evaluation of a clock at the start of a turn.                         *)
LEMMA EvaluationSettles ==
  ASSUME NEW c \in AuthoredClocks, NEW n \in Nat, NEW k, Sound(c, k, n),
         NEW t, t.turn \in Nat, NEW still \in BOOLEAN
  PROVE  LET a == Advance(t, c, Resolution(t, c, k))
             m == [a EXCEPT !.fresh = @ /\ still]
         IN  /\ Sound(c, m, n) /\ m.current <= k.current + MaxAdvance[c]
             /\ Settles(c, k, m)
<1> DEFINE r == Resolution(t, c, k)
           a == Advance(t, c, r)
           fresh == a.fresh /\ still
           m == [a EXCEPT !.fresh = fresh]
<1>1. /\ Sound(c, r, n)
      /\ r.current = k.current /\ r.triggered = k.triggered
      /\ k.resolved => r = k
      /\ r.resolved /\ ~ k.resolved =>
           \E x \in ToSet(ResolveRules[c]) : r.fires[x.id].count > k.fires[x.id].count
      /\ ~ r.resolved => r = k
  BY ResolutionFacts
<1> HIDE DEF r
<1>2. /\ Sound(c, a, n) /\ a.current <= r.current + MaxAdvance[c]
      /\ a.resolved = r.resolved /\ (~ Active(r) => a = r)
  BY <1>1, AdvanceFacts
<1> HIDE DEF a
<1>3. a \in ClockStates(c) /\ fresh \in BOOLEAN /\ (fresh => a.fresh)
  BY <1>2 DEF Sound, ClockStates
<1> HIDE DEF fresh
<1>4. m \in ClockStates(c)
  BY <1>3 DEF ClockStates
<1>5. m.current = a.current /\ m.triggered = a.triggered /\ m.resolved = a.resolved
      /\ m.fires = a.fires /\ m.fresh = fresh
  BY <1>3 DEF ClockStates
<1> HIDE DEF m
<1>6. Sound(c, m, n)
  BY <1>2, <1>3, <1>4, <1>5 DEF Sound, Answers
<1>7. Settles(c, k, m)
  BY <1>1, <1>2, <1>5 DEF Settles, Active
<1>8. m.current <= k.current + MaxAdvance[c]
  BY <1>1, <1>2, <1>5
<1> QED
  BY <1>6, <1>7, <1>8 DEF m, fresh, a, r

-----------------------------------------------------------------------------
(* The steps *)

Going(k, m) == \A c \in AuthoredClocks : Settles(c, k[c], m[c])

(* Standing still is a step every clock may take.                            *)
LEMMA Staying == Going(clocks, clocks)
BY DEF Going, Settles

(* The campaign starts in pace.                                              *)
LEMMA PacedInit == StoryInit => Paced
<1> SUFFICES ASSUME StoryInit PROVE Paced
  OBVIOUS
<1>1. Steady(NewTale) /\ NewTale.turn = 0
  <2>1. NewTale = [f \in Fields |-> NewTale[f]]
    BY DEF NewTale, Fields
  <2>2. /\ NewTale.turn = 0 /\ NewTale.scene = 0 /\ NewTale.progressed = 0
        /\ NewTale.evaluated = -1 /\ NewTale.tension = 1
        /\ NewTale.phase = "awaiting_player_action"
    BY DEF NewTale
  <2>3. MaxTurn \in Nat /\ TopTension \in Nat \ {0}
    BY ClockAssumption
  <2> QED
    BY <2>1, <2>2, <2>3 DEF Steady, Phases
<1>2. ASSUME NEW c \in Clocks
      PROVE  Sound(c, clocks[c], 0) /\ clocks[c].current = 0
  <2> DEFINE fires == [id \in {r.id : r \in Rules(c)} |-> [count |-> 0, last |-> -1, seen |-> FALSE]]
             k == clocks[c]
  <2>1. k = [current |-> 0, triggered |-> FALSE, resolved |-> FALSE, fresh |-> FALSE,
             fires |-> fires]
    BY DEF StoryInit
  <2>2. fires \in [Ids(c) -> Fire] /\ \A r \in Rules(c) : fires[r.id].count = 0
    BY DEF Ids, Fire
  <2>3. ClockMax[c] \in Nat \ {0}
    BY ClockAssumption
  <2> HIDE DEF fires, k
  <2>4. k \in ClockStates(c) /\ k.current = 0 /\ k.triggered = FALSE /\ k.fresh = FALSE
        /\ k.fires = fires
    BY <2>1, <2>2, <2>3 DEF ClockStates
  <2> QED
    BY <2>2, <2>3, <2>4 DEF Sound, Answers, k
<1>3. clocks = [c \in Clocks |-> clocks[c]]
  BY DEF StoryInit
<1>4. \A c \in AuthoredClocks : MaxAdvance[c] \in Nat /\ c \in Clocks
  BY ClockAssumption
<1>5. tale = NewTale /\ events = 0
  BY DEF StoryInit
<1> QED
  BY <1>1, <1>2, <1>3, <1>4, <1>5 DEF Paced, AllSound, InPace

(* A turn more is a budget more.                                             *)
LEMMA NextTurn ==
  ASSUME NEW c \in AuthoredClocks, NEW turn \in Nat
  PROVE  /\ MaxAdvance[c] \in Nat \ {0}
         /\ MaxAdvance[c] * (turn + 1) = MaxAdvance[c] * turn + MaxAdvance[c]
         /\ MaxAdvance[c] * turn \in Nat
<1>1. MaxAdvance[c] \in Nat \ {0}
  BY ClockAssumption
<1> QED
  BY <1>1

(* A clock shows a natural number.                                           *)
LEMMA CurrentType ==
  ASSUME AllSound(clocks, events), NEW c \in Clocks
  PROVE  clocks[c].current \in Nat /\ Sound(c, clocks[c], events) /\ ClockMax[c] \in Nat
<1>1. ClockMax[c] \in Nat /\ Sound(c, clocks[c], events)
  BY ClockAssumption DEF AllSound
<1> QED
  BY <1>1 DEF Sound, ClockStates

(* A submitted turn gives every clock of the scenario one budget more.       *)
LEMMA SubmitPaced ==
  ASSUME Paced, submitAction
  PROVE  Paced' /\ Going(clocks, clocks')
<1> DEFINE t == [tale EXCEPT !.turn = @ + 1, !.scene = @ + 1, !.phase = "requesting_ai"]
           ks == evaluateAuthoredThreatClocks(t, clocks)
           still == authoredClockLatestExternalSemantic(t) = {}
           evaluated(c) == [Advance(t, c, Resolution(t, c, clocks[c])) EXCEPT !.fresh = @ /\ still]
<1>1. Steady(tale) /\ AllSound(clocks, events) /\ InPace(clocks, tale.turn) /\ events \in Nat
      /\ tale.turn \in Nat /\ tale.turn < MaxTurn
  <2>1. Steady(tale) /\ AllSound(clocks, events) /\ InPace(clocks, tale.turn) /\ events \in Nat
    BY DEF Paced
  <2>2. tale.turn \in Nat
    BY <2>1 DEF Steady
  <2> QED
    BY <2>1, <2>2 DEF submitAction
<1>2. PICK kinds : /\ clocks' = ks /\ events' = events
                   /\ tale' = [recordProgressSemantics(t, kinds, FALSE) EXCEPT !.evaluated = t.turn]
  BY DEF submitAction
<1>3. Steady(t) /\ t.turn = tale.turn + 1 /\ t.evaluated = tale.evaluated
  <2>1. tale = [f \in Fields |-> tale[f]]
    BY <1>1 DEF Steady
  <2>2. t = [f \in Fields |-> t[f]]
    BY <2>1
  <2>3. /\ t.turn = tale.turn + 1 /\ t.scene = tale.scene + 1 /\ t.phase = "requesting_ai"
        /\ t.evaluated = tale.evaluated /\ t.progressed = tale.progressed
        /\ t.tension = tale.tension
    BY <2>1 DEF Fields
  <2> HIDE DEF t
  <2>4. /\ tale.turn \in 0..MaxTurn /\ tale.scene \in Nat /\ tale.progressed \in 0..tale.scene
        /\ tale.evaluated \in Int /\ tale.evaluated <= tale.turn /\ tale.tension \in 1..TopTension
        /\ MaxTurn \in Nat
    BY <1>1, ClockAssumption DEF Steady
  <2>5. /\ t.turn \in 0..MaxTurn /\ t.scene \in Nat /\ t.progressed \in 0..t.scene
        /\ t.evaluated \in Int /\ t.evaluated <= t.turn
    BY <1>1, <2>3, <2>4
  <2>6. t.tension \in 1..TopTension /\ t.phase \in Phases
    BY <2>3, <2>4 DEF Phases
  <2> QED
    BY <2>2, <2>3, <2>5, <2>6 DEF Steady
<1>4. t.turn \in Nat /\ t.evaluated # t.turn
  <2>1. tale.evaluated \in Int /\ tale.evaluated <= tale.turn
    BY <1>1 DEF Steady
  <2> HIDE DEF t
  <2> QED
    BY <1>1, <1>3, <2>1
<1>5. ks = [c \in Clocks |-> IF c \in AuthoredClocks THEN evaluated(c) ELSE clocks[c]]
  BY <1>4 DEF evaluateAuthoredThreatClocks
<1>6. still \in BOOLEAN
  OBVIOUS
<1> HIDE DEF still, t
<1>7. ASSUME NEW c \in AuthoredClocks
      PROVE  /\ Sound(c, evaluated(c), events)
             /\ evaluated(c).current <= clocks[c].current + MaxAdvance[c]
             /\ Settles(c, clocks[c], evaluated(c))
  <2>1. Sound(c, clocks[c], events) /\ c \in Clocks
    BY <1>1, AuthoredAreClocks DEF AllSound
  <2> QED
    BY <1>1, <1>4, <1>6, <2>1, EvaluationSettles
<1> HIDE DEF ks, evaluated
<1>8. \A c \in AuthoredClocks : ks[c] = evaluated(c)
  BY <1>5, AuthoredAreClocks
<1>9. ASSUME NEW c \in Clocks PROVE Sound(c, ks[c], events)
  <2>1. Sound(c, clocks[c], events)
    BY <1>1 DEF AllSound
  <2> QED
    BY <1>5, <1>7, <2>1
<1>10. AllSound(ks, events)
  <2>1. ks = [c \in Clocks |-> ks[c]]
    BY <1>5
  <2> QED
    BY <1>9, <2>1 DEF AllSound
<1>11. InPace(ks, t.turn)
  <2> SUFFICES ASSUME NEW c \in AuthoredClocks PROVE ks[c].current <= MaxAdvance[c] * t.turn
    BY DEF InPace
  <2>1. c \in Clocks
    BY AuthoredAreClocks
  <2>2. clocks[c].current <= MaxAdvance[c] * tale.turn /\ clocks[c].current \in Nat
    BY <1>1, <2>1, CurrentType DEF InPace
  <2>3. ks[c].current <= clocks[c].current + MaxAdvance[c] /\ ks[c].current \in Nat
    <3>1. ClockMax[c] \in Nat /\ ks[c] \in ClockStates(c)
      BY <1>9, <2>1, ClockAssumption DEF Sound
    <3> QED
      BY <1>7, <1>8, <3>1 DEF ClockStates
  <2>4. /\ MaxAdvance[c] * t.turn = MaxAdvance[c] * tale.turn + MaxAdvance[c]
        /\ MaxAdvance[c] * tale.turn \in Nat /\ MaxAdvance[c] \in Nat
    BY <1>1, <1>3, NextTurn
  <2> DEFINE reach == MaxAdvance[c] * tale.turn
  <2> HIDE DEF reach
  <2>5. clocks[c].current <= reach /\ MaxAdvance[c] * t.turn = reach + MaxAdvance[c]
        /\ reach \in Nat
    BY <2>2, <2>4 DEF reach
  <2> QED
    BY <2>2, <2>3, <2>4, <2>5
<1>12. Steady(tale') /\ tale'.turn = t.turn
  <2> DEFINE u == recordProgressSemantics(t, kinds, FALSE)
             now == t.turn
  <2>1. Steady(u) /\ u.turn = now
    BY <1>3, RecordingSteady
  <2>2. tale' = [u EXCEPT !.evaluated = now] /\ now \in Nat
    BY <1>2, <1>4
  <2> HIDE DEF u, now
  <2>3. tale' = [f \in Fields |-> tale'[f]]
    BY <2>1, <2>2 DEF Steady, Fields
  <2>4. tale'.turn = now /\ tale'.evaluated = now /\ tale'.scene = u.scene
        /\ tale'.progressed = u.progressed /\ tale'.tension = u.tension /\ tale'.phase = u.phase
    BY <2>1, <2>2 DEF Steady, Fields
  <2> QED
    BY <2>1, <2>2, <2>3, <2>4 DEF Steady, now
<1>13. Going(clocks, clocks')
  BY <1>2, <1>7, <1>8 DEF Going
<1> QED
  BY <1>1, <1>2, <1>10, <1>11, <1>12, <1>13 DEF Paced

(* What does not touch the counters leaves them in range.                    *)
LEMMA SteadyOf ==
  ASSUME NEW t, Steady(t), NEW u, u = [f \in Fields |-> u[f]], u.turn = t.turn,
         u.scene = t.scene, u.progressed = t.progressed, u.evaluated = t.evaluated,
         u.tension = t.tension, u.phase \in Phases
  PROVE  Steady(u)
BY DEF Steady

(* A reply's or a check's changes to the campaign.                           *)
LEMMA CampaignSteady ==
  ASSUME Steady(tale), NEW e \in Effects
  PROVE  /\ Steady(prepareCampaign(e)) /\ prepareCampaign(e).turn = tale.turn
         /\ prepareCampaign(e).phase = tale.phase
<1> DEFINE flags   == (tale.flags \ e.clears) \cup e.sets
           clues   == tale.clues \cup e.clues
           tension == Max({1, Min({tale.tension + e.tension, TopTension})})
           threat  == IF e.threat = NoOne THEN tale.threat ELSE e.threat
           progressed == IF e.progress \/ ~(e.clues \subseteq tale.clues)
                         THEN tale.scene ELSE tale.progressed
           u       == prepareCampaign(e)
<1>1. u = [tale EXCEPT !.flags = flags, !.clues = clues, !.tension = tension,
                       !.threat = threat, !.progressed = progressed]
  BY DEF prepareCampaign
<1>2. /\ tale = [f \in Fields |-> tale[f]] /\ tale.turn \in 0..MaxTurn /\ tale.scene \in Nat
      /\ tale.progressed \in 0..tale.scene /\ tale.evaluated \in Int
      /\ tale.evaluated <= tale.turn /\ tale.tension \in 1..TopTension /\ tale.phase \in Phases
  BY DEF Steady
<1>3. progressed \in 0..tale.scene
  BY <1>2
<1>4. tension \in 1..TopTension
  <2>1. tale.tension + e.tension \in Int /\ TopTension \in Nat \ {0}
    BY <1>2, EffectAssumption, ClockAssumption
  <2> DEFINE low == Min({tale.tension + e.tension, TopTension})
  <2>2. low \in Int /\ low <= TopTension
    BY <2>1, Pairs
  <2>3. tension = Max({1, low})
    OBVIOUS
  <2> HIDE DEF low, tension
  <2>4. Max({1, low}) = IF 1 >= low THEN 1 ELSE low
    BY <2>2, Pairs
  <2> QED
    BY <2>1, <2>2, <2>3, <2>4
<1> HIDE DEF flags, clues, tension, threat, progressed, u
<1>5. u = [f \in Fields |-> u[f]]
  BY <1>1, <1>2
<1>6. u.tension = tension /\ u.progressed = progressed /\ u.turn = tale.turn
      /\ u.scene = tale.scene /\ u.evaluated = tale.evaluated /\ u.phase = tale.phase
  BY <1>1, <1>2 DEF Fields
<1> QED
  BY <1>2, <1>3, <1>4, <1>5, <1>6 DEF Steady, u

(* The AI's changes to the clocks leave the scenario's alone.                *)
LEMMA ClockOpsFacts ==
  ASSUME AllSound(clocks, events), events \in Nat, NEW e \in Effects
  PROVE  /\ AllSound(prepareClockOps(e), events)
         /\ \A c \in AuthoredClocks : prepareClockOps(e)[c] = clocks[c]
<1> DEFINE ks == prepareClockOps(e)
           k(c) == IF c \in DOMAIN e.advances
                   THEN advanceThreatClockInDirector(c, clocks[c], e.advances[c]) ELSE clocks[c]
<1>1. ks = [c \in Clocks |->
              IF c \in AuthoredClocks THEN clocks[c]
              ELSE IF c \in e.resolves THEN resolveThreatClockInDirector(k(c)) ELSE k(c)]
  BY DEF prepareClockOps
<1>2. ASSUME NEW c \in Clocks PROVE Sound(c, ks[c], events)
  <2>1. Sound(c, clocks[c], events)
    BY DEF AllSound
  <2>2. Sound(c, k(c), events)
    <3>1. CASE c \in DOMAIN e.advances
      <4>1. e.advances[c] \in Nat
        BY <3>1, EffectAssumption
      <4> QED
        BY <2>1, <3>1, <4>1, AdvanceByFacts
    <3> QED
      BY <2>1, <3>1
  <2> HIDE DEF k
  <2>3. Sound(c, resolveThreatClockInDirector(k(c)), events)
    BY <2>2, ResolveFacts
  <2> HIDE DEF ks
  <2> QED
    BY <1>1, <2>1, <2>2, <2>3
<1> HIDE DEF k, ks
<1>3. ks = [c \in Clocks |-> ks[c]]
  BY <1>1
<1>4. \A c \in AuthoredClocks : ks[c] = clocks[c]
  BY <1>1, AuthoredAreClocks
<1> QED
  BY <1>2, <1>3, <1>4 DEF AllSound, ks

(* A commit that leaves the turn and the scenario's clocks as they were.     *)
LEMMA CommitPaced ==
  ASSUME Paced, NEW t, Steady(t), t.turn = tale.turn,
         NEW ks, AllSound(ks, events), \A c \in AuthoredClocks : ks[c] = clocks[c],
         NEW other, NEW always, Committed(t, ks, other, always)
  PROVE  Paced' /\ Going(clocks, clocks')
<1>1. events \in Nat /\ InPace(ks, t.turn)
  BY DEF Paced, InPace
<1>2. Paced' /\ \A c \in AuthoredClocks : Settles(c, ks[c], clocks'[c])
  BY <1>1, CommittedPaced
<1> QED
  BY <1>2 DEF Going

(* The reply to a check.                                                     *)
LEMMA CheckReplyPaced ==
  ASSUME Paced, commitCheckReply
  PROVE  Paced' /\ Going(clocks, clocks')
<1> DEFINE t == [tale EXCEPT !.place = NoOne, !.proposal = NoOne]
<1>1. Steady(tale) /\ AllSound(clocks, events)
  BY DEF Paced
<1>2. t = [f \in Fields |-> t[f]]
  BY <1>1 DEF Steady
<1>3. /\ t.turn = tale.turn /\ t.scene = tale.scene /\ t.progressed = tale.progressed
      /\ t.evaluated = tale.evaluated /\ t.tension = tale.tension /\ t.phase = tale.phase
      /\ tale.phase \in Phases
  BY <1>1 DEF Steady, Fields
<1>4. Committed(t, clocks, {}, TRUE)
  BY DEF commitCheckReply
<1> HIDE DEF t
<1>5. Steady(t)
  BY <1>1, <1>2, <1>3, SteadyOf
<1> QED
  BY <1>1, <1>3, <1>4, <1>5, CommitPaced

(* The reply to an action.                                                   *)
LEMMA AiTransactionPaced ==
  ASSUME Paced, commitAiTransaction
  PROVE  Paced' /\ Going(clocks, clocks')
<1>1. PICK e \in Effects, place \in (Nodes \ {tale.node}) \cup {NoOne},
           proposed \in DOMAIN Endings \cup {NoOne} :
        LET t  == prepareCampaign(e)
            ks == prepareClockOps(e)
            ending == IF proposed # NoOne /\ endingGateEvaluate(proposed, t, ks)
                      THEN proposed ELSE NoOne
            phase  == IF ending # NoOne THEN "awaiting_ending_confirmation"
                      ELSE IF place # NoOne THEN "awaiting_node_confirmation"
                      ELSE "awaiting_player_action"
        IN  Committed([t EXCEPT !.place = place, !.proposal = ending, !.phase = phase],
                      ks, e.other, TRUE)
  BY DEF commitAiTransaction
<1> DEFINE t  == prepareCampaign(e)
           ks == prepareClockOps(e)
           ending == IF proposed # NoOne /\ endingGateEvaluate(proposed, t, ks)
                     THEN proposed ELSE NoOne
           phase  == IF ending # NoOne THEN "awaiting_ending_confirmation"
                     ELSE IF place # NoOne THEN "awaiting_node_confirmation"
                     ELSE "awaiting_player_action"
           u == [t EXCEPT !.place = place, !.proposal = ending, !.phase = phase]
<1>2. Committed(u, ks, e.other, TRUE)
  BY <1>1
<1>3. phase \in Phases
  BY DEF Phases
<1>4. Steady(t) /\ t.turn = tale.turn
  BY CampaignSteady DEF Paced
<1>5. AllSound(ks, events) /\ \A c \in AuthoredClocks : ks[c] = clocks[c]
  BY ClockOpsFacts DEF Paced
<1> HIDE DEF t, ks, ending, phase
<1>6. u = [f \in Fields |-> u[f]]
  BY <1>4 DEF Steady
<1>7. /\ u.turn = t.turn /\ u.scene = t.scene /\ u.progressed = t.progressed
      /\ u.evaluated = t.evaluated /\ u.tension = t.tension /\ u.phase = phase
  BY <1>4 DEF Steady, Fields
<1> HIDE DEF u
<1>8. Steady(u) /\ u.turn = tale.turn
  BY <1>3, <1>4, <1>6, <1>7, SteadyOf
<1> QED
  BY <1>2, <1>5, <1>8, CommitPaced

(* The effects of a secret check.                                            *)
LEMMA SecretCheckPaced ==
  ASSUME Paced, applySecretCheckOutcome
  PROVE  Paced' /\ Going(clocks, clocks')
<1>1. PICK e \in Effects : Committed(prepareCampaign(e), clocks, e.other, FALSE)
  BY DEF applySecretCheckOutcome
<1>2. Steady(prepareCampaign(e)) /\ prepareCampaign(e).turn = tale.turn
  BY CampaignSteady DEF Paced
<1>3. AllSound(clocks, events)
  BY DEF Paced
<1> QED
  BY <1>1, <1>2, <1>3, CommitPaced

(* Going to another node.                                                    *)
LEMMA EnterNodePaced ==
  ASSUME Paced, enterNode
  PROVE  Paced' /\ Going(clocks, clocks')
<1> DEFINE t == [tale EXCEPT !.node = tale.place, !.place = NoOne, !.scene = 0,
                             !.progressed = 0, !.phase = "awaiting_player_action"]
<1>1. Steady(tale) /\ AllSound(clocks, events)
  BY DEF Paced
<1>2. t = [f \in Fields |-> t[f]]
  BY <1>1 DEF Steady
<1>3. /\ t.turn = tale.turn /\ t.scene = 0 /\ t.progressed = 0
      /\ t.evaluated = tale.evaluated /\ t.tension = tale.tension
      /\ t.phase = "awaiting_player_action"
  BY <1>1 DEF Steady, Fields
<1>4. Committed(t, clocks, {}, FALSE)
  BY DEF enterNode
<1> HIDE DEF t
<1>5. Steady(t)
  BY <1>1, <1>2, <1>3 DEF Steady, Phases
<1> QED
  BY <1>1, <1>3, <1>4, <1>5, CommitPaced

(* The story goes on and the clocks stand.                                   *)
LEMMA TalkPaced ==
  ASSUME Paced, UNCHANGED <<clocks, events>>, Steady(tale'), tale'.turn = tale.turn
  PROVE  Paced' /\ Going(clocks, clocks')
BY Staying DEF Paced

(* A hint costs a turn and a step of the first clock that still moves.       *)
LEMMA HintPaced ==
  ASSUME Paced, applyHintCost
  PROVE  Paced' /\ Going(clocks, clocks')
<1> DEFINE t == [tale EXCEPT !.turn = @ + 1, !.scene = @ + 1]
           I == {i \in 1..Len(ThreatClocks) : Active(clocks[ThreatClocks[i]])}
           active == SelectInSeq(ThreatClocks, LAMBDA c : Active(clocks[c]))
           tense == Min({t.tension + 1, TopTension})
<1>1. /\ Steady(tale) /\ AllSound(clocks, events) /\ InPace(clocks, tale.turn) /\ events \in Nat
  BY DEF Paced
<1>2. /\ tale = [f \in Fields |-> tale[f]] /\ tale.turn \in 0..MaxTurn /\ tale.scene \in Nat
      /\ tale.progressed \in 0..tale.scene /\ tale.evaluated \in Int
      /\ tale.evaluated <= tale.turn /\ tale.tension \in 1..TopTension /\ tale.phase \in Phases
  BY <1>1 DEF Steady
<1>3. MaxTurn \in Nat /\ tale.turn \in Nat /\ tale.turn < MaxTurn /\ TopTension \in Nat \ {0}
  BY <1>2, ClockAssumption DEF applyHintCost
<1>4. /\ t = [f \in Fields |-> t[f]]
      /\ t.turn = tale.turn + 1 /\ t.scene = tale.scene + 1 /\ t.progressed = tale.progressed
      /\ t.evaluated = tale.evaluated /\ t.tension = tale.tension /\ t.phase = tale.phase
  BY <1>2 DEF Fields
<1>5. /\ events' = events
      /\ IF active = 0 THEN tale' = [t EXCEPT !.tension = tense] /\ clocks' = clocks
         ELSE /\ clocks' = [clocks EXCEPT ![ThreatClocks[active]] =
                              advanceThreatClockInDirector(ThreatClocks[active], @, 1)]
              /\ tale' = t
  BY DEF applyHintCost
<1> HIDE DEF t
<1>6. t.turn \in 0..MaxTurn /\ t.scene \in Nat /\ t.progressed \in 0..t.scene
      /\ t.evaluated \in Int /\ t.evaluated <= t.turn
  BY <1>2, <1>3, <1>4
<1>7. Steady(t)
  BY <1>2, <1>4, <1>6 DEF Steady
<1>8. \A c \in AuthoredClocks :
        /\ clocks[c].current + 1 <= MaxAdvance[c] * t.turn
        /\ clocks[c].current \in Nat
  <2> SUFFICES ASSUME NEW c \in AuthoredClocks
               PROVE  /\ clocks[c].current + 1 <= MaxAdvance[c] * t.turn
                      /\ clocks[c].current \in Nat
    OBVIOUS
  <2> DEFINE reach == MaxAdvance[c] * tale.turn
  <2>1. c \in Clocks
    BY AuthoredAreClocks
  <2>2. clocks[c].current \in Nat /\ clocks[c].current <= reach
    BY <1>1, <2>1, CurrentType DEF InPace
  <2>3. reach \in Nat /\ MaxAdvance[c] * t.turn = reach + MaxAdvance[c]
        /\ MaxAdvance[c] \in Nat \ {0}
    BY <1>3, <1>4, NextTurn
  <2> HIDE DEF reach
  <2> QED
    BY <2>2, <2>3
<1>9. CASE active = 0
  <2>1. tense \in 1..TopTension
    <3>1. t.tension \in 1..TopTension /\ t.tension + 1 \in Int /\ TopTension \in Int
      BY <1>2, <1>3, <1>4
    <3>2. tense = IF t.tension + 1 <= TopTension THEN t.tension + 1 ELSE TopTension
      BY <3>1, Pairs
    <3> HIDE DEF tense
    <3> QED
      BY <1>3, <3>1, <3>2
  <2> HIDE DEF tense
  <2>2. tale' = [t EXCEPT !.tension = tense] /\ clocks' = clocks
    BY <1>5, <1>9
  <2>3. Steady(tale') /\ tale'.turn = t.turn
    <3>1. tale' = [f \in Fields |-> tale'[f]]
      BY <1>4, <2>2
    <3>2. /\ tale'.turn = t.turn /\ tale'.scene = t.scene /\ tale'.progressed = t.progressed
          /\ tale'.evaluated = t.evaluated /\ tale'.tension = tense /\ tale'.phase = t.phase
      BY <1>4, <2>2 DEF Fields
    <3> QED
      BY <1>7, <2>1, <3>1, <3>2 DEF Steady
  <2>4. InPace(clocks, t.turn)
    <3> SUFFICES ASSUME NEW c \in AuthoredClocks
                 PROVE  clocks[c].current <= MaxAdvance[c] * t.turn
      BY DEF InPace
    <3>1. MaxAdvance[c] * t.turn \in Int
      BY <1>3, <1>6, NextTurn
    <3> DEFINE reach == MaxAdvance[c] * t.turn
    <3> HIDE DEF reach
    <3>2. clocks[c].current + 1 <= reach /\ clocks[c].current \in Nat /\ reach \in Int
      BY <1>8, <3>1 DEF reach
    <3>3. clocks[c].current <= reach
      BY <3>2
    <3> QED
      BY <3>3 DEF reach
  <2> QED
    BY <1>1, <1>5, <2>2, <2>3, <2>4, Staying DEF Paced
<1>10. CASE active # 0
  <2>1. active = IF I # {} THEN Min(I) ELSE 0
    BY DEF SelectInSeq
  <2>2. I \in SUBSET Nat /\ I \subseteq 1..Len(ThreatClocks)
    BY ClockAssumption
  <2> HIDE DEF I, active
  <2>3. active \in I
    BY <1>10, <2>1, <2>2, MinOf
  <2> DEFINE c == ThreatClocks[active]
             m == advanceThreatClockInDirector(c, clocks[c], 1)
  <2>4. c \in Clocks
    BY <2>2, <2>3, ClockAssumption
  <2>5. Active(clocks[c])
    BY <2>3 DEF I
  <2>6. tale' = t /\ clocks' = [clocks EXCEPT ![c] = m]
    BY <1>5, <1>10
  <2> HIDE DEF c
  <2>7. /\ Sound(c, m, events) /\ m.current <= clocks[c].current + 1
        /\ m.resolved = clocks[c].resolved
    BY <1>1, <2>4, AdvanceByFacts DEF AllSound
  <2> HIDE DEF m
  <2>8. /\ clocks'[c] = m /\ (\A d \in Clocks : d # c => clocks'[d] = clocks[d])
        /\ clocks' = [d \in Clocks |-> clocks'[d]]
    BY <1>1, <2>4, <2>6 DEF AllSound
  <2>9. AllSound(clocks', events)
    <3>1. \A d \in Clocks : Sound(d, clocks'[d], events)
      BY <1>1, <2>7, <2>8 DEF AllSound
    <3> QED
      BY <2>8, <3>1 DEF AllSound
  <2>10. ASSUME NEW d \in AuthoredClocks
         PROVE  /\ clocks'[d].current <= MaxAdvance[d] * t.turn
                /\ Settles(d, clocks[d], clocks'[d])
    <3> DEFINE reach == MaxAdvance[d] * t.turn
    <3>1. reach \in Int
      BY <1>3, <1>6, NextTurn
    <3> HIDE DEF reach
    <3>2. clocks[d].current + 1 <= reach /\ clocks[d].current \in Nat /\ d \in Clocks
      BY <1>8, AuthoredAreClocks DEF reach
    <3>3. ClockMax[d] \in Nat /\ clocks'[d] \in ClockStates(d)
      BY <2>9, <3>2, ClockAssumption DEF AllSound, Sound
    <3>4. clocks'[d].current \in Nat
      BY <3>3 DEF ClockStates
    <3>5. clocks'[d].current <= reach
      <4>1. CASE d = c
        BY <2>7, <2>8, <3>1, <3>2, <3>4, <4>1
      <4>2. CASE d # c
        BY <2>8, <3>1, <3>2, <4>2
      <4> QED
        BY <4>1, <4>2
    <3>6. Settles(d, clocks[d], clocks'[d])
      <4>1. CASE d = c
        BY <2>5, <2>7, <2>8, <4>1 DEF Settles, Active
      <4>2. CASE d # c
        BY <2>8, <3>2, <4>2 DEF Settles
      <4> QED
        BY <4>1, <4>2
    <3> QED
      BY <3>5, <3>6 DEF reach
  <2> QED
    BY <1>1, <1>5, <1>7, <2>6, <2>9, <2>10 DEF Paced, InPace, Going
<1> QED
  BY <1>9, <1>10

(* The event of an ending is as new to the clocks as any other.              *)
LEMMA ApplyEndingPaced ==
  ASSUME Paced, NEW e, applyEnding(e)
  PROVE  Paced' /\ Going(clocks, clocks')
<1> DEFINE t == [tale EXCEPT !.ending = e, !.proposal = NoOne, !.place = NoOne,
                             !.phase = "campaign_ended"]
<1>1. /\ Steady(tale) /\ AllSound(clocks, events) /\ InPace(clocks, tale.turn) /\ events \in Nat
  BY DEF Paced
<1>2. t = [f \in Fields |-> t[f]]
  BY <1>1 DEF Steady
<1>3. /\ t.turn = tale.turn /\ t.scene = tale.scene /\ t.progressed = tale.progressed
      /\ t.evaluated = tale.evaluated /\ t.tension = tale.tension /\ t.phase = "campaign_ended"
  BY <1>1 DEF Steady, Fields
<1>4. /\ tale' = recordProgressSemantics(t, {"RESOLUTION"}, TRUE)
      /\ clocks' = Renewed(clocks) /\ events' = events + 1
  BY DEF applyEnding
<1> HIDE DEF t
<1>5. Steady(t)
  BY <1>1, <1>2, <1>3, SteadyOf DEF Phases
<1>6. Steady(tale') /\ tale'.turn = tale.turn
  BY <1>3, <1>4, <1>5, RecordingSteady
<1>7. AllSound(clocks', events') /\ \A c \in Clocks : clocks'[c].current = clocks[c].current
  <2>1. AllSound(Renewed(clocks), events + 1)
        /\ \A c \in Clocks : Renewed(clocks)[c].current = clocks[c].current
    BY <1>1, AllRenewed
  <2> QED
    BY <1>4, <2>1
<1>8. \A c \in AuthoredClocks : c \in Clocks /\ Sound(c, clocks[c], events)
  BY <1>1, AuthoredAreClocks DEF AllSound
<1>9. Going(clocks, clocks')
  BY <1>1, <1>4, <1>8, RenewedSettles DEF Going
<1>10. InPace(clocks', tale'.turn)
  BY <1>1, <1>6, <1>7, <1>8 DEF InPace
<1> QED
  <2>1. events' \in Nat
    BY <1>1, <1>4
  <2>2. Paced'
    BY <1>6, <1>7, <1>10, <2>1 DEF Paced
  <2> QED
    BY <1>9, <2>2

(* What the player confirms, rejects or goes on with.                        *)
LEMMA AnswersSteady ==
  ASSUME Steady(tale), NEW t,
         \/ t = [tale EXCEPT !.place = NoOne, !.phase = "awaiting_player_action"]
         \/ t = [tale EXCEPT !.proposal = NoOne, !.phase = "awaiting_player_action"]
         \/ t = [tale EXCEPT !.ending = NoOne, !.phase = "awaiting_player_action"]
  PROVE  Steady(t) /\ t.turn = tale.turn
<1>1. t = [f \in Fields |-> t[f]]
  BY DEF Steady
<1>2. /\ t.turn = tale.turn /\ t.scene = tale.scene /\ t.progressed = tale.progressed
      /\ t.evaluated = tale.evaluated /\ t.tension = tale.tension
      /\ t.phase = "awaiting_player_action"
  BY DEF Steady, Fields
<1> QED
  BY <1>1, <1>2, SteadyOf DEF Phases

(* Every step of the story.                                                  *)
LEMMA PacedStep ==
  ASSUME Paced, [StoryNext]_storyVars
  PROVE  Paced' /\ Going(clocks, clocks')
<1>1. Steady(tale)
  BY DEF Paced
<1>2. CASE submitAction
  BY <1>2, SubmitPaced
<1>3. CASE commitCheckReply
  BY <1>3, CheckReplyPaced
<1>4. CASE commitAiTransaction
  BY <1>4, AiTransactionPaced
<1>5. CASE applySecretCheckOutcome
  BY <1>5, SecretCheckPaced
<1>6. CASE enterNode
  BY <1>6, EnterNodePaced
<1>7. CASE rejectNodeProposal
  BY <1>1, <1>7, AnswersSteady, TalkPaced DEF rejectNodeProposal
<1>8. CASE applyHintCost
  BY <1>8, HintPaced
<1>9. CASE confirmEndingProposal
  <2>1. CASE endingGateEvaluate(tale.proposal, tale, clocks)
    <3>1. applyEnding(tale.proposal)
      BY <1>9, <2>1 DEF confirmEndingProposal
    <3> QED
      BY <3>1, ApplyEndingPaced
  <2>2. CASE ~ endingGateEvaluate(tale.proposal, tale, clocks)
    BY <1>1, <1>9, <2>2, AnswersSteady, TalkPaced DEF confirmEndingProposal
  <2> QED
    BY <2>1, <2>2
<1>10. CASE rejectEndingProposal
  BY <1>1, <1>10, AnswersSteady, TalkPaced DEF rejectEndingProposal
<1>11. CASE chooseEnding
  BY <1>11, ApplyEndingPaced DEF chooseEnding
<1>12. CASE continueEpilogue
  BY <1>1, <1>12, AnswersSteady, TalkPaced DEF continueEpilogue
<1>13. CASE UNCHANGED storyVars
  <2>1. tale' = tale /\ clocks' = clocks /\ events' = events
    BY <1>13 DEF storyVars
  <2> QED
    BY <1>1, <2>1, TalkPaced
<1> QED
  BY <1>2, <1>3, <1>4, <1>5, <1>6, <1>7, <1>8, <1>9, <1>10, <1>11, <1>12, <1>13 DEF StoryNext

(* The inductive invariant holds throughout.                                 *)
LEMMA AlwaysPaced == StorySpec => []Paced
<1>1. Paced /\ [StoryNext]_storyVars => Paced'
  BY PacedStep
<1> QED
  BY <1>1, PacedInit, PTL DEF StorySpec

(* However the clocks' rules, the AI and the hints come together, turns and  *)
(* tension keep their ranges, a clock of the scenario keeps the pace its     *)
(* author wrote, and a rule about events answers each event at most once     *)
(* (src/authored-threat-clock.js:53-63).                                     *)
THEOREM ClocksAlwaysKeepPace == StorySpec => []ClocksKeepPace
<1>1. Paced => ClocksKeepPace
  <2> SUFFICES ASSUME Paced PROVE ClocksKeepPace
    OBVIOUS
  <2>1. Steady(tale) /\ AllSound(clocks, events) /\ InPace(clocks, tale.turn) /\ events \in Nat
    BY DEF Paced
  <2>2. StoryTypeOK
    <3>1. \A c \in Clocks : clocks[c].triggered <=> clocks[c].current = ClockMax[c]
      BY <2>1 DEF AllSound, Sound
    <3> QED
      BY <2>1, <3>1 DEF StoryTypeOK, Steady, Phases
  <2>3. EachEventOnce
    <3>1. \A c \in AuthoredClocks : Answers(c, clocks[c], events)
      BY <2>1, AuthoredAreClocks DEF AllSound, Sound
    <3> QED
      BY <3>1 DEF EachEventOnce, Answers
  <2>4. WithinItsPace
    BY <2>1 DEF WithinItsPace, InPace
  <2> QED
    BY <2>2, <2>3, <2>4 DEF ClocksKeepPace
<1> QED
  BY <1>1, AlwaysPaced, PTL

(* A clock of the scenario that has triggered or been resolved never moves   *)
(* again, neither is taken back, and only a rule of the scenario resolves it *)
(* (src/authored-threat-clock.js:1, 61, 86-88).                              *)
THEOREM SettledClocksStay == StorySpec => SettledStays
<1>1. Paced /\ [StoryNext]_storyVars => Going(clocks, clocks')
  BY PacedStep
<1>2. StorySpec => [][Going(clocks, clocks')]_storyVars
  BY <1>1, AlwaysPaced, PTL DEF StorySpec
<1>3. SettledStays <=> [][Going(clocks, clocks')]_storyVars
  BY DEF SettledStays, Going, Settles
<1> QED
  BY <1>2, <1>3

-----------------------------------------------------------------------------
(* Changes and what they cost *)

(* The smallest of three numbers is one of them.                             *)
LEMMA MinOfThree ==
  ASSUME NEW a \in Int, NEW b \in Int, NEW c \in Int
  PROVE  /\ Min({a, b, c}) \in Int /\ Min({a, b, c}) \in {a, b, c}
         /\ Min({a, b, c}) <= a /\ Min({a, b, c}) <= b /\ Min({a, b, c}) <= c
<1>1. \E x \in {a, b, c} : \A y \in {a, b, c} : x <= y
  OBVIOUS
<1>2. Min({a, b, c}) \in {a, b, c} /\ \A y \in {a, b, c} : Min({a, b, c}) <= y
  BY <1>1 DEF Min
<1> HIDE DEF Min
<1> QED
  BY <1>2

Whole(s) == s \in Seq(ToSet(s)) /\ \A e \in ToSet(s) : e.by \in Int

(* A sequence of changes with whole amounts.                                 *)
LEMMA WholeOf ==
  ASSUME NEW S, NEW s \in Seq(S), \A e \in S : e.by \in Int
  PROVE  Whole(s)
<1>1. s \in Seq(ToSet(s))
  BY Elements DEF ToSet
<1> QED
  BY <1>1, Elements DEF Whole

(* The sequences that striking changes out of s goes through, up to w.       *)
Strikes(left, s, struck, S, w) ==
  /\ left \in [0..Len(s) -> Seq(S \ struck)]
  /\ left[0] = << >> /\ w = left[Len(s)]
  /\ \A i \in 1..Len(s) : s[i] \in struck => left[i] = left[i - 1]
  /\ \A i \in 1..Len(s) : s[i] \notin struck => left[i] = Append(left[i - 1], s[i])

(* Striking changes out goes through the sequence once and keeps the others. *)
LEMMA WithoutSteps ==
  ASSUME NEW S, NEW s \in Seq(S), NEW struck
  PROVE  \E left : Strikes(left, s, struck, S, Without(s, struck))
<1> DEFINE len  == Len(s)
           Q    == Seq(S \ struck)
           Rule(g) == g = [i \in 0..len |->
                             IF i = 0 THEN <<>>
                             ELSE IF s[i] \in struck THEN g[i - 1] ELSE Append(g[i - 1], s[i])]
           left == CHOOSE g : Rule(g)
           step == [i \in 1..len |-> [q \in Q |-> IF s[i] \in struck THEN q ELSE Append(q, s[i])]]
<1>1. len \in Nat /\ \A i \in 1..len : s[i] \in S
  OBVIOUS
<1>2. << >> \in Q
  OBVIOUS
<1>3. \A i \in 1..len : \A q \in Q : (IF s[i] \in struck THEN q ELSE Append(q, s[i])) \in Q
  BY <1>1
<1>4. Without(s, struck) = left[len]
  BY DEF Without
<1> HIDE DEF Q, len
<1>5. step \in [1..len -> [Q -> Q]]
  BY <1>3
<1>6. PICK f : Computes(f, len, Q, << >>, step)
  <2> HIDE DEF step
  <2> QED
    BY <1>1, <1>2, <1>5, Iterated
<1>7. Rule(f)
  <2>1. f \in [0..len -> Q] /\ f[0] = << >> /\ \A i \in 1..len : f[i] = step[i][f[i - 1]]
    BY <1>6 DEF Computes
  <2>2. \A i \in 1..len : f[i - 1] \in Q
    BY <1>1, <2>1
  <2>3. \A i \in 1..len :
            f[i] = IF s[i] \in struck THEN f[i - 1] ELSE Append(f[i - 1], s[i])
    BY <2>1, <2>2
  <2>4. \A i \in 0..len : i = 0 \/ i \in 1..len
    BY <1>1
  <2> QED
    BY <2>1, <2>3, <2>4
<1>8. Rule(left)
  <2> HIDE DEF Rule
  <2> QED
    BY <1>7
<1> HIDE DEF left
<1>9. /\ left[0] = << >>
      /\ \A i \in 1..len :
            left[i] = IF s[i] \in struck THEN left[i - 1] ELSE Append(left[i - 1], s[i])
  <2>1. 0 \in 0..len /\ \A i \in 1..len : i \in 0..len /\ i # 0
    BY <1>1
  <2> QED
    BY <1>8, <2>1
<1>10. \A i \in 0..len : left[i] \in Q
  <2> DEFINE P == {i \in 0..len : left[i] \in Q}
  <2>1. 0 \in P
    BY <1>1, <1>2, <1>9
  <2>2. ASSUME NEW i \in 1..len, i - 1 \in P PROVE i \in P
    <3>1. left[i - 1] \in Q /\ i \in 0..len
      BY <1>1, <2>2
    <3> QED
      BY <1>3, <1>9, <3>1
  <2>3. 0..len \subseteq P
    <3> HIDE DEF P
    <3> QED
      BY <1>1, <2>1, <2>2, UpTo
  <2> QED
    BY <2>3
<1>11. left \in [0..len -> Q]
  <2>1. left = [i \in 0..len |-> left[i]]
    BY <1>8
  <2> QED
    BY <1>10, <2>1
<1> QED
  BY <1>4, <1>9, <1>11 DEF Strikes, Q, len

(* What is left has whole amounts.                                           *)
LEMMA WithoutWhole ==
  ASSUME NEW s, Whole(s), NEW struck
  PROVE  /\ Whole(Without(s, struck))
         /\ \A e \in ToSet(Without(s, struck)) : e \in ToSet(s) /\ e \notin struck
<1> DEFINE Z == ToSet(s)
           S == Z \ struck
           w == Without(s, struck)
<1>1. s \in Seq(Z) /\ Len(s) \in Nat
  BY DEF Whole
<1>2. PICK left : Strikes(left, s, struck, Z, w)
  <2> HIDE DEF Z
  <2> QED
    BY <1>1, WithoutSteps
<1>3. w \in Seq(S)
  <2> HIDE DEF w
  <2>1. left \in [0..Len(s) -> Seq(S)] /\ w = left[Len(s)]
    BY <1>2 DEF Strikes
  <2> QED
    BY <1>1, <2>1
<1>4. \A e \in S : e.by \in Int
  BY DEF Whole
<1> HIDE DEF w
<1>5. \A e \in ToSet(w) : e \in S
  <2> HIDE DEF S
  <2> QED
    BY <1>3, Elements
<1>6. Whole(w)
  <2> HIDE DEF S
  <2> QED
    BY <1>3, <1>4, WholeOf
<1> QED
  BY <1>5, <1>6 DEF w

(* So have two such sequences together.                                      *)
LEMMA ConcatWhole ==
  ASSUME NEW s, Whole(s), NEW u, Whole(u)
  PROVE  Whole(s \o u) /\ ToSet(s \o u) = ToSet(s) \cup ToSet(u)
<1> DEFINE S == ToSet(s) \cup ToSet(u)
<1>1. s \in Seq(S) /\ u \in Seq(S) /\ \A e \in S : e.by \in Int
  BY DEF Whole
<1>2. ToSet(s \o u) = ToSet(s) \cup ToSet(u)
  <2> HIDE DEF S
  <2> QED
    BY <1>1, ElementsOfConcat
<1> HIDE DEF S
<1>3. s \o u \in Seq(S)
  BY <1>1
<1> QED
  BY <1>1, <1>2, <1>3, WholeOf

Costs == [tension : Nat, hp : Nat, san : Nat, progress : Nat]

Free == [tension |-> 0, hp |-> 0, san |-> 0, progress |-> 0]

(* The totals that the changes add up to, one after the other.               *)
AddsUp(total, changes, record) ==
  /\ total[0] = Free /\ authoredTotals(changes, record) = total[Len(changes)]
  /\ \A i \in 1..Len(changes) :
        total[i] = IF i \in routeEntries(changes, record)
                   THEN costMerge(total[i - 1], effectiveCost(changes[i], record))
                   ELSE total[i - 1]

(* A route that is used costs a cost.                                        *)
LEMMA EffectiveCostFacts ==
  ASSUME NEW changes, NEW record, NEW i \in routeEntries(changes, record)
  PROVE  effectiveCost(changes[i], record) \in Costs
<1> DEFINE r    == <<changes[i].id, changes[i].route>>
           cost == Routes[r].cost
<1>1. r \in DOMAIN Routes
  BY DEF routeEntries, UsesRoute, By
<1>2. cost \in Costs
  BY <1>1, ScenarioAssumption DEF Costs
<1>3. effectiveCost(changes[i], record) =
        IF cost.tension > 0 /\ record.fumble
        THEN [cost EXCEPT !.tension = Max({2, cost.tension})] ELSE cost
  BY DEF effectiveCost
<1> HIDE DEF cost
<1>4. Max({2, cost.tension}) \in Nat
  <2>1. cost.tension \in Nat /\ cost.tension \in Int /\ 2 \in Int
    BY <1>2 DEF Costs
  <2>2. Max({2, cost.tension}) = IF 2 >= cost.tension THEN 2 ELSE cost.tension
    BY <2>1, Pairs
  <2> QED
    BY <2>1, <2>2
<1> QED
  BY <1>2, <1>3, <1>4 DEF Costs

(* Totals are added up one change at a time.                                 *)
LEMMA TotalsSteps ==
  ASSUME NEW changes, Len(changes) \in Nat, NEW record
  PROVE  \E total : AddsUp(total, changes, record)
<1> DEFINE len   == Len(changes)
           pays  == routeEntries(changes, record)
           first == [tension |-> 0, hp |-> 0, san |-> 0, progress |-> 0]
           paid(i, t) == IF i \in pays THEN costMerge(t, effectiveCost(changes[i], record)) ELSE t
           Rule(g) == g = [i \in 0..len |->
                             IF i = 0 THEN first
                             ELSE IF i \in pays
                                  THEN costMerge(g[i - 1], effectiveCost(changes[i], record))
                                  ELSE g[i - 1]]
           total == CHOOSE g : Rule(g)
           step  == [i \in 1..len |-> [t \in Costs |-> paid(i, t)]]
<1>1. first = Free /\ first \in Costs
  BY DEF Free, Costs
<1>2. \A t, u \in Costs : costMerge(t, u) \in Costs
  BY DEF costMerge, Costs
<1>3. \A i \in 1..len : \A t \in Costs : paid(i, t) \in Costs
  BY <1>2, EffectiveCostFacts
<1>4. authoredTotals(changes, record) = total[len]
  BY DEF authoredTotals
<1>5. len \in Nat
  OBVIOUS
<1> HIDE DEF first, len, pays
<1>6. step \in [1..len -> [Costs -> Costs]]
  <2> HIDE DEF paid
  <2> QED
    BY <1>3
<1>7. PICK f : Computes(f, len, Costs, first, step)
  <2> HIDE DEF step
  <2> QED
    BY <1>1, <1>5, <1>6, Iterated
<1>8. Rule(f)
  <2>1. f \in [0..len -> Costs] /\ f[0] = first /\ \A i \in 1..len : f[i] = step[i][f[i - 1]]
    BY <1>7 DEF Computes
  <2>2. \A i \in 1..len : f[i - 1] \in Costs
    BY <1>5, <2>1
  <2>3. \A i \in 1..len : f[i] = paid(i, f[i - 1])
    <3> HIDE DEF paid
    <3> QED
      BY <2>1, <2>2
  <2>4. \A i \in 0..len : i = 0 \/ i \in 1..len
    BY <1>5
  <2> QED
    BY <2>1, <2>3, <2>4
<1>9. Rule(total)
  <2> HIDE DEF Rule
  <2> QED
    BY <1>8
<1> HIDE DEF total
<1>10. /\ total[0] = first
       /\ \A i \in 1..len :
             total[i] = IF i \in pays THEN costMerge(total[i - 1], effectiveCost(changes[i], record))
                        ELSE total[i - 1]
  <2>1. 0 \in 0..len /\ \A i \in 1..len : i \in 0..len /\ i # 0
    BY <1>5
  <2> QED
    BY <1>9, <2>1
<1> QED
  BY <1>1, <1>4, <1>10 DEF AddsUp, len, pays

(* A total stays in any set that the costs of the routes used do not leave.  *)
LEMMA TotalsStay ==
  ASSUME NEW changes, Len(changes) \in Nat, NEW record, NEW C, Free \in C,
         \A i \in routeEntries(changes, record) : \A t \in C :
            costMerge(t, effectiveCost(changes[i], record)) \in C
  PROVE  authoredTotals(changes, record) \in C
<1> DEFINE len == Len(changes)
<1>1. PICK total : AddsUp(total, changes, record)
  BY TotalsSteps
<1>2. /\ total[0] = Free /\ authoredTotals(changes, record) = total[len]
      /\ \A i \in 1..len :
            total[i] = IF i \in routeEntries(changes, record)
                       THEN costMerge(total[i - 1], effectiveCost(changes[i], record))
                       ELSE total[i - 1]
  BY <1>1 DEF AddsUp
<1> DEFINE P == {i \in 0..len : total[i] \in C}
<1>3. len \in Nat /\ 0 \in P
  BY <1>2
<1>4. ASSUME NEW i \in 1..len, i - 1 \in P PROVE i \in P
  <2>1. total[i - 1] \in C /\ i \in 0..len
    BY <1>4
  <2> QED
    BY <1>2, <2>1
<1>5. 0..len \subseteq P
  <2> HIDE DEF P, len
  <2> QED
    BY <1>3, <1>4, UpTo
<1> QED
  BY <1>2, <1>3, <1>5

(* The costs of the routes a reply uses add up to a cost.                    *)
LEMMA AuthoredTotalsFacts ==
  ASSUME NEW changes, Whole(changes), NEW record
  PROVE  /\ authoredTotals(changes, record) \in Costs
         /\ routeEntries(changes, record) = {} => authoredTotals(changes, record) = Free
<1> DEFINE pays == routeEntries(changes, record)
<1>1. Free \in Costs /\ Len(changes) \in Nat
  BY DEF Costs, Free, Whole
<1>2. \A i \in pays : effectiveCost(changes[i], record) \in Costs
  BY EffectiveCostFacts
<1>3. \A t, u \in Costs : costMerge(t, u) \in Costs
  BY DEF costMerge, Costs
<1>4. \A i \in pays : \A t \in Costs : costMerge(t, effectiveCost(changes[i], record)) \in Costs
  BY <1>2, <1>3
<1>5. authoredTotals(changes, record) \in Costs
  BY <1>1, <1>4, TotalsStay
<1>6. pays = {} => authoredTotals(changes, record) = Free
  <2> DEFINE C == {Free}
  <2>1. Free \in C
    OBVIOUS
  <2>2. SUFFICES ASSUME pays = {} PROVE authoredTotals(changes, record) \in C
    OBVIOUS
  <2> HIDE DEF C
  <2> QED
    BY <1>1, <2>1, <2>2, TotalsStay
<1> QED
  BY <1>5, <1>6

-----------------------------------------------------------------------------
(* The purse *)

(* The larger of two numbers is one of them.                                 *)
LEMMA MaxOfTwo ==
  ASSUME NEW a \in Int, NEW b \in Int
  PROVE  Max({a, b}) \in Int /\ Max({a, b}) >= a /\ Max({a, b}) >= b
         /\ (Max({a, b}) = a \/ Max({a, b}) = b)
<1>1. Max({a, b}) = IF a >= b THEN a ELSE b
  BY Pairs
<1> HIDE DEF Max
<1> QED
  BY <1>1

(* The full purse is a purse.                                                *)
LEMMA FullFacts ==
  /\ Full.hp \in Nat /\ Full.san \in Nat /\ Full.maxTension \in Nat
  /\ 1 <= Full.maxTension /\ Full \in Purses
<1>1. /\ Full = [hp |-> Full.hp, san |-> Full.san, tension |-> Full.tension,
                 maxTension |-> Full.maxTension, progress |-> Full.progress]
      /\ Full.hp \in Nat /\ Full.san \in Nat /\ Full.maxTension \in Nat
      /\ Full.tension \in 1..Full.maxTension /\ Full.progress \in 0..100
  BY MindAssumption
<1>2. 1 <= Full.maxTension
  BY <1>1
<1>3. Full.hp \in 0..Full.hp /\ Full.san \in 0..Full.san
  BY <1>1
<1> QED
  BY <1>1, <1>2, <1>3 DEF Purses

(* What is clamped is in range, and passes no value there it did not pass.   *)
LEMMA WithinFacts ==
  ASSUME NEW n \in Int, NEW low \in Int, NEW high \in Int, low <= high
  PROVE  /\ Within(n, low, high) \in low..high
         /\ \A x \in low..high : x <= n => x <= Within(n, low, high)
<1> DEFINE m == Min({n, high})
           w == Max({low, m})
<1>1. m = IF n <= high THEN n ELSE high
  BY Pairs
<1>2. m \in Int
  BY <1>1
<1> HIDE DEF m
<1>3. w = IF low >= m THEN low ELSE m
  BY <1>2, Pairs
<1>4. Within(n, low, high) = w
  BY DEF Within, m
<1> HIDE DEF w
<1> QED
  BY <1>1, <1>2, <1>3, <1>4

(* A change leaves the purse in its ranges.                                  *)
LEMMA ApplyChangeFacts ==
  ASSUME NEW p \in Purses, NEW c, c.by \in Int
  PROVE  applyChange(p, c) \in Purses
<1> DEFINE h   == p.hp + c.by
           s   == p.san + c.by
           t   == p.tension + c.by
           g   == p.progress + c.by
           hp  == Within(h, 0, Full.hp)
           san == Within(s, 0, Full.san)
           ten == Within(t, 1, Full.maxTension)
           pro == Within(g, 0, 100)
<1>1. /\ p = [hp |-> p.hp, san |-> p.san, tension |-> p.tension,
              maxTension |-> p.maxTension, progress |-> p.progress]
      /\ p.hp \in 0..Full.hp /\ p.san \in 0..Full.san /\ p.tension \in 1..Full.maxTension
      /\ p.maxTension = Full.maxTension /\ p.progress \in 0..100
  BY DEF Purses
<1>2. /\ h \in Int /\ s \in Int /\ t \in Int /\ g \in Int
      /\ 0 <= Full.hp /\ 0 <= Full.san
  BY <1>1, FullFacts
<1>3. applyChange(p, c) =
        CASE c.op = "adjustHp"       -> [p EXCEPT !.hp = hp]
          [] c.op = "adjustSan"      -> [p EXCEPT !.san = san]
          [] c.op = "adjustTension"  -> [p EXCEPT !.tension = ten]
          [] c.op = "adjustProgress" -> [p EXCEPT !.progress = pro]
          [] OTHER                   -> p
  BY <1>1 DEF applyChange
<1> HIDE DEF h, s, t, g
<1>4. hp \in 0..Full.hp /\ san \in 0..Full.san
  <2>1. hp \in 0..Full.hp
    <3>1. h \in Int /\ 0 \in Int /\ Full.hp \in Int /\ 0 <= Full.hp
      BY <1>2, FullFacts
    <3> QED
      BY <3>1, WithinFacts
  <2>2. san \in 0..Full.san
    <3>1. s \in Int /\ 0 \in Int /\ Full.san \in Int /\ 0 <= Full.san
      BY <1>2, FullFacts
    <3> QED
      BY <3>1, WithinFacts
  <2> QED
    BY <2>1, <2>2
<1>5. ten \in 1..Full.maxTension /\ pro \in 0..100
  <2>1. ten \in 1..Full.maxTension
    <3>1. t \in Int /\ 1 \in Int /\ Full.maxTension \in Int /\ 1 <= Full.maxTension
      BY <1>2, FullFacts
    <3> QED
      BY <3>1, WithinFacts
  <2>2. pro \in 0..100
    <3>1. g \in Int /\ 0 \in Int /\ 100 \in Int /\ 0 <= 100
      BY <1>2, FullFacts
    <3> QED
      BY <3>1, WithinFacts
  <2> QED
    BY <2>1, <2>2
<1> HIDE DEF hp, san, ten, pro
<1> QED
  BY <1>1, <1>5, <1>4, <1>3 DEF Purses

(* The purses that changes go through, one after the other.                  *)
Makes(after, p, changes) ==
  /\ after \in [0..Len(changes) -> Purses]
  /\ after[0] = p /\ prepareStateChanges(p, changes) = after[Len(changes)]
  /\ \A i \in 1..Len(changes) : after[i] = applyChange(after[i - 1], changes[i])

(* Changes are made one after the other.                                     *)
LEMMA PrepareSteps ==
  ASSUME NEW p \in Purses, NEW changes, Whole(changes)
  PROVE  \E after : Makes(after, p, changes)
<1> DEFINE len   == Len(changes)
           Rule(g) == g = [i \in 0..len |->
                             IF i = 0 THEN p ELSE applyChange(g[i - 1], changes[i])]
           after == CHOOSE g : Rule(g)
           step  == [i \in 1..len |-> [q \in Purses |-> applyChange(q, changes[i])]]
<1>1. len \in Nat /\ \A i \in 1..len : changes[i].by \in Int
  BY Elements DEF Whole
<1>2. \A i \in 1..len : \A q \in Purses : applyChange(q, changes[i]) \in Purses
  BY <1>1, ApplyChangeFacts
<1>3. prepareStateChanges(p, changes) = after[len]
  BY DEF prepareStateChanges
<1> HIDE DEF len
<1>4. step \in [1..len -> [Purses -> Purses]]
  BY <1>2
<1>5. PICK f : Computes(f, len, Purses, p, step)
  <2> HIDE DEF step
  <2> QED
    BY <1>1, <1>4, Iterated
<1>6. Rule(f)
  <2>1. f \in [0..len -> Purses] /\ f[0] = p /\ \A i \in 1..len : f[i] = step[i][f[i - 1]]
    BY <1>5 DEF Computes
  <2>2. \A i \in 1..len : f[i - 1] \in Purses
    BY <1>1, <2>1
  <2>3. \A i \in 1..len : f[i] = applyChange(f[i - 1], changes[i])
    BY <2>1, <2>2
  <2>4. \A i \in 0..len : i = 0 \/ i \in 1..len
    BY <1>1
  <2> QED
    BY <2>1, <2>3, <2>4
<1>7. Rule(after)
  <2> HIDE DEF Rule
  <2> QED
    BY <1>6
<1> HIDE DEF after
<1>8. after[0] = p /\ \A i \in 1..len : after[i] = applyChange(after[i - 1], changes[i])
  <2>1. 0 \in 0..len /\ \A i \in 1..len : i \in 0..len /\ i # 0
    BY <1>1
  <2> QED
    BY <1>7, <2>1
<1>9. \A i \in 0..len : after[i] \in Purses
  <2> DEFINE P == {i \in 0..len : after[i] \in Purses}
  <2>1. 0 \in P
    BY <1>1, <1>8
  <2>2. ASSUME NEW i \in 1..len, i - 1 \in P PROVE i \in P
    <3>1. after[i - 1] \in Purses /\ i \in 0..len
      BY <1>1, <2>2
    <3> QED
      BY <1>2, <1>8, <3>1
  <2>3. 0..len \subseteq P
    <3> HIDE DEF P
    <3> QED
      BY <1>1, <2>1, <2>2, UpTo
  <2> QED
    BY <2>3
<1>10. after \in [0..len -> Purses]
  <2>1. after = [i \in 0..len |-> after[i]]
    BY <1>7
  <2> QED
    BY <1>9, <2>1
<1> QED
  BY <1>3, <1>8, <1>10 DEF Makes, len

(* A purse stays a purse.                                                    *)
LEMMA PrepareFacts ==
  ASSUME NEW p \in Purses, NEW changes, Whole(changes)
  PROVE  prepareStateChanges(p, changes) \in Purses
<1>1. Len(changes) \in Nat
  BY DEF Whole
<1>2. PICK after : Makes(after, p, changes)
  BY PrepareSteps
<1> QED
  BY <1>1, <1>2 DEF Makes

-----------------------------------------------------------------------------
(* What a check may cost *)

(* A change that takes nothing.                                              *)
Gentle(c) ==
  /\ c.op \in {"adjustHp", "adjustProgress"} => c.by >= 0
  /\ c.op \notin {"adjustSan", "adjustTension"}

(* The costs come in their order, a zero is left out.                        *)
LEMMA CostEffectsFacts ==
  ASSUME NEW t, t.hp \in Int, t.san \in Int, t.tension \in Int, t.progress \in Int
  PROVE  /\ Whole(costEffects(t))
         /\ \A i \in 1..Len(costEffects(t)) :
               costEffects(t)[i].op = "adjustHp" => i = 1 /\ costEffects(t)[i].by = -t.hp
         /\ t.hp = 0 /\ t.san = 0 /\ t.tension = 0 /\ t.progress = 0 =>
               ToSet(costEffects(t)) = {}
<1> DEFINE a   == Change("adjustHp", None, -t.hp)
           b   == Change("adjustSan", None, -t.san)
           c   == Change("adjustTension", None, t.tension)
           d   == Change("adjustProgress", None, -t.progress)
           all == <<a, b, c, d>>
           S   == {a, b, c, d}
           zero == {e \in ToSet(all) : e.by = 0}
           w   == Without(all, zero)
<1>1. costEffects(t) = w
  BY DEF costEffects
<1>2. /\ a.op = "adjustHp" /\ b.op # "adjustHp" /\ c.op # "adjustHp" /\ d.op # "adjustHp"
      /\ a.by = -t.hp /\ b.by = -t.san /\ c.by = t.tension /\ d.by = -t.progress
  BY DEF Change
<1> HIDE DEF a, b, c, d
<1>3. /\ all \in Seq(S) /\ Len(all) = 4
      /\ all[1] = a /\ all[2] = b /\ all[3] = c /\ all[4] = d
  OBVIOUS
<1>4. \A e \in S : e.by \in Int
  BY <1>2
<1> HIDE DEF all, S
<1>5. Whole(all)
  BY <1>3, <1>4, WholeOf
<1>6. Whole(w) /\ \A e \in ToSet(w) : e \in ToSet(all) /\ e \notin zero
  <2> HIDE DEF zero
  <2> QED
    BY <1>5, WithoutWhole
<1>7. ASSUME t.hp = 0, t.san = 0, t.tension = 0, t.progress = 0 PROVE ToSet(w) = {}
  <2>1. \A e \in ToSet(all) : e \in S
    BY <1>3, Elements
  <2>2. \A e \in S : e.by = 0
    BY <1>2, <1>7 DEF S
  <2>3. ToSet(all) \subseteq zero
    BY <2>1, <2>2
  <2> HIDE DEF zero, w
  <2> QED
    BY <1>6, <2>3
<1>8. \A i \in 1..Len(w) : w[i].op = "adjustHp" => i = 1 /\ w[i].by = -t.hp
  <2> HIDE DEF zero
  <2>1. PICK left : Strikes(left, all, zero, S, w)
    BY <1>3, WithoutSteps
  <2>2. /\ left \in [0..4 -> Seq(S \ zero)] /\ left[0] = << >> /\ w = left[4]
        /\ \A i \in 1..4 : left[i] = left[i - 1] \/ left[i] = Append(left[i - 1], all[i])
    BY <1>3, <2>1 DEF Strikes
  <2> DEFINE First(q) == \A i \in 1..Len(q) : q[i].op = "adjustHp" => i = 1 /\ q[i] = a
  <2>3. left[1] = << >> \/ left[1] = <<a>>
    <3>1. left[1] = left[0] \/ left[1] = Append(left[0], all[1])
      BY <2>2
    <3> QED
      BY <1>3, <2>2, <3>1
  <2>4. First(left[1])
    BY <2>3
  <2>5. ASSUME NEW i \in 2..4, First(left[i - 1]) PROVE First(left[i])
    <3> DEFINE q == left[i - 1]
               e == all[i]
    <3>1. q \in Seq(S \ zero) /\ e.op # "adjustHp" /\ Len(q) \in Nat
      <4>1. i = 2 \/ i = 3 \/ i = 4
        OBVIOUS
      <4>2. e.op # "adjustHp"
        BY <1>2, <1>3, <4>1
      <4>3. q \in Seq(S \ zero)
        BY <2>2
      <4> QED
        BY <4>2, <4>3
    <3>2. left[i] = q \/ left[i] = Append(q, e)
      <4>1. i \in 1..4
        OBVIOUS
      <4> QED
        BY <2>2, <4>1
    <3>3. First(q)
      BY <2>5
    <3> HIDE DEF q, e
    <3>4. First(Append(q, e))
      <4> DEFINE u == Append(q, e)
      <4>1. /\ Len(u) = Len(q) + 1 /\ u[Len(q) + 1] = e
            /\ \A j \in 1..Len(q) : u[j] = q[j]
        BY <3>1
      <4>2. SUFFICES ASSUME NEW j \in 1..Len(u), u[j].op = "adjustHp"
                     PROVE  j = 1 /\ u[j] = a
        OBVIOUS
      <4> HIDE DEF u
      <4>3. j \in 1..Len(q)
        BY <3>1, <4>1, <4>2
      <4> QED
        BY <3>3, <4>1, <4>2, <4>3
    <3> HIDE DEF First
    <3> QED
      BY <3>2, <3>3, <3>4
  <2>6. First(left[4])
    <3> HIDE DEF First
    <3>1. First(left[2])
      BY <2>4, <2>5
    <3>2. First(left[3])
      BY <2>5, <3>1
    <3> QED
      BY <2>5, <3>2
  <2> QED
    BY <1>2, <2>2, <2>6
<1> HIDE DEF w
<1> QED
  BY <1>1, <1>6, <1>7, <1>8

(* The hit points a cost may take.                                           *)
Spared(p) == IF p.hp > 0 THEN p.hp - 1 ELSE 0

(* What is applied leaves a hit point of the purse; nothing that is owed is  *)
(* nothing applied.                                                          *)
LEMMA AppliedFacts ==
  ASSUME NEW p \in Purses, NEW total \in Costs
  PROVE  LET t == appliedTotals(total, p)
         IN  /\ t.hp \in Int /\ t.san \in Int /\ t.tension \in Int /\ t.progress \in Int
             /\ t.hp \in 0..Spared(p)
             /\ total = Free => t.hp = 0 /\ t.san = 0 /\ t.tension = 0 /\ t.progress = 0
<1> DEFINE less  == p.hp - 1
           gap   == p.maxTension - p.tension
           spare == Max({0, less})
           room  == Max({0, gap})
           hp    == Min({total.hp, spare})
           ten   == Min({total.tension, room})
           san   == Min({total.san, p.san})
           pro   == Min({total.progress, p.progress, 10})
           t     == appliedTotals(total, p)
<1>1. /\ p.hp \in Nat /\ p.san \in Nat /\ p.tension \in Nat /\ p.maxTension \in Nat
      /\ p.progress \in Nat /\ total.hp \in Nat /\ total.san \in Nat
      /\ total.tension \in Nat /\ total.progress \in Nat
  BY FullFacts DEF Purses, Costs
<1>2. t.hp = hp /\ t.tension = ten /\ t.san = san /\ t.progress = pro
  BY DEF appliedTotals
<1>3. less \in Int /\ gap \in Int /\ less = p.hp - 1
  BY <1>1
<1> HIDE DEF less, gap
<1>4. spare \in Int /\ spare >= 0 /\ spare = Spared(p)
  <2>1. spare \in Int /\ spare >= 0 /\ spare >= less /\ (spare = 0 \/ spare = less)
    BY <1>3, 0 \in Int, MaxOfTwo
  <2> HIDE DEF spare
  <2> QED
    BY <1>1, <1>3, <2>1 DEF Spared
<1>5. room \in Int /\ room >= 0
  BY <1>3, 0 \in Int, MaxOfTwo
<1> HIDE DEF spare, room
<1>6. hp = IF total.hp <= spare THEN total.hp ELSE spare
  BY <1>1, <1>4, Pairs
<1>7. ten = IF total.tension <= room THEN total.tension ELSE room
  BY <1>1, <1>5, Pairs
<1>8. san = IF total.san <= p.san THEN total.san ELSE p.san
  BY <1>1, Pairs
<1>9. pro \in Int /\ pro <= total.progress /\ pro \in {total.progress, p.progress, 10}
  <2>1. total.progress \in Int /\ p.progress \in Int /\ 10 \in Int
    BY <1>1
  <2> QED
    BY <1>1, <2>1, MinOfThree
<1> HIDE DEF hp, ten, san, pro, t
<1>10. /\ hp \in Int /\ ten \in Int /\ san \in Int /\ pro \in Int /\ hp \in 0..Spared(p)
  BY <1>1, <1>3, <1>4, <1>5, <1>6, <1>7, <1>8, <1>9
<1>11. ASSUME total = Free PROVE hp = 0 /\ ten = 0 /\ san = 0 /\ pro = 0
  <2>1. total.hp = 0 /\ total.tension = 0 /\ total.san = 0 /\ total.progress = 0
    BY <1>11 DEF Free
  <2>2. hp = 0 /\ ten = 0 /\ san = 0
    BY <1>1, <1>4, <1>5, <1>6, <1>7, <1>8, <2>1
  <2>3. pro = 0
    BY <1>1, <1>9, <2>1
  <2> QED
    BY <2>2, <2>3
<1> QED
  BY <1>2, <1>10, <1>11 DEF t

(* The effects of a check are changes with whole amounts.                    *)
LEMMA EffectsWhole ==
  ASSUME NEW record
  PROVE  Whole(authoredEffects(record))
<1> DEFINE effects == authoredEffects(record)
<1>1. CASE record.skipped \/ record.secret \/ record.check \notin DOMAIN Authored
  <2>1. effects = << >>
    BY <1>1 DEF authoredEffects
  <2> QED
    BY <2>1 DEF Whole, ToSet
<1>2. CASE ~ (record.skipped \/ record.secret \/ record.check \notin DOMAIN Authored)
  <2>1. effects \in {Authored[record.check].success, Authored[record.check].failure}
    BY <1>2 DEF authoredEffects
  <2> QED
    BY <1>2, <2>1, ScenarioAssumption DEF Whole
<1> QED
  BY <1>1, <1>2

(* What a continuation after a check commits: gentle changes of the keeper,  *)
(* the scenario's effects of the check, and then what its routes cost, which *)
(* leaves a hit point; a success costs nothing.                              *)
Prepares(all, p, record, before, costs) ==
  /\ all = before \o costs /\ Whole(before) /\ Whole(costs)
  /\ \A e \in ToSet(before) : Gentle(e) \/ e \in ToSet(authoredEffects(record))
  /\ \A i \in 1..Len(costs) : costs[i].op = "adjustHp" =>
        i = 1 /\ costs[i].by \in Int /\ -costs[i].by \in 0..Spared(p)
  /\ record.success => ToSet(costs) = {}

(* That is what the continuation prepares.                                   *)
LEMMA PreparedFacts ==
  ASSUME NEW p \in Purses, NEW changes, Whole(changes), NEW record
  PROVE  \E costs : Prepares(cocConsequencePrepareParsed(changes, record, p), p, record,
                              Governed(changes, record), costs)
<1> DEFINE effects == authoredEffects(record)
           doubles == {c \in ToSet(changes) :
                         effectIdentity(c) \in {effectIdentity(e) : e \in ToSet(effects)}}
           new     == Without(changes, doubles)
           harsh   == {c \in ToSet(new) : unauthorizedPunitive(c)}
           own     == Without(new, harsh)
           before  == own \o effects
           total   == authoredTotals(before, record)
           t       == appliedTotals(total, p)
           costs   == costEffects(t)
<1>1. /\ Governed(changes, record) = before
      /\ cocConsequencePrepareParsed(changes, record, p) = before \o costs
  BY DEF cocConsequencePrepareParsed, Governed, stripAuthoredDuplicates
<1>2. Whole(effects)
  BY EffectsWhole
<1> HIDE DEF effects
<1>3. Whole(new)
  BY WithoutWhole
<1> HIDE DEF new
<1>4. Whole(own) /\ \A e \in ToSet(own) : e \in ToSet(new) /\ e \notin harsh
  <2> HIDE DEF harsh
  <2> QED
    BY <1>3, WithoutWhole
<1> HIDE DEF own
<1>5. ASSUME NEW e \in ToSet(own) PROVE Gentle(e)
  <2>1. e.by \in Int /\ ~ unauthorizedPunitive(e)
    BY <1>4, <1>5 DEF Whole
  <2> QED
    BY <2>1 DEF unauthorizedPunitive, Gentle
<1>6. Whole(before) /\ ToSet(before) = ToSet(own) \cup ToSet(effects)
  BY <1>2, <1>4, ConcatWhole
<1> HIDE DEF before
<1>7. total \in Costs /\ (record.success => total = Free)
  <2>1. record.success => routeEntries(before, record) = {}
    BY DEF routeEntries
  <2> QED
    BY <1>6, <2>1, AuthoredTotalsFacts
<1> HIDE DEF total
<1>8. /\ t.hp \in Int /\ t.san \in Int /\ t.tension \in Int /\ t.progress \in Int
      /\ t.hp \in 0..Spared(p)
      /\ total = Free => t.hp = 0 /\ t.san = 0 /\ t.tension = 0 /\ t.progress = 0
  BY <1>7, AppliedFacts
<1> HIDE DEF t
<1>9. /\ Whole(costs)
      /\ \A i \in 1..Len(costs) : costs[i].op = "adjustHp" => i = 1 /\ costs[i].by = -t.hp
      /\ t.hp = 0 /\ t.san = 0 /\ t.tension = 0 /\ t.progress = 0 => ToSet(costs) = {}
  BY <1>8, CostEffectsFacts
<1> HIDE DEF costs
<1>10. record.success => ToSet(costs) = {}
  BY <1>7, <1>8, <1>9
<1>11. -t.hp \in Int /\ -(-t.hp) \in 0..Spared(p)
  BY <1>8
<1>12. \A i \in 1..Len(costs) : costs[i].op = "adjustHp" =>
           i = 1 /\ costs[i].by \in Int /\ -costs[i].by \in 0..Spared(p)
  BY <1>9, <1>11
<1>13. \A e \in ToSet(before) : Gentle(e) \/ e \in ToSet(authoredEffects(record))
  BY <1>5, <1>6 DEF effects
<1>14. Prepares(cocConsequencePrepareParsed(changes, record, p), p, record, before, costs)
  BY <1>1, <1>6, <1>9, <1>10, <1>12, <1>13 DEF Prepares
<1> QED
  BY <1>1, <1>14

(* Its amounts are whole.                                                    *)
LEMMA PreparedWhole ==
  ASSUME NEW p \in Purses, NEW changes, Whole(changes), NEW record
  PROVE  Whole(cocConsequencePrepareParsed(changes, record, p))
<1>1. PICK costs : Prepares(cocConsequencePrepareParsed(changes, record, p), p, record,
                            Governed(changes, record), costs)
  BY PreparedFacts
<1> QED
  BY <1>1, ConcatWhole DEF Prepares

-----------------------------------------------------------------------------
(* Losses *)

Settled == [loss : Losses, resolved : {TRUE}, registered : {TRUE}]

Minds(records) ==
  [base : 0..Full.san, cum : Nat, triggered : BOOLEAN, temporary : BOOLEAN,
   indefinite : BOOLEAN, record : records]

Agrees(s) ==
  /\ s.triggered <=> s.cum >= sanIndefiniteThreshold(s.base)
  /\ s.triggered => s.indefinite

(* The inductive invariant: between two steps a record is settled.           *)
Counted ==
  /\ purse \in Purses /\ sanity \in Minds({None} \cup Settled) /\ sanity.cum <= MaxLoss
  /\ Agrees(sanity)
  /\ toll \in [taken : Nat, floored : BOOLEAN] /\ EachLossOnce

(* A window counts at least one point.                                       *)
LEMMA ThresholdFacts ==
  ASSUME NEW base \in Nat
  PROVE  sanIndefiniteThreshold(base) \in Nat /\ sanIndefiniteThreshold(base) >= 1
<1> DEFINE fifth == base \div 5
<1>1. fifth \in Int /\ 1 \in Int
  OBVIOUS
<1> HIDE DEF fifth
<1>2. Max({1, fifth}) \in Int /\ Max({1, fifth}) >= 1
  BY <1>1, MaxOfTwo
<1>3. sanIndefiniteThreshold(base) = Max({1, fifth})
  BY DEF sanIndefiniteThreshold, fifth
<1> HIDE DEF fifth
<1> QED
  BY <1>2, <1>3

(* Registering a loss adds it to the window and keeps the window in step.    *)
LEMMA RegisterFacts ==
  ASSUME NEW records, NEW s \in Minds(records), Agrees(s), NEW loss \in Nat
  PROVE  LET r == registerSanLossInWindow(s, loss)
         IN  r \in Minds(records) /\ Agrees(r) /\ r.cum = s.cum + loss /\ r.record = s.record
<1> DEFINE r       == registerSanLossInWindow(s, loss)
           bound   == sanIndefiniteThreshold(s.base)
           crosses == ~s.triggered /\ s.cum + loss >= bound
           more    == s.cum + loss
           trig    == s.triggered \/ crosses
           ind     == s.indefinite \/ crosses
<1>1. s.base \in 0..Full.san /\ s.base \in Nat /\ s.cum \in Nat /\ s.triggered \in BOOLEAN
      /\ s.indefinite \in BOOLEAN
  BY FullFacts DEF Minds
<1>2. bound \in Nat
  BY <1>1, ThresholdFacts
<1>3. CASE loss = 0
  <2>1. r = s
    BY <1>3 DEF registerSanLossInWindow
  <2> QED
    BY <1>1, <1>3, <2>1
<1>4. CASE loss # 0
  <2>1. r = [s EXCEPT !.cum = more, !.triggered = trig, !.indefinite = ind]
    BY <1>4 DEF registerSanLossInWindow
  <2>2. more \in Nat /\ trig \in BOOLEAN /\ ind \in BOOLEAN
    BY <1>1
  <2>3. (trig <=> more >= bound) /\ (trig => ind)
    BY <1>1, <1>2 DEF Agrees
  <2>4. more = s.cum + loss
    OBVIOUS
  <2> HIDE DEF more, trig, ind, r
  <2>5. r \in Minds(records)
    BY <2>1, <2>2 DEF Minds
  <2>6. /\ r.cum = more /\ r.triggered = trig /\ r.indefinite = ind /\ r.base = s.base
        /\ r.record = s.record
    BY <2>1 DEF Minds
  <2>7. Agrees(r)
    BY <2>3, <2>6 DEF Agrees
  <2> QED
    BY <2>4, <2>5, <2>6, <2>7 DEF r
<1> QED
  BY <1>3, <1>4

(* A loss that was rolled is settled and counted at once.                    *)
LEMMA EnsureFacts ==
  ASSUME NEW s \in Minds({None} \cup Settled), Agrees(s), NEW loss \in Losses,
         NEW shocked \in BOOLEAN
  PROVE  LET r == ensureSanLossResolution(
                    [s EXCEPT !.record = [loss |-> loss, resolved |-> FALSE, registered |-> FALSE]],
                    shocked)
         IN  r \in Minds(Settled) /\ Agrees(r) /\ r.cum = s.cum + loss
<1> DEFINE new  == [loss |-> loss, resolved |-> FALSE, registered |-> FALSE]
           open == [s EXCEPT !.record = new]
           took == [loss |-> loss, resolved |-> TRUE, registered |-> FALSE]
           temp == s.temporary \/ (loss >= Shock /\ shocked)
           hit  == [open EXCEPT !.record = took, !.temporary = temp]
           reg  == registerSanLossInWindow(hit, loss)
           done == [loss |-> loss, resolved |-> TRUE, registered |-> TRUE]
           r    == [reg EXCEPT !.record = done]
<1>1. loss \in Nat
  BY MindAssumption
<1>2. /\ open.record = new /\ open.temporary = s.temporary /\ new.loss = loss
      /\ ~ new.resolved
  BY DEF Minds
<1>3. open \in Minds({new})
  BY DEF Minds
<1>4. [open EXCEPT !.record.resolved = TRUE,
                   !.temporary = open.temporary \/ (open.record.loss >= Shock /\ shocked)] = hit
  <2>1. [new EXCEPT !.resolved = TRUE] = took
    <3>1. new \in [loss : {loss}, resolved : {FALSE}, registered : {FALSE}]
      OBVIOUS
    <3> HIDE DEF new
    <3> DEFINE n == [new EXCEPT !.resolved = TRUE]
    <3>2. n \in [loss : {loss}, resolved : {TRUE}, registered : {FALSE}]
      BY <3>1
    <3> HIDE DEF n
    <3>3. n = took
      BY <3>2
    <3> QED
      BY <3>3 DEF n
  <2> HIDE DEF new, took, open
  <2> QED
    BY <1>2, <2>1
<1>5. hit \in Minds({took}) /\ hit.record = took /\ hit.cum = s.cum /\ hit.base = s.base
      /\ hit.triggered = s.triggered /\ hit.indefinite = s.indefinite
  <2>1. temp \in BOOLEAN
    BY DEF Minds
  <2> HIDE DEF temp
  <2> QED
    BY <2>1 DEF Minds
<1>6. Agrees(hit)
  BY <1>5 DEF Agrees
<1>7. took.loss = loss /\ ~ took.registered
  OBVIOUS
<1>8. ensureSanLossResolution(open, shocked) =
        [registerSanLossInWindow(hit, hit.record.loss) EXCEPT !.record.registered = TRUE]
  <2>1. ~ open.record.resolved /\ ~ hit.record.registered
    BY <1>2, <1>5, <1>7
  <2> HIDE DEF new, took, open, hit
  <2> DEFINE first == IF open.record.resolved THEN open
                      ELSE [open EXCEPT !.record.resolved = TRUE,
                                        !.temporary = open.temporary
                                             \/ (open.record.loss >= Shock /\ shocked)]
  <2>2. first = hit
    BY <1>4, <2>1
  <2>3. ensureSanLossResolution(open, shocked) =
          IF first.record.registered THEN first
          ELSE [registerSanLossInWindow(first, first.record.loss) EXCEPT !.record.registered = TRUE]
    BY DEF ensureSanLossResolution
  <2> HIDE DEF first
  <2> QED
    BY <2>1, <2>2, <2>3
<1> HIDE DEF hit, open
<1>9. reg \in Minds({took}) /\ Agrees(reg) /\ reg.cum = hit.cum + loss /\ reg.record = took
  BY <1>1, <1>5, <1>6, RegisterFacts
<1> HIDE DEF reg
<1>10. [took EXCEPT !.registered = TRUE] = done /\ done \in Settled
  <2>1. took \in [loss : {loss}, resolved : {TRUE}, registered : {FALSE}]
    OBVIOUS
  <2> HIDE DEF took
  <2> DEFINE n == [took EXCEPT !.registered = TRUE]
  <2>2. n \in [loss : {loss}, resolved : {TRUE}, registered : {TRUE}]
    BY <2>1
  <2> HIDE DEF n
  <2>3. n = done /\ done \in Settled
    BY <2>2 DEF Settled
  <2> QED
    BY <2>3 DEF n
<1> HIDE DEF took
<1>11. ensureSanLossResolution(open, shocked) = r
  <2> HIDE DEF done
  <2> QED
    BY <1>5, <1>7, <1>8, <1>9, <1>10 DEF reg
<1>12. r \in Minds(Settled) /\ r.cum = reg.cum /\ r.base = reg.base
       /\ r.triggered = reg.triggered /\ r.indefinite = reg.indefinite
  <2> HIDE DEF done
  <2> QED
    BY <1>9, <1>10 DEF Minds
<1>13. Agrees(r)
  BY <1>9, <1>12 DEF Agrees
<1> QED
  BY <1>5, <1>9, <1>11, <1>12, <1>13 DEF open

(* The campaign starts with nothing lost.                                    *)
LEMMA CountedInit == Init => Counted
<1> SUFFICES ASSUME Init PROVE Counted
  OBVIOUS
<1>1. purse = Full /\ sanity = [base |-> Full.san, cum |-> 0, triggered |-> FALSE,
                 temporary |-> FALSE, indefinite |-> FALSE, record |-> None]
      /\ toll = [taken |-> 0, floored |-> FALSE]
  BY DEF Init
<1>2. sanity \in Minds({None} \cup Settled)
  <2>1. Full.san \in 0..Full.san
    BY FullFacts
  <2> QED
    BY <1>1, <2>1 DEF Minds
<1>3. Agrees(sanity)
  <2>1. sanIndefiniteThreshold(Full.san) >= 1 /\ sanIndefiniteThreshold(Full.san) \in Nat
    BY FullFacts, ThresholdFacts
  <2>2. sanity.cum = 0 /\ sanity.base = Full.san /\ ~ sanity.triggered
    BY <1>1
  <2> QED
    BY <2>1, <2>2 DEF Agrees
<1>4. sanity.cum <= MaxLoss /\ toll \in [taken : Nat, floored : BOOLEAN] /\ EachLossOnce
  BY <1>1, MindAssumption DEF EachLossOnce
<1> QED
  BY <1>1, <1>2, <1>3, <1>4, FullFacts DEF Counted

(* The history agrees with the window when it counts what the purse lost.    *)
LEMMA TakesCounts ==
  ASSUME Counted, Takes, purse' \in Purses, NEW loss \in Nat,
         sanity'.cum = sanity.cum + loss,
         purse.san >= purse'.san => purse.san - purse'.san <= loss,
         purse.san >= purse'.san /\ purse'.san # 0 => purse.san - purse'.san = loss,
         purse.san < purse'.san => loss = 0
  PROVE  toll' \in [taken : Nat, floored : BOOLEAN] /\ EachLossOnce'
<1> DEFINE less  == purse.san - purse'.san
           spent == Max({0, less})
           taken == toll.taken + spent
           floor == toll.floored \/ purse'.san = 0
<1>1. /\ purse.san \in Nat /\ purse'.san \in Nat /\ sanity.cum \in Nat
      /\ toll.taken \in Nat /\ toll.floored \in BOOLEAN
  BY FullFacts DEF Counted, Purses, Minds
<1>2. less \in Int
  BY <1>1
<1>3. spent = IF 0 >= less THEN 0 ELSE less
  <2> HIDE DEF less
  <2> QED
    BY <1>2, 0 \in Int, Pairs
<1>4. toll' = [taken |-> taken, floored |-> floor]
  BY DEF Takes
<1> HIDE DEF spent
<1>5. taken \in Nat /\ floor \in BOOLEAN
  BY <1>1, <1>3
<1>6. toll.taken <= sanity.cum /\ (~toll.floored => toll.taken = sanity.cum)
  BY DEF Counted, EachLossOnce
<1>7. taken <= sanity'.cum /\ (~floor => taken = sanity'.cum)
  BY <1>1, <1>3, <1>6
<1> HIDE DEF taken, floor
<1>8. toll'.taken = taken /\ toll'.floored = floor
  BY <1>4
<1> QED
  BY <1>4, <1>5, <1>7, <1>8 DEF EachLossOnce

(* A step that ends in a mind of the right shape within the bound.           *)
LEMMA BecomesCounted ==
  ASSUME NEW p \in Purses, NEW s \in Minds({None} \cup Settled), Agrees(s), Becomes(p, s),
         toll' \in [taken : Nat, floored : BOOLEAN], EachLossOnce'
  PROVE  Counted'
BY DEF Becomes, Counted, Agrees

(* A sanity check.                                                           *)
LEMMA RollSanCounted ==
  ASSUME Counted, rollSan
  PROVE  Counted'
<1>1. PICK loss \in Losses, shocked \in BOOLEAN :
          Becomes([purse EXCEPT !.san = Max({0, @ - loss})],
                  ensureSanLossResolution(
                      [sanity EXCEPT !.record =
                          [loss |-> loss, resolved |-> FALSE, registered |-> FALSE]],
                      shocked))
  BY DEF rollSan
<1> DEFINE left == purse.san - loss
           san  == Max({0, left})
           p    == [purse EXCEPT !.san = san]
           s    == ensureSanLossResolution(
                      [sanity EXCEPT !.record =
                          [loss |-> loss, resolved |-> FALSE, registered |-> FALSE]],
                      shocked)
<1>2. loss \in Nat /\ purse \in Purses /\ purse.san \in 0..Full.san /\ Full.san \in Nat
  BY MindAssumption, FullFacts DEF Counted, Purses
<1>3. Becomes(p, s)
  BY <1>1
<1>4. left \in Int
  BY <1>2
<1>5. san = IF 0 >= left THEN 0 ELSE left
  <2> HIDE DEF left
  <2> QED
    BY <1>4, 0 \in Int, Pairs
<1> HIDE DEF san
<1>6. san \in 0..Full.san /\ purse.san >= san /\ purse.san - san <= loss
      /\ (san # 0 => purse.san - san = loss)
  BY <1>2, <1>5
<1>7. p \in Purses /\ p.san = san
  BY <1>2, <1>6 DEF Purses
<1>8. sanity \in Minds({None} \cup Settled) /\ Agrees(sanity)
  BY DEF Counted
<1>9. s \in Minds(Settled) /\ Agrees(s) /\ s.cum = sanity.cum + loss
  BY <1>8, EnsureFacts
<1> HIDE DEF p, s
<1>10. purse' = p /\ sanity' = s
  BY <1>3 DEF Becomes
<1>11. s \in Minds({None} \cup Settled)
  BY <1>9 DEF Minds
<1>12. Takes
  BY DEF rollSan
<1>13. toll' \in [taken : Nat, floored : BOOLEAN] /\ EachLossOnce'
  <2>1. /\ purse' \in Purses /\ sanity'.cum = sanity.cum + loss
        /\ (purse.san >= purse'.san => purse.san - purse'.san <= loss)
        /\ (purse.san >= purse'.san /\ purse'.san # 0 => purse.san - purse'.san = loss)
        /\ (purse.san < purse'.san => loss = 0)
    <3>1. purse'.san = san
      BY <1>7, <1>10
    <3>2. san \in Nat /\ purse.san \in Nat
      BY <1>2, <1>6
    <3> QED
      BY <1>6, <1>7, <1>9, <1>10, <3>1, <3>2
  <2> QED
    BY <1>2, <1>12, <2>1, TakesCounts
<1> QED
  BY <1>3, <1>7, <1>9, <1>11, <1>13, BecomesCounted

(* What a commit takes is registered. *)
LEMMA CommitCounted ==
  ASSUME Counted, Takes, NEW changes, Whole(changes),
         NEW s \in Minds({None} \cup Settled), Agrees(s), s.cum = sanity.cum,
         commitSanLoss(changes, s)
  PROVE  Counted'
<1> DEFINE p    == prepareStateChanges(purse, changes)
           less == purse.san - p.san
           loss == Max({0, less})
           r    == registerSanLossInWindow(s, loss)
<1>1. purse \in Purses
  BY DEF Counted
<1>2. p \in Purses
  BY <1>1, PrepareFacts
<1>3. Becomes(p, r)
  BY DEF commitSanLoss
<1> HIDE DEF p
<1>4. p.san \in Nat /\ purse.san \in Nat /\ less \in Int
  BY <1>1, <1>2, FullFacts DEF Purses
<1>5. loss = IF 0 >= less THEN 0 ELSE less
  <2> HIDE DEF less
  <2> QED
    BY <1>4, 0 \in Int, Pairs
<1> HIDE DEF loss
<1>6. loss \in Nat
  BY <1>4, <1>5
<1>7. r \in Minds({None} \cup Settled) /\ Agrees(r) /\ r.cum = sanity.cum + loss
  BY <1>6, RegisterFacts
<1> HIDE DEF r
<1>8. purse' = p /\ sanity' = r
  BY <1>3 DEF Becomes
<1>9. /\ purse' \in Purses /\ sanity'.cum = sanity.cum + loss
      /\ (purse.san >= purse'.san => purse.san - purse'.san <= loss)
      /\ (purse.san >= purse'.san /\ purse'.san # 0 => purse.san - purse'.san = loss)
      /\ (purse.san < purse'.san => loss = 0)
  BY <1>2, <1>4, <1>5, <1>7, <1>8
<1>10. toll' \in [taken : Nat, floored : BOOLEAN] /\ EachLossOnce'
  BY <1>6, <1>9, TakesCounts
<1> QED
  BY <1>2, <1>3, <1>7, <1>10, BecomesCounted

(* A retry finds the record settled. *)
LEMMA RetryCounted ==
  ASSUME Counted, retryContinuation
  PROVE  Counted'
<1>1. PICK shocked \in BOOLEAN : Becomes(purse, ensureSanLossResolution(sanity, shocked))
  BY DEF retryContinuation
<1>2. sanity.record.resolved /\ sanity.record.registered
  BY DEF retryContinuation, Counted, Minds, Settled
<1>3. ensureSanLossResolution(sanity, shocked) = sanity
  BY <1>2 DEF ensureSanLossResolution
<1>4. purse' = purse /\ sanity' = sanity /\ Becomes(purse, sanity)
  BY <1>1, <1>3 DEF Becomes
<1>5. purse.san \in Nat /\ sanity.cum \in Nat
  BY FullFacts DEF Counted, Purses, Minds
<1>6. /\ purse' \in Purses /\ sanity'.cum = sanity.cum + 0
      /\ (purse.san >= purse'.san => purse.san - purse'.san <= 0)
      /\ (purse.san >= purse'.san /\ purse'.san # 0 => purse.san - purse'.san = 0)
      /\ (purse.san < purse'.san => 0 = 0)
  BY <1>4, <1>5 DEF Counted
<1>7. toll' \in [taken : Nat, floored : BOOLEAN] /\ EachLossOnce'
  <2>1. Takes /\ 0 \in Nat
    BY DEF retryContinuation
  <2> QED
    BY <1>6, <2>1, TakesCounts
<1> QED
  BY <1>4, <1>7, BecomesCounted DEF Counted

(* A mind without its record is as sound.                                    *)
LEMMA Forgetting ==
  ASSUME Counted
  PROVE  LET s == [sanity EXCEPT !.record = None]
         IN  s \in Minds({None} \cup Settled) /\ Agrees(s) /\ s.cum = sanity.cum
BY DEF Counted, Minds, Agrees

(* Giving a continuation up.                                                 *)
LEMMA AbandonCounted ==
  ASSUME Counted, abandon
  PROVE  Counted'
<1> DEFINE s == [sanity EXCEPT !.record = None]
<1>1. Becomes(purse, s) /\ toll' = toll
  BY DEF abandon
<1>2. s \in Minds({None} \cup Settled) /\ Agrees(s) /\ s.cum = sanity.cum
  BY Forgetting
<1> HIDE DEF s
<1>3. toll' \in [taken : Nat, floored : BOOLEAN] /\ EachLossOnce'
  BY <1>1, <1>2 DEF Counted, EachLossOnce, Becomes
<1> QED
  BY <1>1, <1>2, <1>3, BecomesCounted DEF Counted

(* A secret check is in no window.                                           *)
LEMMA SecretCheckCounted ==
  ASSUME Counted, secretCheck
  PROVE  Counted'
<1>1. PICK loss \in Losses :
          Becomes(prepareStateChanges(purse, <<Change("adjustSan", None, -loss)>>), sanity)
  BY DEF secretCheck
<1> DEFINE c == Change("adjustSan", None, -loss)
           p == prepareStateChanges(purse, <<c>>)
<1>2. Whole(<<c>>)
  <2>1. c.by \in Int
    BY MindAssumption DEF Change
  <2> HIDE DEF c
  <2> DEFINE S == {c}
             w == <<c>>
  <2>2. w \in Seq(S) /\ \A e \in S : e.by \in Int
    BY <2>1
  <2> HIDE DEF S, w
  <2>3. Whole(w)
    BY <2>2, WholeOf
  <2> QED
    BY <2>3 DEF w
<1> HIDE DEF c
<1>3. p \in Purses
  BY <1>2, PrepareFacts DEF Counted
<1>4. Becomes(p, sanity)
  BY <1>1 DEF c
<1> HIDE DEF p
<1>5. toll' \in [taken : Nat, floored : BOOLEAN] /\ EachLossOnce'
  <2> DEFINE floor == toll.floored \/ purse'.san = 0
  <2>1. toll' = [toll EXCEPT !.floored = floor] /\ floor \in BOOLEAN
    BY DEF secretCheck, Counted
  <2>2. toll'.taken = toll.taken /\ toll'.floored = floor
        /\ toll' \in [taken : Nat, floored : BOOLEAN] /\ (toll.floored => floor)
    <3>1. toll.floored => floor
      OBVIOUS
    <3> HIDE DEF floor
    <3> QED
      BY <2>1, <3>1 DEF Counted
  <2>3. sanity' = sanity
    BY <1>4 DEF Becomes
  <2> HIDE DEF floor
  <2> QED
    BY <2>2, <2>3 DEF Counted, EachLossOnce
<1> QED
  BY <1>3, <1>4, <1>5, BecomesCounted DEF Counted

(* A new chapter starts a new window.                                        *)
LEMMA EnterChapterCounted ==
  ASSUME Counted, enterChapter
  PROVE  Counted'
<1> DEFINE s == beginSanLossWindow(sanity, purse.san)
<1>1. Becomes(purse, s) /\ toll' = [taken |-> 0, floored |-> purse.san = 0]
  BY DEF enterChapter
<1>2. purse.san \in 0..Full.san /\ purse.san \in Nat
  BY FullFacts DEF Counted, Purses
<1>3. /\ s \in Minds({None} \cup Settled) /\ s.cum = 0 /\ s.base = purse.san /\ ~ s.triggered
  BY <1>2 DEF Counted, Minds, beginSanLossWindow
<1> HIDE DEF s
<1>4. Agrees(s)
  <2>1. sanIndefiniteThreshold(purse.san) >= 1 /\ sanIndefiniteThreshold(purse.san) \in Nat
    BY <1>2, ThresholdFacts
  <2> QED
    BY <1>3, <2>1 DEF Agrees
<1>5. toll' \in [taken : Nat, floored : BOOLEAN] /\ EachLossOnce'
  <2>1. sanity' = s
    BY <1>1 DEF Becomes
  <2> QED
    BY <1>1, <1>3, <2>1 DEF EachLossOnce
<1> QED
  BY <1>1, <1>3, <1>4, <1>5, BecomesCounted DEF Counted

(* Every step. *)
LEMMA CountedStep == Counted /\ [Next]_mindVars => Counted'
<1> SUFFICES ASSUME Counted, [Next]_mindVars PROVE Counted'
  OBVIOUS
<1>1. CASE UNCHANGED mindVars
  BY <1>1 DEF mindVars, Counted, Agrees, EachLossOnce
<1>2. CASE rollSan
  BY <1>2, RollSanCounted
<1>3. CASE retryContinuation
  BY <1>3, RetryCounted
<1>4. CASE plainReply
  <2>1. PICK changes \in Replies : commitSanLoss(changes, sanity)
    BY <1>4 DEF plainReply
  <2>2. Takes /\ Whole(changes)
    BY <1>4, MindAssumption DEF plainReply, Whole
  <2>3. sanity \in Minds({None} \cup Settled) /\ Agrees(sanity)
    BY DEF Counted
  <2> QED
    BY <2>1, <2>2, <2>3, CommitCounted
<1>5. CASE checkReply
  <2>1. PICK changes \in Replies, record \in Records :
          commitSanLoss(cocConsequencePrepareParsed(changes, record, purse),
                        [sanity EXCEPT !.record = None])
    BY <1>5 DEF checkReply
  <2> DEFINE all == cocConsequencePrepareParsed(changes, record, purse)
             s   == [sanity EXCEPT !.record = None]
  <2>2. Takes /\ Whole(changes) /\ purse \in Purses
    BY <1>5, MindAssumption DEF checkReply, Whole, Counted
  <2>3. Whole(all)
    BY <2>2, PreparedWhole
  <2>4. s \in Minds({None} \cup Settled) /\ Agrees(s) /\ s.cum = sanity.cum
    BY Forgetting
  <2>5. commitSanLoss(all, s)
    BY <2>1
  <2> HIDE DEF all, s
  <2> QED
    BY <2>2, <2>3, <2>4, <2>5, CommitCounted
<1>6. CASE abandon
  BY <1>6, AbandonCounted
<1>7. CASE secretCheck
  BY <1>7, SecretCheckCounted
<1>8. CASE enterChapter
  BY <1>8, EnterChapterCounted
<1> QED
  BY <1>1, <1>2, <1>3, <1>4, <1>5, <1>6, <1>7, <1>8 DEF Next

(* The inductive invariant gives the property.                               *)
LEMMA CountedCounts == Counted => LossesCounted
<1> SUFFICES ASSUME Counted PROVE LossesCounted
  OBVIOUS
<1>1. MindTypeOK
  <2>1. purse \in Purses
    BY DEF Counted
  <2>2. /\ sanity.base \in 0..Full.san /\ sanity.cum \in 0..MaxLoss
        /\ {sanity.triggered, sanity.temporary, sanity.indefinite} \subseteq BOOLEAN
    BY MindAssumption DEF Counted, Minds
  <2> QED
    BY <2>1, <2>2 DEF MindTypeOK
<1>2. WindowAgrees
  BY DEF Counted, Agrees, WindowAgrees
<1> QED
  BY <1>1, <1>2 DEF LossesCounted, Counted

(* Every loss of sanity is counted once in its window, however a             *)
(* continuation is retried or given up, and the window triggers exactly when *)
(* a fifth is lost (src/san-loss-window.js:39-46, 66-70).                    *)
THEOREM EveryLossIsCounted == Spec => []LossesCounted
BY CountedInit, CountedStep, CountedCounts, PTL DEF Spec

-----------------------------------------------------------------------------
(* What a check costs *)

(* What a change does to the hit points, and a gentle one to all.            *)
LEMMA ChangeFacts ==
  ASSUME NEW q \in Purses, NEW c, c.by \in Int
  PROVE  /\ (c.op = "adjustHp" => c.by >= 0) => applyChange(q, c).hp >= q.hp
         /\ c.op = "adjustHp" /\ c.by <= 0 => applyChange(q, c).hp >= q.hp + c.by
         /\ c.op = "adjustHp" /\ q.hp > 0 /\ q.hp + c.by > 0 => applyChange(q, c).hp > 0
         /\ Gentle(c) => NoWorse(applyChange(q, c), q)
<1> DEFINE h   == q.hp + c.by
           g   == q.progress + c.by
           hp  == Within(h, 0, Full.hp)
           pro == Within(g, 0, 100)
           r   == applyChange(q, c)
<1>1. /\ q = [hp |-> q.hp, san |-> q.san, tension |-> q.tension,
              maxTension |-> q.maxTension, progress |-> q.progress]
      /\ q.hp \in 0..Full.hp /\ q.progress \in 0..100 /\ Full.hp \in Nat
      /\ q.san \in Nat /\ q.tension \in Nat
  BY FullFacts DEF Purses
<1>2. /\ h \in Int /\ g \in Int /\ h = q.hp + c.by /\ g = q.progress + c.by
      /\ 0 \in Int /\ Full.hp \in Int /\ 0 <= Full.hp /\ 100 \in Int /\ 0 <= 100
  BY <1>1
<1>3. r = CASE c.op = "adjustHp"       -> [q EXCEPT !.hp = hp]
            [] c.op = "adjustSan"      -> [q EXCEPT !.san = Within(q.san + c.by, 0, Full.san)]
            [] c.op = "adjustTension"  -> [q EXCEPT !.tension = Within(q.tension + c.by, 1, q.maxTension)]
            [] c.op = "adjustProgress" -> [q EXCEPT !.progress = pro]
            [] OTHER                   -> q
  BY DEF applyChange
<1> HIDE DEF h, g
<1>4. hp \in 0..Full.hp /\ \A x \in 0..Full.hp : x <= h => x <= hp
  BY <1>2, WithinFacts
<1>5. pro \in 0..100 /\ \A x \in 0..100 : x <= g => x <= pro
  BY <1>2, WithinFacts
<1> HIDE DEF hp, pro, r
<1>6. r.hp = (IF c.op = "adjustHp" THEN hp ELSE q.hp)
  BY <1>1, <1>3
<1>7. (c.op = "adjustHp" => c.by >= 0) => r.hp >= q.hp
  BY <1>1, <1>2, <1>4, <1>6
<1>8. c.op = "adjustHp" /\ q.hp > 0 /\ q.hp + c.by > 0 => r.hp > 0
  <2> SUFFICES ASSUME c.op = "adjustHp", q.hp > 0, q.hp + c.by > 0 PROVE hp > 0
    BY <1>6
  <2>1. 1 \in 0..Full.hp /\ 1 <= h
    BY <1>1, <1>2
  <2> QED
    BY <1>4, <2>1
<1>9. c.op = "adjustHp" /\ c.by <= 0 => r.hp >= h
  <2> SUFFICES ASSUME c.op = "adjustHp", c.by <= 0 PROVE hp >= h
    BY <1>6
  <2>1. CASE h >= 0
    <3>1. h \in 0..Full.hp
      BY <1>1, <1>2, <2>1
    <3> QED
      BY <1>2, <1>4, <3>1
  <2>2. CASE ~ (h >= 0)
    BY <1>1, <1>2, <1>4, <2>2
  <2> QED
    BY <2>1, <2>2
<1>10. Gentle(c) => NoWorse(r, q)
  <2> SUFFICES ASSUME Gentle(c) PROVE NoWorse(r, q)
    OBVIOUS
  <2>1. c.op # "adjustSan" /\ c.op # "adjustTension"
    BY DEF Gentle
  <2>2. r.hp >= q.hp
    BY <1>7 DEF Gentle
  <2>3. r.san = q.san /\ r.tension = q.tension
    BY <1>1, <1>3, <2>1
  <2>4. r.progress >= q.progress
    <3>1. CASE c.op = "adjustProgress"
      <4>1. r = [q EXCEPT !.progress = pro]
        BY <1>3, <3>1
      <4>2. r.progress = pro
        BY <1>1, <4>1
      <4>3. q.progress <= g
        BY <1>1, <1>2, <3>1 DEF Gentle
      <4> QED
        BY <1>1, <1>5, <4>2, <4>3
    <3>2. CASE c.op # "adjustProgress"
      BY <1>1, <1>3, <2>1, <3>2
    <3> QED
      BY <3>1, <3>2
  <2> QED
    BY <1>1, <2>2, <2>3, <2>4 DEF NoWorse
<1> QED
  BY <1>2, <1>7, <1>8, <1>10, <1>9 DEF r

(* A purse holds numbers.                                                    *)
LEMMA PurseNumbers ==
  ASSUME NEW q \in Purses
  PROVE  q.hp \in Int /\ q.san \in Int /\ q.tension \in Int /\ q.progress \in Int
<1>1. /\ q.hp \in 0..Full.hp /\ q.san \in 0..Full.san
      /\ q.tension \in 1..Full.maxTension /\ q.progress \in 0..100
  BY DEF Purses
<1> QED
  BY <1>1, FullFacts

(* Whoever has hit points left keeps one.                                    *)
LEMMA HitPointLeft ==
  ASSUME NEW p \in Purses, p.hp > 0,
         NEW before, Whole(before), NEW costs, Whole(costs),
         \A e \in ToSet(before) : e.op = "adjustHp" => e.by >= 0,
         \A i \in 1..Len(costs) : costs[i].op = "adjustHp" =>
            i = 1 /\ (p.hp > 0 => p.hp + costs[i].by > 0)
  PROVE  prepareStateChanges(p, before \o costs).hp > 0
<1> DEFINE n   == Len(before)
           m   == Len(costs)
           all == before \o costs
<1>1. Whole(all)
  BY ConcatWhole
<1>2. /\ n \in Nat /\ m \in Nat /\ Len(all) = n + m
      /\ \A i \in 1..n : all[i] = before[i] /\ before[i] \in ToSet(before)
      /\ \A i \in (n + 1)..(n + m) : all[i] = costs[i - n] /\ i - n \in 1..m
  <2> DEFINE S == ToSet(before) \cup ToSet(costs)
  <2>1. before \in Seq(S) /\ costs \in Seq(S)
    BY DEF Whole
  <2>2. \A i \in 1..n : before[i] \in ToSet(before)
    BY Elements DEF Whole
  <2> HIDE DEF S
  <2> QED
    BY <2>1, <2>2
<1>3. PICK after : Makes(after, p, all)
  <2> HIDE DEF all
  <2> QED
    BY <1>1, PrepareSteps
<1> USE DEF Makes
<1>4. \A i \in 1..(n + m) : all[i].by \in Int
  <2> HIDE DEF all
  <2> QED
    BY <1>1, <1>2, Elements DEF Whole
<1>5. p.hp \in Nat /\ \A q \in Purses : q.hp \in Nat
  BY FullFacts DEF Purses
<1> HIDE DEF n, m, all
<1>6. \A i \in 1..(n + m) : after[i - 1] \in Purses /\ i \in 0..(n + m)
  BY <1>2, <1>3
<1> DEFINE P == {i \in 0..(n + m) : /\ i <= n => after[i].hp >= p.hp
                                    /\ after[i].hp > 0}
<1>7. 0 \in P
  BY <1>2, <1>3, <1>5
<1>8. ASSUME NEW i \in 1..(n + m), i - 1 \in P PROVE i \in P
  <2> DEFINE q == after[i - 1]
             c == all[i]
  <2>1. /\ q \in Purses /\ c.by \in Int /\ after[i] = applyChange(q, c)
        /\ (i - 1 <= n => q.hp >= p.hp) /\ q.hp > 0 /\ q.hp \in Nat
    BY <1>2, <1>3, <1>4, <1>5, <1>6, <1>8
  <2>2. CASE i <= n
    <3>1. c.op = "adjustHp" => c.by >= 0
      <4>1. i \in 1..n
        BY <1>2, <2>2
      <4>2. c \in ToSet(before)
        BY <1>2, <4>1
      <4> HIDE DEF c
      <4> QED
        BY <4>2
    <3> HIDE DEF q, c
    <3> DEFINE r == applyChange(q, c)
    <3>2. r.hp >= q.hp
      BY <2>1, <3>1, ChangeFacts
    <3>3. after[i].hp >= q.hp /\ after[i].hp \in Nat
      BY <1>2, <1>3, <1>5, <1>6, <2>1, <3>2
    <3> QED
      BY <1>2, <1>5, <1>6, <2>1, <2>2, <3>3
  <2>3. CASE i > n
    <3> DEFINE r == applyChange(q, c)
    <3>1. CASE c.op = "adjustHp"
      <4>1. i - n = 1 /\ p.hp + c.by > 0
        <5>1. i \in (n + 1)..(n + m)
          BY <1>2, <2>3
        <5>2. c = costs[i - n] /\ i - n \in 1..m
          BY <1>2, <5>1
        <5>3. costs[i - n].op = "adjustHp"
          BY <3>1, <5>2
        <5> HIDE DEF c
        <5> QED
          BY <5>2, <5>3 DEF m
      <4> HIDE DEF q, c
      <4>2. q.hp >= p.hp
        BY <1>2, <2>1, <4>1
      <4>3. q.hp + c.by > 0
        BY <1>5, <2>1, <4>1, <4>2
      <4>4. r.hp > 0
        BY <2>1, <3>1, <4>3, ChangeFacts
      <4> QED
        BY <1>2, <1>6, <2>1, <2>3, <4>4
    <3>2. CASE c.op # "adjustHp"
      <4> HIDE DEF q, c
      <4>1. r.hp >= q.hp
        BY <2>1, <3>2, ChangeFacts
      <4>2. after[i].hp \in Nat
        BY <1>2, <1>3, <1>5, <1>6
      <4> QED
        BY <1>2, <1>6, <2>1, <2>3, <4>1, <4>2
    <3> QED
      BY <3>1, <3>2
  <2> QED
    BY <1>2, <2>2, <2>3
<1>9. 0..(n + m) \subseteq P
  <2>1. n + m \in Nat
    BY <1>2
  <2> HIDE DEF P
  <2> QED
    BY <1>7, <1>8, <2>1, UpTo
<1>10. n + m \in P
  BY <1>2, <1>9
<1> QED
  BY <1>2, <1>3, <1>10 DEF all

(* A cost takes no more hit points than its one change to them.              *)
LEMMA CostsTake ==
  ASSUME NEW p \in Purses, NEW costs, Whole(costs), NEW cap \in Nat,
         \A i \in 1..Len(costs) : costs[i].op = "adjustHp" =>
            i = 1 /\ costs[i].by \in Int /\ -costs[i].by \in 0..cap
  PROVE  p.hp - prepareStateChanges(p, costs).hp <= cap
<1> DEFINE n == Len(costs)
<1>1. n \in Nat /\ \A i \in 1..n : costs[i].by \in Int
  BY Elements DEF Whole
<1>2. PICK after : Makes(after, p, costs)
  BY PrepareSteps
<1> USE DEF Makes
<1>3. \A q \in Purses : q.hp \in Int
  BY PurseNumbers
<1> HIDE DEF n
<1> DEFINE P == {i \in 0..n : p.hp - after[i].hp <= IF i = 0 THEN 0 ELSE cap}
<1>4. 0 \in P
  BY <1>1, <1>2, <1>3
<1>5. ASSUME NEW i \in 1..n, i - 1 \in P PROVE i \in P
  <2> DEFINE q == after[i - 1]
             c == costs[i]
             r == applyChange(q, c)
  <2>1. /\ q \in Purses /\ after[i] \in Purses /\ i \in 0..n /\ i # 0 /\ after[i] = r
        /\ c.by \in Int /\ p.hp - q.hp <= (IF i - 1 = 0 THEN 0 ELSE cap)
    BY <1>1, <1>2, <1>5 DEF n
  <2>2. c.op = "adjustHp" => i - 1 = 0 /\ c.by <= 0 /\ -c.by <= cap
    BY <1>1 DEF n
  <2> HIDE DEF q, c
  <2>3. /\ (c.op = "adjustHp" => c.by >= 0) => r.hp >= q.hp
        /\ c.op = "adjustHp" /\ c.by <= 0 => r.hp >= q.hp + c.by
    BY <2>1, ChangeFacts
  <2> HIDE DEF r
  <2>4. p.hp - r.hp <= cap
    BY <1>3, <2>1, <2>2, <2>3
  <2> QED
    BY <2>1, <2>4
<1>6. 0..n \subseteq P
  <2> HIDE DEF P
  <2> QED
    BY <1>1, <1>4, <1>5, UpTo
<1>7. n \in P
  BY <1>1, <1>6
<1>8. p.hp - after[n].hp <= cap
  BY <1>1, <1>2, <1>3, <1>7 DEF n
<1> QED
  BY <1>2, <1>8 DEF n

(* Gentle changes make nothing worse.                                        *)
LEMMA GentleChanges ==
  ASSUME NEW p \in Purses, NEW all, Whole(all), \A e \in ToSet(all) : Gentle(e)
  PROVE  NoWorse(prepareStateChanges(p, all), p)
<1> DEFINE n == Len(all)
<1>1. n \in Nat /\ \A i \in 1..n : all[i].by \in Int /\ Gentle(all[i])
  BY Elements DEF Whole
<1>2. PICK after : Makes(after, p, all)
  BY PrepareSteps
<1> USE DEF Makes
<1>3. \A q \in Purses : q.hp \in Int /\ q.san \in Int /\ q.tension \in Int /\ q.progress \in Int
  BY PurseNumbers
<1> HIDE DEF n
<1> DEFINE P == {i \in 0..n : NoWorse(after[i], p)}
<1>4. 0 \in P
  BY <1>1, <1>2, <1>3 DEF NoWorse
<1>5. ASSUME NEW i \in 1..n, i - 1 \in P PROVE i \in P
  <2> DEFINE q == after[i - 1]
             c == all[i]
             r == applyChange(q, c)
  <2>1. q \in Purses /\ after[i] \in Purses /\ i \in 0..n /\ after[i] = r
    BY <1>1, <1>2 DEF n
  <2>2. c.by \in Int /\ Gentle(c) /\ NoWorse(q, p)
    BY <1>1, <1>5
  <2> HIDE DEF q, c
  <2>3. NoWorse(r, q)
    BY <2>1, <2>2, ChangeFacts
  <2> HIDE DEF r
  <2>4. NoWorse(r, p)
    BY <1>3, <2>1, <2>2, <2>3 DEF NoWorse
  <2> QED
    BY <2>1, <2>4
<1>6. 0..n \subseteq P
  <2> HIDE DEF P
  <2> QED
    BY <1>1, <1>4, <1>5, UpTo
<1>7. n \in P
  BY <1>1, <1>6
<1> QED
  BY <1>2, <1>7 DEF n

-----------------------------------------------------------------------------
(* Striking out *)

(* One change more is kept, or it is struck out.                             *)
LEMMA WithoutAppend ==
  ASSUME NEW S, NEW s \in Seq(S), NEW e \in S, NEW A
  PROVE  /\ e \in A => Without(Append(s, e), A) = Without(s, A)
         /\ e \notin A => Without(Append(s, e), A) = Append(Without(s, A), e)
<1> DEFINE u == Append(s, e)
           n == Len(s)
<1>1. /\ n \in Nat /\ u \in Seq(S) /\ Len(u) = n + 1 /\ u[n + 1] = e
      /\ \A i \in 1..n : u[i] = s[i]
  OBVIOUS
<1> HIDE DEF u
<1>2. PICK f : Strikes(f, s, A, S, Without(s, A))
  BY WithoutSteps
<1>3. PICK g : Strikes(g, u, A, S, Without(u, A))
  BY <1>1, WithoutSteps
<1>4. /\ f[0] = <<>> /\ Without(s, A) = f[n]
      /\ \A i \in 1..n : s[i] \in A => f[i] = f[i - 1]
      /\ \A i \in 1..n : s[i] \notin A => f[i] = Append(f[i - 1], s[i])
  BY <1>1, <1>2 DEF Strikes
<1>5. /\ g[0] = <<>> /\ Without(u, A) = g[n + 1]
      /\ \A i \in 1..(n + 1) : u[i] \in A => g[i] = g[i - 1]
      /\ \A i \in 1..(n + 1) : u[i] \notin A => g[i] = Append(g[i - 1], u[i])
  BY <1>1, <1>3 DEF Strikes
<1> HIDE DEF n
<1>6. f[n] = g[n]
  <2>1. ASSUME NEW i \in 1..n, f[i - 1] = g[i - 1] PROVE f[i] = g[i]
    <3>1. i \in 1..(n + 1) /\ u[i] = s[i]
      BY <1>1
    <3> QED
      BY <1>4, <1>5, <2>1, <3>1
  <2> QED
    BY <1>1, <1>4, <1>5, <2>1, Alike
<1>7. n + 1 \in 1..(n + 1) /\ (n + 1) - 1 = n
  BY <1>1
<1>8. /\ e \in A => Without(u, A) = Without(s, A)
      /\ e \notin A => Without(u, A) = Append(Without(s, A), e)
  BY <1>1, <1>4, <1>5, <1>6, <1>7
<1> QED
  BY <1>8 DEF u

(* What is left is of the same kind.                                         *)
LEMMA WithoutType ==
  ASSUME NEW S, NEW s \in Seq(S), NEW A
  PROVE  Without(s, A) \in Seq(S) /\ Without(<<>>, A) = <<>>
<1>1. PICK f : Strikes(f, s, A, S, Without(s, A))
  BY WithoutSteps
<1>2. Len(s) \in Nat /\ Len(s) \in 0..Len(s)
  OBVIOUS
<1>3. Without(s, A) \in Seq(S \ A)
  BY <1>1, <1>2 DEF Strikes
<1> DEFINE o == << >>
<1>4. o \in Seq(S) /\ Len(o) = 0
  OBVIOUS
<1> HIDE DEF o
<1>5. PICK h : Strikes(h, o, A, S, Without(o, A))
  BY <1>4, WithoutSteps
<1>6. Without(o, A) = <<>>
  BY <1>4, <1>5 DEF Strikes
<1> QED
  BY <1>3, <1>6 DEF o

(* Two parts are struck one after the other.                                 *)
LEMMA WithoutConcat ==
  ASSUME NEW S, NEW s \in Seq(S), NEW u \in Seq(S), NEW A
  PROVE  Without(s \o u, A) = Without(s, A) \o Without(u, A)
<1> DEFINE T == {t \in Seq(S) : Without(s \o t, A) = Without(s, A) \o Without(t, A)}
<1>1. <<>> \in T
  <2>1. s \o <<>> = s /\ <<>> \in Seq(S) /\ \A w \in Seq(S) : w \o <<>> = w
    OBVIOUS
  <2>2. Without(s, A) \in Seq(S) /\ Without(<<>>, A) = <<>>
    BY WithoutType
  <2> QED
    BY <2>1, <2>2
<1>2. ASSUME NEW t \in Seq(S), NEW e \in S, t \in T PROVE Append(t, e) \in T
  <2> DEFINE a == Without(s, A)
             b == Without(t, A)
  <2>1. /\ s \o t \in Seq(S) /\ Append(t, e) \in Seq(S) /\ s \o Append(t, e) = Append(s \o t, e)
        /\ Without(s \o t, A) = a \o b
    BY <1>2
  <2>2. a \in Seq(S) /\ b \in Seq(S)
    BY WithoutType
  <2> DEFINE w == s \o t
             v == Append(t, e)
  <2>3. /\ e \in A => Without(Append(w, e), A) = Without(w, A)
        /\ e \notin A => Without(Append(w, e), A) = Append(Without(w, A), e)
    <3>1. w \in Seq(S)
      BY <2>1
    <3> HIDE DEF w
    <3> QED
      BY <3>1, WithoutAppend
  <2>4. Without(s \o v, A) = IF e \in A THEN a \o b ELSE Append(a \o b, e)
    BY <2>1, <2>3
  <2>5. Without(v, A) = IF e \in A THEN b ELSE Append(b, e)
    BY WithoutAppend
  <2> HIDE DEF a, b, w, v
  <2>6. a \o Append(b, e) = Append(a \o b, e)
    BY <2>2
  <2>7. Without(s \o v, A) = a \o Without(v, A)
    BY <2>4, <2>5, <2>6
  <2> QED
    BY <2>1, <2>7 DEF a, v
<1>3. Seq(S) \subseteq T
  <2> HIDE DEF T
  <2> QED
    BY <1>1, <1>2, AllSequences
<1> QED
  BY <1>3

(* What is struck in two goes is struck in one.                              *)
LEMMA WithoutTwice ==
  ASSUME NEW S, NEW s \in Seq(S), NEW A, NEW B
  PROVE  Without(Without(s, A), B) = Without(s, A \cup B)
<1> DEFINE T == {t \in Seq(S) : Without(Without(t, A), B) = Without(t, A \cup B)}
<1>1. <<>> \in T
  BY WithoutType
<1>2. ASSUME NEW t \in Seq(S), NEW e \in S, t \in T PROVE Append(t, e) \in T
  <2> DEFINE a == Without(t, A)
             v == Append(t, e)
             C == A \cup B
  <2>1. a \in Seq(S) /\ Without(a, B) = Without(t, C) /\ v \in Seq(S)
    BY <1>2, WithoutType
  <2>2. Without(v, A) = IF e \in A THEN a ELSE Append(a, e)
    BY WithoutAppend
  <2>3. Without(v, C) = IF e \in C THEN Without(t, C) ELSE Append(Without(t, C), e)
    <3> HIDE DEF C
    <3> QED
      BY WithoutAppend
  <2> HIDE DEF a
  <2>4. Without(Append(a, e), B) = IF e \in B THEN Without(a, B) ELSE Append(Without(a, B), e)
    BY <2>1, WithoutAppend
  <2>5. e \in C <=> e \in A \/ e \in B
    OBVIOUS
  <2> HIDE DEF v, C
  <2>6. Without(Without(v, A), B) = Without(v, C)
    <3>1. CASE e \in A
      <4>1. Without(v, A) = a
        BY <2>2, <3>1
      <4> QED
        BY <2>1, <2>3, <2>5, <3>1, <4>1
    <3>2. CASE e \notin A
      <4>1. Without(v, A) = Append(a, e)
        BY <2>2, <3>2
      <4> QED
        BY <2>1, <2>3, <2>4, <2>5, <3>2, <4>1
    <3> QED
      BY <3>1, <3>2
  <2> QED
    BY <2>1, <2>6 DEF v, C
<1>3. Seq(S) \subseteq T
  <2> HIDE DEF T
  <2> QED
    BY <1>1, <1>2, AllSequences
<1> QED
  BY <1>3

(* What is left depends on the elements that are there.                      *)
LEMMA WithoutSame ==
  ASSUME NEW S, NEW s \in Seq(S), NEW A, NEW B, \A e \in S : e \in A <=> e \in B
  PROVE  Without(s, A) = Without(s, B)
<1> DEFINE T == {t \in Seq(S) : Without(t, A) = Without(t, B)}
<1>1. <<>> \in T
  BY WithoutType
<1>2. ASSUME NEW t \in Seq(S), NEW e \in S, t \in T PROVE Append(t, e) \in T
  <2>1. Without(t, A) = Without(t, B) /\ Append(t, e) \in Seq(S)
    BY <1>2
  <2>2. Without(Append(t, e), A) = IF e \in A THEN Without(t, A) ELSE Append(Without(t, A), e)
    BY WithoutAppend
  <2>3. Without(Append(t, e), B) = IF e \in B THEN Without(t, B) ELSE Append(Without(t, B), e)
    BY WithoutAppend
  <2> QED
    BY <2>1, <2>2, <2>3
<1>3. Seq(S) \subseteq T
  <2> HIDE DEF T
  <2> QED
    BY <1>1, <1>2, AllSequences
<1> QED
  BY <1>3

(* Nothing is left when everything is struck.                                *)
LEMMA WithoutAll ==
  ASSUME NEW S, NEW s \in Seq(S), NEW A, S \subseteq A
  PROVE  Without(s, A) = <<>>
<1> DEFINE T == {t \in Seq(S) : Without(t, A) = <<>>}
<1>1. <<>> \in T
  BY WithoutType
<1>2. ASSUME NEW t \in Seq(S), NEW e \in S, t \in T PROVE Append(t, e) \in T
  <2>1. Without(Append(t, e), A) = Without(t, A)
    BY WithoutAppend
  <2> QED
    BY <1>2, <2>1
<1>3. Seq(S) \subseteq T
  <2> HIDE DEF T
  <2> QED
    BY <1>1, <1>2, AllSequences
<1> QED
  BY <1>3

(* The elements that are left are those that are not struck.                 *)
LEMMA WithoutKept ==
  ASSUME NEW S, NEW s \in Seq(S), NEW A
  PROVE  ToSet(Without(s, A)) = ToSet(s) \ A
<1> DEFINE T == {t \in Seq(S) : ToSet(Without(t, A)) = ToSet(t) \ A}
<1>1. <<>> \in T
  <2>1. Without(<<>>, A) = <<>> /\ <<>> \in Seq(S)
    BY WithoutType
  <2>2. ToSet(<<>>) = {}
    BY DEF ToSet
  <2> QED
    BY <2>1, <2>2
<1>2. ASSUME NEW t \in Seq(S), NEW e \in S, t \in T PROVE Append(t, e) \in T
  <2> DEFINE a == Without(t, A)
             v == Append(t, e)
  <2>1. a \in Seq(S) /\ ToSet(a) = ToSet(t) \ A /\ v \in Seq(S)
    BY <1>2, WithoutType
  <2>2. Without(v, A) = IF e \in A THEN a ELSE Append(a, e)
    BY WithoutAppend
  <2>3. ToSet(v) = ToSet(t) \cup {e}
    BY OneElementMore
  <2> HIDE DEF a, v
  <2>4. ToSet(Append(a, e)) = ToSet(a) \cup {e}
    BY <2>1, OneElementMore
  <2>5. ToSet(Without(v, A)) = ToSet(v) \ A
    BY <2>1, <2>2, <2>3, <2>4
  <2> QED
    BY <2>1, <2>5 DEF v
<1>3. Seq(S) \subseteq T
  <2> HIDE DEF T
  <2> QED
    BY <1>1, <1>2, AllSequences
<1> QED
  BY <1>3

-----------------------------------------------------------------------------
(* Purses side by side *)

(* No change leaves the purse as it is.                                      *)
LEMMA PrepareNothing ==
  ASSUME NEW p \in Purses
  PROVE  prepareStateChanges(p, <<>>) = p
<1> DEFINE o == << >>
<1>1. Whole(o) /\ Len(o) = 0
  BY DEF Whole, ToSet
<1> HIDE DEF o
<1>2. prepareStateChanges(p, o) = p
  BY <1>1, PrepareSteps DEF Makes
<1> QED
  BY <1>2 DEF o

(* One change more is made last.                                             *)
LEMMA PrepareAppend ==
  ASSUME NEW p \in Purses, NEW S, \A e \in S : e.by \in Int, NEW s \in Seq(S), NEW c \in S
  PROVE  prepareStateChanges(p, Append(s, c)) = applyChange(prepareStateChanges(p, s), c)
<1> DEFINE u == Append(s, c)
           n == Len(s)
<1>1. /\ n \in Nat /\ u \in Seq(S) /\ Len(u) = n + 1 /\ u[n + 1] = c
      /\ \A i \in 1..n : u[i] = s[i]
  OBVIOUS
<1> HIDE DEF u
<1>2. Whole(s) /\ Whole(u)
  BY <1>1, WholeOf
<1>3. PICK f : Makes(f, p, s)
  BY <1>2, PrepareSteps
<1>4. PICK g : Makes(g, p, u)
  BY <1>2, PrepareSteps
<1> USE DEF Makes
<1>5. f[n] = g[n]
  <2>1. ASSUME NEW i \in 1..n, f[i - 1] = g[i - 1] PROVE f[i] = g[i]
    <3>1. i \in 1..(n + 1) /\ u[i] = s[i]
      BY <1>1
    <3>2. f[i] = applyChange(f[i - 1], s[i]) /\ g[i] = applyChange(g[i - 1], u[i])
      BY <1>1, <1>3, <1>4, <3>1
    <3> QED
      BY <2>1, <3>1, <3>2
  <2>2. n \in Nat /\ f[0] = g[0]
    BY <1>1, <1>3, <1>4
  <2> HIDE DEF n
  <2> QED
    BY <2>1, <2>2, Alike
<1>6. n + 1 \in 1..(n + 1) /\ (n + 1) - 1 = n
  BY <1>1
<1>7. g[n + 1] = applyChange(g[n], c)
  BY <1>1, <1>4, <1>6
<1>8. prepareStateChanges(p, u) = applyChange(prepareStateChanges(p, s), c)
  BY <1>1, <1>3, <1>4, <1>5, <1>7
<1> QED
  BY <1>8 DEF u

(* Two parts are made one after the other.                                   *)
LEMMA PrepareConcat ==
  ASSUME NEW p \in Purses, NEW S, \A e \in S : e.by \in Int, NEW s \in Seq(S), NEW u \in Seq(S)
  PROVE  prepareStateChanges(p, s \o u) = prepareStateChanges(prepareStateChanges(p, s), u)
<1> DEFINE q == prepareStateChanges(p, s)
           T == {t \in Seq(S) : prepareStateChanges(p, s \o t) = prepareStateChanges(q, t)}
<1>1. q \in Purses
  BY WholeOf, PrepareFacts
<1>2. <<>> \in T
  <2>1. s \o <<>> = s /\ <<>> \in Seq(S)
    OBVIOUS
  <2> HIDE DEF q
  <2>2. prepareStateChanges(q, <<>>) = q
    BY <1>1, PrepareNothing
  <2> QED
    BY <2>1, <2>2 DEF q
<1>3. ASSUME NEW t \in Seq(S), NEW e \in S, t \in T PROVE Append(t, e) \in T
  <2> DEFINE w == s \o t
             v == Append(t, e)
  <2>1. w \in Seq(S) /\ v \in Seq(S) /\ s \o v = Append(w, e)
        /\ prepareStateChanges(p, w) = prepareStateChanges(q, t)
    BY <1>3
  <2> HIDE DEF q, w
  <2>2. prepareStateChanges(p, Append(w, e)) = applyChange(prepareStateChanges(p, w), e)
    BY <2>1, PrepareAppend
  <2>3. prepareStateChanges(q, v) = applyChange(prepareStateChanges(q, t), e)
    BY <1>1, PrepareAppend
  <2> QED
    BY <2>1, <2>2, <2>3
<1>4. Seq(S) \subseteq T
  <2> HIDE DEF T
  <2> QED
    BY <1>2, <1>3, AllSequences
<1> QED
  BY <1>4

(* A check costs what its author wrote: the keeper takes nothing, the routes *)
(* leave a hit point of the purse, and a success without effects is free.    *)
LEMMA AuthoredCosts ==
  ASSUME NEW q \in Questions
  PROVE  CostsAreAuthored(q)
<1> DEFINE p       == q.purse
           record  == q.record
           changes == q.changes
           before  == Governed(changes, record)
<1>1. p \in Purses /\ Whole(changes)
  <2>1. q.purse \in Purses /\ q.changes \in Replies
    BY DEF Questions
  <2> QED
    BY <2>1, MindAssumption DEF Whole
<1>2. PICK costs :
            Prepares(cocConsequencePrepareParsed(changes, record, p), p, record, before, costs)
  <2> HIDE DEF p, changes, record
  <2> QED
    BY <1>1, PreparedFacts
<1>3. /\ cocConsequencePrepareParsed(changes, record, p) = before \o costs
      /\ Whole(before) /\ Whole(costs)
      /\ \A e \in ToSet(before) : Gentle(e) \/ e \in ToSet(authoredEffects(record))
      /\ \A i \in 1..Len(costs) : costs[i].op = "adjustHp" =>
            i = 1 /\ costs[i].by \in Int /\ -costs[i].by \in 0..Spared(p)
      /\ record.success => ToSet(costs) = {}
  BY <1>2 DEF Prepares
<1>4. After(q) = prepareStateChanges(p, before \o costs)
  BY <1>3 DEF After
<1> DEFINE effects == authoredEffects(record)
<1> DEFINE unpaid == prepareStateChanges(p, before)
<1>5. unpaid.hp - After(q).hp <= Max({0, q.purse.hp - 1})
  <2>1. p.hp \in Nat /\ Spared(p) \in Nat
    BY <1>1, FullFacts DEF Purses, Spared
  <2> DEFINE less == q.purse.hp - 1
  <2>2. less \in Int /\ 0 \in Int /\ less = p.hp - 1
    BY <2>1
  <2> HIDE DEF less
  <2>3. Max({0, less}) = IF 0 >= less THEN 0 ELSE less
    BY <2>2, Pairs
  <2>4. Max({0, less}) = Spared(p)
    BY <2>1, <2>2, <2>3 DEF Spared
  <2> HIDE DEF p, before
  <2>5. unpaid \in Purses
    BY <1>1, <1>3, PrepareFacts
  <2> DEFINE S == ToSet(before) \cup ToSet(costs)
  <2>6. before \in Seq(S) /\ costs \in Seq(S) /\ \A e \in S : e.by \in Int
    BY <1>3 DEF Whole
  <2> HIDE DEF S
  <2>7. prepareStateChanges(p, before \o costs) = prepareStateChanges(unpaid, costs)
    BY <1>1, <2>6, PrepareConcat
  <2> HIDE DEF unpaid
  <2>8. unpaid.hp - prepareStateChanges(unpaid, costs).hp <= Spared(p)
    BY <1>3, <2>1, <2>5, CostsTake
  <2> QED
    BY <1>4, <2>4, <2>7, <2>8 DEF less
<1>6. \A i \in 1..Len(costs) : costs[i].op = "adjustHp" =>
          i = 1 /\ (p.hp > 0 => p.hp + costs[i].by > 0)
  <2>1. p.hp \in Nat
    BY <1>1, FullFacts DEF Purses
  <2> QED
    BY <1>3, <2>1 DEF Spared
<1>7. ASSUME p.hp > 0, ~ \E e \in ToSet(effects) : e.op = "adjustHp" /\ e.by < 0
      PROVE  After(q).hp > 0
  <2>1. \A e \in ToSet(before) : e.op = "adjustHp" => e.by >= 0
    <3>1. \A e \in ToSet(before) : e.by \in Int
      BY <1>3 DEF Whole
    <3> HIDE DEF before
    <3> QED
      BY <1>3, <1>7, <3>1 DEF Gentle
  <2> HIDE DEF p, before
  <2> QED
    BY <1>1, <1>3, <1>4, <1>7, <1>6, <2>1, HitPointLeft
<1>8. ASSUME record.success, effects = << >>
      PROVE  NoWorse(After(q), p)
  <2> DEFINE all == before \o costs
  <2>1. Whole(all) /\ ToSet(all) = ToSet(before) \cup ToSet(costs)
    BY <1>3, ConcatWhole
  <2>2. ToSet(effects) = {} /\ ToSet(costs) = {}
    <3>1. ToSet(<< >>) = {}
      BY DEF ToSet
    <3> QED
      BY <1>3, <1>8, <3>1
  <2>3. \A e \in ToSet(all) : Gentle(e)
    <3> HIDE DEF all
    <3> QED
      BY <1>3, <2>1, <2>2
  <2> HIDE DEF all, p
  <2>4. NoWorse(prepareStateChanges(p, all), p)
    BY <1>1, <2>1, <2>3, GentleChanges
  <2> QED
    BY <1>4, <2>4 DEF all
<1> QED
  BY <1>5, <1>7, <1>8 DEF CostsAreAuthored

(* A change keeps the order of two purses.                                   *)
LEMMA ApplyKeepsOrder ==
  ASSUME NEW p \in Purses, NEW r \in Purses, NEW c, c.by \in Int, NoWorse(p, r)
  PROVE  NoWorse(applyChange(p, c), applyChange(r, c))
<1>1. ASSUME NEW x \in Int, NEW y \in Int, NEW low \in Int, NEW high \in Int, low <= high, x >= y
      PROVE  Within(x, low, high) >= Within(y, low, high)
  <2> DEFINE a == Min({x, high})
             b == Min({y, high})
  <2>1. a = (IF x <= high THEN x ELSE high) /\ b = (IF y <= high THEN y ELSE high)
    BY Pairs
  <2> HIDE DEF a, b
  <2>2. a \in Int /\ b \in Int /\ a >= b
    BY <1>1, <2>1
  <2>3. Max({low, a}) = (IF low >= a THEN low ELSE a) /\ Max({low, b}) = (IF low >= b THEN low ELSE b)
    BY <2>2, Pairs
  <2>4. Within(x, low, high) = Max({low, a}) /\ Within(y, low, high) = Max({low, b})
    BY DEF Within, a, b
  <2> QED
    BY <2>2, <2>3, <2>4
<1>2. ASSUME NEW q \in Purses
      PROVE  /\ applyChange(q, c).hp =
                  IF c.op = "adjustHp" THEN Within(q.hp + c.by, 0, Full.hp) ELSE q.hp
             /\ applyChange(q, c).san =
                  IF c.op = "adjustSan" THEN Within(q.san + c.by, 0, Full.san) ELSE q.san
             /\ applyChange(q, c).tension =
                  IF c.op = "adjustTension" THEN Within(q.tension + c.by, 1, Full.maxTension)
                  ELSE q.tension
             /\ applyChange(q, c).progress =
                  IF c.op = "adjustProgress" THEN Within(q.progress + c.by, 0, 100) ELSE q.progress
  <2>1. /\ q = [hp |-> q.hp, san |-> q.san, tension |-> q.tension,
                maxTension |-> q.maxTension, progress |-> q.progress]
        /\ q.maxTension = Full.maxTension
    BY DEF Purses
  <2> DEFINE hp  == Within(q.hp + c.by, 0, Full.hp)
             san == Within(q.san + c.by, 0, Full.san)
             ten == Within(q.tension + c.by, 1, Full.maxTension)
             pro == Within(q.progress + c.by, 0, 100)
  <2>2. applyChange(q, c) =
        CASE c.op = "adjustHp"       -> [q EXCEPT !.hp = hp]
          [] c.op = "adjustSan"      -> [q EXCEPT !.san = san]
          [] c.op = "adjustTension"  -> [q EXCEPT !.tension = ten]
          [] c.op = "adjustProgress" -> [q EXCEPT !.progress = pro]
          [] OTHER                   -> q
    BY <2>1 DEF applyChange
  <2> HIDE DEF hp, san, ten, pro
  <2>3. /\ applyChange(q, c).hp = (IF c.op = "adjustHp" THEN hp ELSE q.hp)
        /\ applyChange(q, c).san = (IF c.op = "adjustSan" THEN san ELSE q.san)
        /\ applyChange(q, c).tension = (IF c.op = "adjustTension" THEN ten ELSE q.tension)
        /\ applyChange(q, c).progress = (IF c.op = "adjustProgress" THEN pro ELSE q.progress)
    BY <2>1, <2>2
  <2> QED
    BY <2>3 DEF hp, san, ten, pro
<1>3. /\ p.hp \in Int /\ p.san \in Int /\ p.tension \in Int /\ p.progress \in Int
      /\ r.hp \in Int /\ r.san \in Int /\ r.tension \in Int /\ r.progress \in Int
      /\ p.hp >= r.hp /\ p.san >= r.san /\ r.tension >= p.tension /\ p.progress >= r.progress
  BY PurseNumbers DEF NoWorse
<1>4. /\ 0 \in Int /\ 1 \in Int /\ 100 \in Int /\ 0 <= 100
      /\ Full.hp \in Int /\ 0 <= Full.hp /\ Full.san \in Int /\ 0 <= Full.san
      /\ Full.maxTension \in Int /\ 1 <= Full.maxTension
  BY FullFacts
<1> DEFINE a == p.hp + c.by
           b == r.hp + c.by
           d == p.san + c.by
           e == r.san + c.by
           f == p.tension + c.by
           g == r.tension + c.by
           h == p.progress + c.by
           i == r.progress + c.by
<1>5. /\ a \in Int /\ b \in Int /\ d \in Int /\ e \in Int /\ f \in Int /\ g \in Int
      /\ h \in Int /\ i \in Int /\ a >= b /\ d >= e /\ g >= f /\ h >= i
  BY <1>3
<1> HIDE DEF a, b, d, e, f, g, h, i
<1>6. Within(a, 0, Full.hp) >= Within(b, 0, Full.hp)
  BY <1>1, <1>4, <1>5
<1>7. Within(d, 0, Full.san) >= Within(e, 0, Full.san)
  BY <1>1, <1>4, <1>5
<1>8. Within(g, 1, Full.maxTension) >= Within(f, 1, Full.maxTension)
  BY <1>1, <1>4, <1>5
<1>9. Within(h, 0, 100) >= Within(i, 0, 100)
  BY <1>1, <1>4, <1>5
<1> DEFINE v == applyChange(p, c)
           w == applyChange(r, c)
<1>10. v.hp >= w.hp
  BY <1>2, <1>3, <1>6 DEF a, b
<1>11. v.san >= w.san
  BY <1>2, <1>3, <1>7 DEF d, e
<1>12. w.tension >= v.tension
  BY <1>2, <1>3, <1>8 DEF f, g
<1>13. v.progress >= w.progress
  BY <1>2, <1>3, <1>9 DEF h, i
<1>14. v \in Purses /\ w \in Purses
  BY ApplyChangeFacts
<1> HIDE DEF v, w
<1>15. v.tension \in Int /\ w.tension \in Int
  BY <1>14, PurseNumbers
<1>16. NoWorse(v, w)
  BY <1>10, <1>11, <1>12, <1>13, <1>15 DEF NoWorse
<1> QED
  BY <1>16 DEF v, w

(* So do changes.                                                            *)
LEMMA PrepareKeepsOrder ==
  ASSUME NEW p \in Purses, NEW r \in Purses, NoWorse(p, r),
         NEW S, \A e \in S : e.by \in Int, NEW s \in Seq(S)
  PROVE  NoWorse(prepareStateChanges(p, s), prepareStateChanges(r, s))
<1> DEFINE T == {t \in Seq(S) : NoWorse(prepareStateChanges(p, t), prepareStateChanges(r, t))}
<1>1. <<>> \in T
  BY PrepareNothing
<1>2. ASSUME NEW t \in Seq(S), NEW e \in S, t \in T PROVE Append(t, e) \in T
  <2> DEFINE a == prepareStateChanges(p, t)
             b == prepareStateChanges(r, t)
             v == Append(t, e)
  <2>1. a \in Purses /\ b \in Purses /\ v \in Seq(S) /\ NoWorse(a, b) /\ e.by \in Int
    BY <1>2, WholeOf, PrepareFacts
  <2>2. prepareStateChanges(p, v) = applyChange(a, e)
    BY PrepareAppend
  <2>3. prepareStateChanges(r, v) = applyChange(b, e)
    BY PrepareAppend
  <2> HIDE DEF a, b
  <2>4. NoWorse(applyChange(a, e), applyChange(b, e))
    BY <2>1, ApplyKeepsOrder
  <2> QED
    BY <2>1, <2>2, <2>3, <2>4
<1>3. Seq(S) \subseteq T
  <2> HIDE DEF T
  <2> QED
    BY <1>1, <1>2, AllSequences
<1> QED
  BY <1>3

(* A change that does nothing to a purse.                                    *)
TakesNothing(c) ==
  /\ c.op \in {"adjustHp", "adjustProgress"} => c.by = 0
  /\ c.op \notin {"adjustSan", "adjustTension"}

(* Such changes leave it as it is.                                           *)
LEMMA PrepareIdle ==
  ASSUME NEW p \in Purses, NEW S, \A e \in S : e.by \in Int /\ TakesNothing(e), NEW s \in Seq(S)
  PROVE  prepareStateChanges(p, s) = p
<1> DEFINE T == {t \in Seq(S) : prepareStateChanges(p, t) = p}
<1>1. <<>> \in T
  BY PrepareNothing
<1>2. ASSUME NEW e \in S PROVE applyChange(p, e) = p
  <2>1. /\ p = [hp |-> p.hp, san |-> p.san, tension |-> p.tension,
                maxTension |-> p.maxTension, progress |-> p.progress]
        /\ p.hp \in 0..Full.hp /\ p.progress \in 0..100 /\ Full.hp \in Nat
    BY FullFacts DEF Purses
  <2>2. ASSUME NEW high \in Nat, NEW x \in 0..high PROVE Within(x, 0, high) = x
    <3>1. Min({x, high}) = x
      BY Pairs
    <3>2. Max({0, x}) = x
      <4>1. 0 \in Int /\ x \in Int /\ x >= 0
        OBVIOUS
      <4>2. Max({0, x}) = IF 0 >= x THEN 0 ELSE x
        BY <4>1, Pairs
      <4> QED
        BY <4>1, <4>2
    <3> QED
      BY <3>1, <3>2 DEF Within
  <2>3. CASE e.op = "adjustHp"
    <3>1. e.by = 0 /\ p.hp + e.by = p.hp
      BY <2>1, <2>3 DEF TakesNothing
    <3>2. applyChange(p, e) = [p EXCEPT !.hp = Within(p.hp, 0, Full.hp)]
      BY <2>3, <3>1 DEF applyChange
    <3>3. Within(p.hp, 0, Full.hp) = p.hp
      BY <2>1, <2>2
    <3> QED
      BY <2>1, <3>2, <3>3
  <2>4. CASE e.op = "adjustProgress"
    <3>1. e.by = 0 /\ p.progress + e.by = p.progress
      <4>1. e.by = 0
        BY <1>2, <2>4 DEF TakesNothing
      <4>2. p.progress \in Int
        BY PurseNumbers
      <4> QED
        BY <4>1, <4>2
    <3>2. applyChange(p, e) = [p EXCEPT !.progress = Within(p.progress, 0, 100)]
      BY <2>4, <3>1 DEF applyChange
    <3>3. Within(p.progress, 0, 100) = p.progress
      BY <2>1, <2>2
    <3> QED
      BY <2>1, <3>2, <3>3
  <2>5. CASE e.op # "adjustHp" /\ e.op # "adjustProgress"
    BY <2>5 DEF TakesNothing, applyChange
  <2> QED
    BY <2>3, <2>4, <2>5
<1>3. ASSUME NEW t \in Seq(S), NEW e \in S, t \in T PROVE Append(t, e) \in T
  <2>1. prepareStateChanges(p, Append(t, e)) = applyChange(prepareStateChanges(p, t), e)
    BY PrepareAppend
  <2> QED
    BY <1>2, <1>3, <2>1
<1>4. Seq(S) \subseteq T
  <2> HIDE DEF T
  <2> QED
    BY <1>1, <1>3, AllSequences
<1> QED
  BY <1>4

-----------------------------------------------------------------------------
(* Totals side by side *)

Used(s, record) == {By(c) : c \in {d \in ToSet(s) : UsesRoute(d, record)}}
Charges(c, record) == ~ (record.skipped \/ record.success) /\ UsesRoute(c, record)

(* One change more costs something when it is the first to use a route that  *)
(* costs.                                                                    *)
LEMMA TotalsAppend ==
  ASSUME NEW S, NEW s \in Seq(S), NEW e \in S, NEW record
  PROVE  authoredTotals(Append(s, e), record) =
            IF Charges(e, record) /\ By(e) \notin Used(s, record)
            THEN costMerge(authoredTotals(s, record), effectiveCost(e, record))
            ELSE authoredTotals(s, record)
<1> DEFINE u == Append(s, e)
           n == Len(s)
           old == routeEntries(s, record)
           now == routeEntries(u, record)
<1>1. /\ n \in Nat /\ u \in Seq(S) /\ Len(u) = n + 1 /\ u[n + 1] = e
      /\ \A i \in 1..n : u[i] = s[i] /\ s[i] \in ToSet(s)
      /\ \A d \in ToSet(s) : \E i \in 1..n : d = s[i]
  BY Elements
<1> HIDE DEF u, n
<1>2. /\ \A i : i \in old <=> /\ i \in 1..n /\ Charges(s[i], record)
                              /\ \A j \in 1..(i - 1) :
                                    UsesRoute(s[j], record) => By(s[j]) # By(s[i])
      /\ \A i : i \in now <=> /\ i \in 1..(n + 1) /\ Charges(u[i], record)
                              /\ \A j \in 1..(i - 1) :
                                    UsesRoute(u[j], record) => By(u[j]) # By(u[i])
  BY <1>1 DEF routeEntries, Charges, By, n
<1>3. \A i \in 1..n : i \in old <=> i \in now
  <2> SUFFICES ASSUME NEW i \in 1..n PROVE i \in old <=> i \in now
    OBVIOUS
  <2>1. i \in 1..(n + 1) /\ \A j \in 1..(i - 1) : j \in 1..n /\ u[j] = s[j]
    BY <1>1
  <2>2. u[i] = s[i]
    BY <1>1
  <2> HIDE DEF old, now
  <2> QED
    BY <1>2, <2>1, <2>2
<1>4. n + 1 \in now <=> Charges(e, record) /\ By(e) \notin Used(s, record)
  <2>1. By(e) \in Used(s, record) <=> \E j \in 1..n : UsesRoute(s[j], record) /\ By(s[j]) = By(e)
    BY <1>1 DEF Used
  <2>2. n + 1 \in 1..(n + 1) /\ (n + 1) - 1 = n
    BY <1>1
  <2>3. \A j \in 1..n : u[j] = s[j]
    BY <1>1
  <2> HIDE DEF now, old
  <2>4. n + 1 \in now <=> /\ Charges(e, record)
                         /\ \A j \in 1..n : UsesRoute(u[j], record) => By(u[j]) # By(e)
    BY <1>1, <1>2, <2>2
  <2>5. (\A j \in 1..n : UsesRoute(u[j], record) => By(u[j]) # By(e))
           <=> By(e) \notin Used(s, record)
    BY <2>1, <2>3
  <2> QED
    BY <2>4, <2>5
<1>5. PICK f : AddsUp(f, s, record)
  BY <1>1, TotalsSteps DEF n
<1>6. PICK g : AddsUp(g, u, record)
  BY <1>1, TotalsSteps
<1>7. /\ f[0] = Free /\ authoredTotals(s, record) = f[n]
      /\ \A i \in 1..n : f[i] = IF i \in old THEN costMerge(f[i - 1], effectiveCost(s[i], record))
                                ELSE f[i - 1]
  BY <1>5 DEF AddsUp, n
<1>8. /\ g[0] = Free /\ authoredTotals(u, record) = g[n + 1]
      /\ \A i \in 1..(n + 1) :
            g[i] = IF i \in now THEN costMerge(g[i - 1], effectiveCost(u[i], record)) ELSE g[i - 1]
  BY <1>1, <1>6 DEF AddsUp
<1> HIDE DEF old, now
<1>9. f[n] = g[n]
  <2>1. ASSUME NEW i \in 1..n, f[i - 1] = g[i - 1] PROVE f[i] = g[i]
    <3>1. i \in 1..(n + 1) /\ u[i] = s[i]
      BY <1>1
    <3> QED
      BY <1>3, <1>7, <1>8, <2>1, <3>1
  <2>2. n \in Nat /\ f[0] = g[0]
    BY <1>1, <1>7, <1>8
  <2> QED
    BY <2>1, <2>2, Alike
<1>10. n + 1 \in 1..(n + 1) /\ (n + 1) - 1 = n
  BY <1>1
<1>11. g[n + 1] = IF n + 1 \in now THEN costMerge(g[n], effectiveCost(e, record)) ELSE g[n]
  BY <1>1, <1>8, <1>10
<1>12. authoredTotals(u, record) =
            IF Charges(e, record) /\ By(e) \notin Used(s, record)
            THEN costMerge(authoredTotals(s, record), effectiveCost(e, record))
            ELSE authoredTotals(s, record)
  BY <1>4, <1>7, <1>8, <1>9, <1>11
<1> QED
  BY <1>12 DEF u

(* Two sequences of changes that are charged alike, whatever comes next.     *)
SameBill(s, t, record) ==
  authoredTotals(s, record) = authoredTotals(t, record) /\ Used(s, record) = Used(t, record)

(* The routes in use after one change more.                                  *)
LEMMA UsedAppend ==
  ASSUME NEW S, NEW s \in Seq(S), NEW e \in S, NEW record
  PROVE  Used(Append(s, e), record) =
             IF UsesRoute(e, record) THEN Used(s, record) \cup {By(e)} ELSE Used(s, record)
<1>1. ToSet(Append(s, e)) = ToSet(s) \cup {e}
  BY OneElementMore
<1> QED
  BY <1>1 DEF Used

(* One change more is charged alike.                                         *)
LEMMA BillAppend ==
  ASSUME NEW S, NEW s \in Seq(S), NEW t \in Seq(S), NEW e \in S, NEW record,
         SameBill(s, t, record)
  PROVE  SameBill(Append(s, e), Append(t, e), record)
<1>1. authoredTotals(s, record) = authoredTotals(t, record) /\ Used(s, record) = Used(t, record)
  BY DEF SameBill
<1>2. authoredTotals(Append(s, e), record) = authoredTotals(Append(t, e), record)
  BY <1>1, TotalsAppend
<1>3. Used(Append(s, e), record) = Used(Append(t, e), record)
  <2>1. Used(Append(s, e), record) =
            IF UsesRoute(e, record) THEN Used(s, record) \cup {By(e)} ELSE Used(s, record)
    BY UsedAppend
  <2>2. Used(Append(t, e), record) =
            IF UsesRoute(e, record) THEN Used(t, record) \cup {By(e)} ELSE Used(t, record)
    BY UsedAppend
  <2> QED
    BY <1>1, <2>1, <2>2
<1> QED
  BY <1>2, <1>3 DEF SameBill

(* So are several more.                                                      *)
LEMMA BillConcat ==
  ASSUME NEW S, NEW s \in Seq(S), NEW t \in Seq(S), NEW u \in Seq(S), NEW record,
         SameBill(s, t, record)
  PROVE  SameBill(s \o u, t \o u, record)
<1> DEFINE T == {v \in Seq(S) : SameBill(s \o v, t \o v, record)}
<1>1. <<>> \in T
  <2>1. s \o <<>> = s /\ t \o <<>> = t /\ <<>> \in Seq(S)
    OBVIOUS
  <2> QED
    BY <2>1
<1>2. ASSUME NEW v \in Seq(S), NEW e \in S, v \in T PROVE Append(v, e) \in T
  <2> DEFINE a == s \o v
             b == t \o v
  <2>1. /\ a \in Seq(S) /\ b \in Seq(S) /\ SameBill(a, b, record) /\ Append(v, e) \in Seq(S)
        /\ s \o Append(v, e) = Append(a, e) /\ t \o Append(v, e) = Append(b, e)
    BY <1>2
  <2> HIDE DEF a, b
  <2>2. SameBill(Append(a, e), Append(b, e), record)
    BY <2>1, BillAppend
  <2> QED
    BY <2>1, <2>2
<1>3. Seq(S) \subseteq T
  <2> HIDE DEF T
  <2> QED
    BY <1>1, <1>2, AllSequences
<1> QED
  BY <1>3

(* What reveals nothing by a new route is not charged.                       *)
LEMMA BillIdle ==
  ASSUME NEW S, NEW s \in Seq(S), NEW X \in SUBSET S,
         NEW record, \A e \in X : UsesRoute(e, record) => By(e) \in Used(s, record),
         NEW u \in Seq(X)
  PROVE  SameBill(s \o u, s, record)
<1> DEFINE T == {v \in Seq(X) : SameBill(s \o v, s, record)}
<1>1. <<>> \in T
  <2>1. s \o <<>> = s /\ <<>> \in Seq(X)
    OBVIOUS
  <2> QED
    BY <2>1 DEF SameBill
<1>2. ASSUME NEW v \in Seq(X), NEW e \in X, v \in T PROVE Append(v, e) \in T
  <2> DEFINE a == s \o v
  <2>1. /\ a \in Seq(S) /\ SameBill(a, s, record) /\ Append(v, e) \in Seq(X) /\ e \in S
        /\ s \o Append(v, e) = Append(a, e)
    <3>1. v \in Seq(S) /\ e \in S
      OBVIOUS
    <3> QED
      BY <1>2, <3>1
  <2> HIDE DEF a
  <2>2. authoredTotals(a, record) = authoredTotals(s, record) /\ Used(a, record) = Used(s, record)
    BY <2>1 DEF SameBill
  <2>3. UsesRoute(e, record) => By(e) \in Used(a, record)
    BY <2>2
  <2>4. authoredTotals(Append(a, e), record) = authoredTotals(a, record)
    <3>1. ~ (Charges(e, record) /\ By(e) \notin Used(a, record))
      BY <2>3 DEF Charges
    <3> QED
      BY <2>1, <3>1, TotalsAppend
  <2>5. Used(Append(a, e), record) = Used(a, record)
    <3>1. Used(Append(a, e), record) =
              IF UsesRoute(e, record) THEN Used(a, record) \cup {By(e)} ELSE Used(a, record)
      BY <2>1, UsedAppend
    <3> QED
      BY <2>3, <3>1
  <2>6. SameBill(Append(a, e), s, record)
    BY <2>2, <2>4, <2>5 DEF SameBill
  <2> QED
    BY <2>1, <2>6
<1>3. Seq(X) \subseteq T
  <2> HIDE DEF T
  <2> QED
    BY <1>1, <1>2, AllSequences
<1> QED
  BY <1>3

(* What reveals nothing may be struck out without changing the charge.       *)
LEMMA BillStrike ==
  ASSUME NEW S, NEW s \in Seq(S), NEW A, \A e \in S \cap A : e.op # "revealClue", NEW record
  PROVE  SameBill(Without(s, A), s, record)
<1> DEFINE T == {v \in Seq(S) : SameBill(Without(v, A), v, record)}
<1>1. <<>> \in T
  <2>1. Without(<<>>, A) = <<>> /\ <<>> \in Seq(S)
    BY WithoutType
  <2> QED
    BY <2>1 DEF SameBill
<1>2. ASSUME NEW v \in Seq(S), NEW e \in S, v \in T PROVE Append(v, e) \in T
  <2> DEFINE a == Without(v, A)
             u == Append(v, e)
  <2>1. a \in Seq(S) /\ SameBill(a, v, record) /\ u \in Seq(S)
    BY <1>2, WithoutType
  <2>2. Without(u, A) = IF e \in A THEN a ELSE Append(a, e)
    BY WithoutAppend
  <2> HIDE DEF a
  <2>3. CASE e \in A
    <3>1. e.op # "revealClue"
      BY <2>3
    <3>2. authoredTotals(u, record) = authoredTotals(v, record)
      BY <3>1, TotalsAppend DEF Charges, UsesRoute
    <3>3. Used(u, record) = Used(v, record)
      BY <3>1, UsedAppend DEF UsesRoute
    <3>4. SameBill(a, u, record)
      BY <2>1, <3>2, <3>3 DEF SameBill
    <3> QED
      BY <2>1, <2>2, <2>3, <3>4
  <2>4. CASE e \notin A
    <3>1. SameBill(Append(a, e), Append(v, e), record)
      BY <2>1, BillAppend
    <3> HIDE DEF u
    <3>2. Without(u, A) = Append(a, e)
      BY <2>2, <2>4
    <3>3. SameBill(Without(u, A), u, record)
      BY <3>1, <3>2 DEF u
    <3> QED
      BY <2>1, <3>3 DEF u
  <2> QED
    BY <2>3, <2>4
<1>3. Seq(S) \subseteq T
  <2> HIDE DEF T
  <2> QED
    BY <1>1, <1>2, AllSequences
<1> QED
  BY <1>3

-----------------------------------------------------------------------------
(* Nothing is paid twice *)

(* The changes that are struck out of a reply.                               *)
Struck(S, record) ==
  {c \in S : \/ effectIdentity(c) \in {effectIdentity(e) : e \in ToSet(authoredEffects(record))}
             \/ unauthorizedPunitive(c)}

Billed(own, record, p) ==
  LET before == own \o authoredEffects(record)
  IN  before \o costEffects(appliedTotals(authoredTotals(before, record), p))

(* What is prepared is what is not struck out, with the scenario's effects   *)
(* and the costs behind it.                                                  *)
LEMMA PreparedOwn ==
  ASSUME NEW S, NEW x \in Seq(S), NEW record, NEW p
  PROVE  cocConsequencePrepareParsed(x, record, p) =
            Billed(Without(x, Struck(S, record)), record, p)
<1> DEFINE effects == authoredEffects(record)
           doubles == {c \in ToSet(x) :
                         effectIdentity(c) \in {effectIdentity(e) : e \in ToSet(effects)}}
           D       == {c \in S :
                         effectIdentity(c) \in {effectIdentity(e) : e \in ToSet(effects)}}
           H       == {c \in S : unauthorizedPunitive(c)}
           new     == Without(x, doubles)
           harsh   == {c \in ToSet(new) : unauthorizedPunitive(c)}
           own     == Without(new, harsh)
<1>1. cocConsequencePrepareParsed(x, record, p) = Billed(own, record, p)
  BY DEF cocConsequencePrepareParsed, Governed, stripAuthoredDuplicates, Billed
<1>2. new = Without(x, D)
  <2> DEFINE Z == ToSet(x)
  <2>1. x \in Seq(Z) /\ \A c \in Z : c \in S
    BY Elements DEF ToSet
  <2>2. \A c \in Z : c \in doubles <=> c \in D
    BY <2>1
  <2> HIDE DEF Z, doubles, D
  <2> QED
    BY <2>1, <2>2, WithoutSame DEF new
<1>3. new \in Seq(S)
  <2> HIDE DEF D
  <2> QED
    BY <1>2, WithoutType
<1> HIDE DEF new
<1>4. own = Without(new, H)
  <2> DEFINE Z == ToSet(new)
  <2>1. new \in Seq(Z) /\ \A c \in Z : c \in S
    BY <1>3, Elements DEF ToSet
  <2>2. \A c \in Z : c \in harsh <=> c \in H
    BY <2>1
  <2> HIDE DEF Z, harsh, H
  <2> QED
    BY <2>1, <2>2, WithoutSame DEF own
<1>5. Struck(S, record) = D \cup H
  BY DEF Struck
<1> HIDE DEF D, H, own
<1>6. own = Without(x, D \cup H)
  BY <1>2, <1>4, WithoutTwice
<1> QED
  BY <1>1, <1>5, <1>6

(* What the keeper's own changes are worth when the scenario's effects are   *)
(* the same and so is the bill.                                              *)
LEMMA SameBillNoWorse ==
  ASSUME NEW p \in Purses, NEW S, \A e \in S : e.by \in Int, NEW record,
         ToSet(authoredEffects(record)) \subseteq S, NEW a \in Seq(S), NEW b \in Seq(S),
         SameBill(a \o authoredEffects(record), b \o authoredEffects(record), record),
         NoWorse(prepareStateChanges(p, a), prepareStateChanges(p, b))
  PROVE  NoWorse(prepareStateChanges(p, Billed(a, record, p)),
                 prepareStateChanges(p, Billed(b, record, p)))
<1> DEFINE effects == authoredEffects(record)
           total   == authoredTotals(a \o effects, record)
           t       == appliedTotals(total, p)
           costs   == costEffects(t)
           rest    == effects \o costs
           R       == S \cup ToSet(costs)
<1>1. effects \in Seq(S)
  <2>1. effects \in Seq(ToSet(effects))
    BY EffectsWhole DEF Whole
  <2> HIDE DEF effects
  <2> QED
    BY <2>1 DEF effects
<1>2. total = authoredTotals(b \o effects, record)
  BY DEF SameBill
<1>3. total \in Costs
  <2> DEFINE w == a \o effects
  <2>1. w \in Seq(S)
    <3> HIDE DEF effects
    <3> QED
      BY <1>1
  <2> HIDE DEF w
  <2>2. Whole(w)
    BY <2>1, WholeOf
  <2> QED
    BY <2>2, AuthoredTotalsFacts DEF w
<1> HIDE DEF total
<1>4. t.hp \in Int /\ t.san \in Int /\ t.tension \in Int /\ t.progress \in Int
  BY <1>3, AppliedFacts
<1> HIDE DEF t
<1>5. Whole(costs)
  BY <1>4, CostEffectsFacts
<1>6. Billed(a, record, p) = (a \o effects) \o costs
  BY DEF Billed, costs, t, total
<1>7. Billed(b, record, p) = (b \o effects) \o costs
  BY <1>2 DEF Billed, costs, t
<1> HIDE DEF effects, costs
<1>8. /\ \A e \in R : e.by \in Int
      /\ a \in Seq(R) /\ b \in Seq(R) /\ effects \in Seq(R) /\ costs \in Seq(R)
  BY <1>1, <1>5 DEF Whole
<1> HIDE DEF R
<1>9. rest \in Seq(R) /\ (a \o effects) \o costs = a \o rest /\ (b \o effects) \o costs = b \o rest
  BY <1>8
<1> HIDE DEF rest
<1> DEFINE x == prepareStateChanges(p, a)
           y == prepareStateChanges(p, b)
<1>10. prepareStateChanges(p, a \o rest) = prepareStateChanges(x, rest)
  BY <1>8, <1>9, PrepareConcat
<1>11. prepareStateChanges(p, b \o rest) = prepareStateChanges(y, rest)
  BY <1>8, <1>9, PrepareConcat
<1>12. x \in Purses /\ y \in Purses /\ NoWorse(x, y)
  BY WholeOf, PrepareFacts
<1> HIDE DEF x, y
<1>13. NoWorse(prepareStateChanges(x, rest), prepareStateChanges(y, rest))
  BY <1>8, <1>9, <1>12, PrepareKeepsOrder
<1> QED
  BY <1>6, <1>7, <1>9, <1>10, <1>11, <1>13

(* Writing a revelation or an effect twice, or a gift, costs no more.        *)
LEMMA TwiceIsOnce ==
  ASSUME NEW q \in Questions
  PROVE  NothingPaidTwice(q)
<1> DEFINE p       == q.purse
           record  == q.record
           changes == q.changes
           effects == authoredEffects(record)
           reveals == Reveals(changes)
           gifts   == Gifts(changes)
           more    == (changes \o reveals) \o effects
           less    == Without(changes, gifts)
           S       == ToSet(changes) \cup ToSet(effects)
           struck  == Struck(S, record)
           own     == Without(changes, struck)
           again   == Without(reveals, struck)
           few     == Without(own, gifts)
<1>1. p \in Purses /\ Whole(changes) /\ Whole(effects)
  <2>1. q.purse \in Purses /\ q.changes \in Replies
    BY DEF Questions
  <2>2. Whole(q.changes)
    BY <2>1, MindAssumption DEF Whole
  <2> QED
    BY <2>1, <2>2, EffectsWhole
<1>2. /\ changes \in Seq(S) /\ effects \in Seq(S) /\ \A e \in S : e.by \in Int
      /\ ToSet(effects) \subseteq S
  <2> HIDE DEF changes, effects
  <2> QED
    BY <1>1 DEF Whole
<1>3. /\ After([q EXCEPT !.changes = @ \o Reveals(@) \o authoredEffects(q.record)]) =
            prepareStateChanges(p, cocConsequencePrepareParsed(more, record, p))
      /\ After([q EXCEPT !.changes = Without(@, Gifts(@))]) =
            prepareStateChanges(p, cocConsequencePrepareParsed(less, record, p))
  <2>1. q = [purse |-> q.purse, changes |-> q.changes, record |-> q.record]
    BY DEF Questions
  <2> HIDE DEF more, less
  <2>2. [q EXCEPT !.changes = more] = [purse |-> p, changes |-> more, record |-> record]
    BY <2>1
  <2>3. [q EXCEPT !.changes = less] = [purse |-> p, changes |-> less, record |-> record]
    BY <2>1
  <2>4. /\ After([q EXCEPT !.changes = more]) =
              prepareStateChanges(p, cocConsequencePrepareParsed(more, record, p))
        /\ After([q EXCEPT !.changes = less]) =
              prepareStateChanges(p, cocConsequencePrepareParsed(less, record, p))
    BY <2>2, <2>3 DEF After
  <2> QED
    BY <2>4 DEF more, less
<1> DEFINE hidden == {c \in ToSet(changes) : c.op # "revealClue"}
<1>4. reveals = Without(changes, hidden)
  BY DEF Reveals
<1>5. \A c \in ToSet(reveals) : c \in ToSet(changes) /\ c.op = "revealClue"
  <2>1. ToSet(Without(changes, hidden)) = ToSet(changes) \ hidden
    <3> HIDE DEF changes, S, hidden
    <3> QED
      BY <1>2, WithoutKept
  <2> QED
    BY <1>4, <2>1
<1>6. reveals \in Seq(S) /\ less \in Seq(S) /\ own \in Seq(S)
  <2> HIDE DEF changes, S, hidden, gifts, struck
  <2> QED
    BY <1>2, <1>4, WithoutType
<1>7. \A c : c \in struck <=>
         /\ c \in S
         /\ \/ effectIdentity(c) \in {effectIdentity(e) : e \in ToSet(effects)}
            \/ unauthorizedPunitive(c)
  BY DEF Struck
<1>8. \A c : c \in gifts <=> c \in ToSet(changes) /\ c.op # "revealClue" /\ c.by > 0
  BY DEF Gifts
<1> HIDE DEF p, record, changes, effects, reveals, gifts, more, less, S, struck, own, again, few
<1>9. more \in Seq(S) /\ Without(more, struck) = own \o again
  <2> DEFINE w == changes \o reveals
  <2>1. w \in Seq(S) /\ more \in Seq(S) /\ more = w \o effects
    BY <1>2, <1>6 DEF more
  <2>2. Without(w, struck) = own \o again
    BY <1>2, <1>6, WithoutConcat DEF own, again
  <2>3. Without(effects, struck) = << >>
    <3>1. ToSet(effects) \subseteq struck /\ effects \in Seq(ToSet(effects))
      BY <1>1, <1>2, <1>7 DEF Whole
    <3> QED
      BY <3>1, WithoutAll
  <2> HIDE DEF w
  <2>4. Without(w \o effects, struck) = Without(w, struck) \o Without(effects, struck)
    BY <1>2, <2>1, WithoutConcat
  <2>5. again \in Seq(S)
    BY <1>6, WithoutType DEF again
  <2>6. (own \o again) \o << >> = own \o again
    BY <1>6, <2>5
  <2> QED
    BY <2>1, <2>2, <2>3, <2>4, <2>6
<1>10. Without(less, struck) = few /\ few \in Seq(S)
  <2>1. Without(less, struck) = Without(changes, gifts \cup struck)
    BY <1>2, WithoutTwice DEF less
  <2>2. few = Without(changes, struck \cup gifts)
    BY <1>2, WithoutTwice DEF few, own
  <2>3. gifts \cup struck = struck \cup gifts
    OBVIOUS
  <2>4. few \in Seq(S)
    BY <1>6, WithoutType DEF few
  <2> QED
    BY <2>1, <2>2, <2>3, <2>4
<1>11. /\ cocConsequencePrepareParsed(more, record, p) = Billed(own \o again, record, p)
       /\ cocConsequencePrepareParsed(less, record, p) = Billed(few, record, p)
  <2>1. cocConsequencePrepareParsed(more, record, p) = Billed(Without(more, struck), record, p)
    BY <1>9, PreparedOwn DEF struck
  <2>2. cocConsequencePrepareParsed(less, record, p) = Billed(Without(less, struck), record, p)
    BY <1>6, PreparedOwn DEF struck
  <2> QED
    BY <1>9, <1>10, <2>1, <2>2
<1>12. /\ ToSet(own) = ToSet(changes) \ struck
       /\ ToSet(again) = ToSet(reveals) \ struck
       /\ ToSet(few) = ToSet(own) \ gifts
       /\ again \in Seq(ToSet(again)) /\ few \in Seq(ToSet(few))
  <2>1. ToSet(own) = ToSet(changes) \ struck
    BY <1>2, WithoutKept DEF own
  <2>2. ToSet(again) = ToSet(reveals) \ struck
    BY <1>6, WithoutKept DEF again
  <2>3. ToSet(few) = ToSet(own) \ gifts
    BY <1>6, WithoutKept DEF few
  <2>4. again \in Seq(S)
    BY <1>6, WithoutType DEF again
  <2>5. \A x \in Seq(S) : x \in Seq(ToSet(x))
    BY Elements DEF ToSet
  <2> QED
    BY <1>10, <2>1, <2>2, <2>3, <2>4, <2>5
<1>13. SameBill((own \o again) \o effects, few \o effects, record)
  <2>1. SameBill(own \o again, own, record)
    <3> DEFINE X == ToSet(again)
    <3>1. X \in SUBSET S /\ again \in Seq(X)
      BY <1>5, <1>12 DEF S
    <3>2. \A e \in X : UsesRoute(e, record) => By(e) \in Used(own, record)
      BY <1>5, <1>12 DEF Used
    <3> HIDE DEF X
    <3> QED
      BY <1>6, <3>1, <3>2, BillIdle
  <2>2. SameBill(few, own, record)
    <3>1. \A e \in S \cap gifts : e.op # "revealClue"
      BY <1>8
    <3> QED
      BY <1>6, <3>1, BillStrike DEF few
  <2> DEFINE w == own \o again
  <2>3. w \in Seq(S)
    BY <1>6, <1>12, WithoutType DEF again
  <2>4. SameBill(w, few, record)
    BY <2>1, <2>2 DEF SameBill
  <2> HIDE DEF w
  <2>5. SameBill(w \o effects, few \o effects, record)
    BY <1>2, <1>10, <2>3, <2>4, BillConcat
  <2> QED
    BY <2>5 DEF w
<1>14. \A c \in ToSet(own) \cup ToSet(again) : c.by \in Int /\ Gentle(c)
  <2>1. ASSUME NEW c \in ToSet(own) \cup ToSet(again) PROVE c.by \in Int /\ Gentle(c)
    <3>1. c \in S /\ c \notin struck
      BY <1>5, <1>12 DEF S
    <3>2. c.by \in Int /\ ~ unauthorizedPunitive(c)
      BY <1>2, <1>7, <3>1
    <3> QED
      BY <3>2 DEF unauthorizedPunitive, Gentle
  <2> QED
    BY <2>1
<1>15. NoWorse(prepareStateChanges(p, own \o again), prepareStateChanges(p, few))
  <2> DEFINE w == own \o again
  <2>1. Whole(w) /\ ToSet(w) = ToSet(own) \cup ToSet(again)
    <3>1. own \in Seq(S) /\ again \in Seq(S)
      BY <1>6, WithoutType DEF again
    <3>2. Whole(own) /\ Whole(again)
      BY <1>2, <3>1, WholeOf
    <3> QED
      BY <3>2, ConcatWhole
  <2>2. \A e \in ToSet(w) : Gentle(e)
    BY <1>14, <2>1
  <2> HIDE DEF w
  <2>3. NoWorse(prepareStateChanges(p, w), p)
    BY <1>1, <2>1, <2>2, GentleChanges
  <2>4. \A e \in ToSet(few) : e.by \in Int /\ TakesNothing(e)
    <3> SUFFICES ASSUME NEW e \in ToSet(few) PROVE e.by \in Int /\ TakesNothing(e)
      OBVIOUS
    <3>1. e \in ToSet(own) /\ e \notin gifts /\ e \in ToSet(changes)
      BY <1>12
    <3>2. e.by \in Int /\ Gentle(e) /\ (e.op = "revealClue" \/ ~ (e.by > 0))
      BY <1>8, <1>14, <3>1
    <3> QED
      BY <3>2 DEF Gentle, TakesNothing
  <2>5. prepareStateChanges(p, few) = p
    <3> DEFINE X == ToSet(few)
    <3>1. few \in Seq(X) /\ \A e \in X : e.by \in Int /\ TakesNothing(e)
      BY <1>12, <2>4
    <3> HIDE DEF X
    <3> QED
      BY <1>1, <3>1, PrepareIdle
  <2> QED
    BY <2>3, <2>5 DEF w
<1>16. NoWorse(prepareStateChanges(p, Billed(own \o again, record, p)),
               prepareStateChanges(p, Billed(few, record, p)))
  <2> DEFINE w == own \o again
  <2>1. w \in Seq(S)
    BY <1>6, WithoutType DEF again
  <2>2. SameBill(w \o effects, few \o effects, record)
        /\ NoWorse(prepareStateChanges(p, w), prepareStateChanges(p, few))
    BY <1>13, <1>15
  <2> HIDE DEF w
  <2>3. NoWorse(prepareStateChanges(p, Billed(w, record, p)),
                prepareStateChanges(p, Billed(few, record, p)))
    BY <1>1, <1>2, <1>10, <2>1, <2>2, SameBillNoWorse DEF effects
  <2> QED
    BY <2>3 DEF w
<1> QED
  BY <1>3, <1>11, <1>16 DEF NothingPaidTwice

(* A check costs what the scenario wrote, and once, for every purse, reply   *)
(* and record: the routes take at most all but one of the hit points of the  *)
(* purse, which is the last one only together with a loss the scenario       *)
(* attached to the check, a success without effects costs nothing, and       *)
(* nothing written twice and no gift is charged                              *)
(* (src/coc-consequence-contract.js:76-89,                                   *)
(* src/failure-forward-cost-engine.js:28-42).                                *)
THEOREM OnlyAuthoredCosts == AskSpec => []CostsHold
<1>1. ASSUME asked \in Questions PROVE CostsHold
  BY <1>1, AuthoredCosts, TwiceIsOnce DEF CostsHold
<1>2. asked \in Questions /\ [UNCHANGED asked]_asked => (asked \in Questions)'
  OBVIOUS
<1> QED
  BY <1>1, <1>2, PTL DEF AskSpec
=============================================================================
