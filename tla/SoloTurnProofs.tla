--------------------------- MODULE SoloTurnProofs ---------------------------
(* The turn of the single-player page, for every scenario and any number of  *)
(* requests: a check is rolled once, a turn answered once, and no more than  *)
(* the last turn is taken back.                                              *)
(*                                                                           *)
(* A game keeps snapshots of itself (rollback, undo), and these theirs, with *)
(* no bound.  So the invariant is about a set of games that holds the game,  *)
(* the saved one and, with each of its members, that one's snapshots.        *)
EXTENDS SoloTurnProperties, SequenceTheorems, WellFoundedInduction, TLAPS

-----------------------------------------------------------------------------
(* Numbers, sequences and recursion *)

(* A set of natural numbers has a least one.                                 *)
LEMMA LeastOf ==
  ASSUME NEW T \in SUBSET Nat, T # {}
  PROVE  \E m \in T : \A n \in T : m <= n
<1> DEFINE R == OpToRel(<, Nat)
<1>1. IsWellFoundedOn(R, Nat)
  BY NatLessThanWellFounded
<1>2. \A m, n \in Nat : n < m => <<n, m>> \in R
  BY DEF OpToRel
<1> HIDE DEF R
<1>3. PICK m \in T : \A n \in T : ~ (<<n, m>> \in R)
  BY <1>1, WFMin
<1>4. m \in Nat /\ \A n \in T : n \in Nat
  OBVIOUS
<1>5. ASSUME NEW n \in T PROVE ~ (n < m)
  BY <1>2, <1>3, <1>4, Zenon
<1>6. \A n \in T : m <= n
  BY <1>4, <1>5
<1> QED
  BY <1>6

(* What holds at 0 and passes from every number to the next holds up to n.   *)
LEMMA UpTo ==
  ASSUME NEW n \in Nat, NEW P, 0 \in P, \A i \in 1..n : i - 1 \in P => i \in P
  PROVE  0..n \subseteq P
<1> DEFINE missed == {i \in 0..n : i \notin P}
<1>1. SUFFICES ASSUME missed # {} PROVE FALSE
  OBVIOUS
<1>2. PICK m \in missed : \A i \in missed : m <= i
  <2>1. missed \in SUBSET Nat
    OBVIOUS
  <2> HIDE DEF missed
  <2> QED
    BY <1>1, <2>1, LeastOf
<1>3. m \in 1..n /\ m - 1 \in 0..n
  BY <1>2
<1>4. m - 1 \in P
  BY <1>2, <1>3
<1> QED
  BY <1>2, <1>3, <1>4

(* Whatever is computed from its predecessor, one step at a time, exists.    *)
Computes(f, m, S, first, step) ==
  /\ f \in [0..m -> S] /\ f[0] = first
  /\ \A i \in 1..m : f[i] = step[i][f[i - 1]]

(* A computation goes on by one step.                                        *)
LEMMA OneMore ==
  ASSUME NEW n \in Nat, NEW S, NEW first \in S, NEW step \in [1..n -> [S -> S]],
         NEW m \in 1..n, NEW f, Computes(f, m - 1, S, first, step)
  PROVE  \E g : Computes(g, m, S, first, step)
<1> DEFINE next == step[m][f[m - 1]]
           g == [i \in 0..m |-> IF i = m THEN next ELSE f[i]]
<1>1. f \in [0..(m - 1) -> S] /\ f[0] = first
  BY DEF Computes
<1>2. next \in S
  BY <1>1
<1> HIDE DEF next
<1>3. g \in [0..m -> S] /\ g[0] = first
  BY <1>1, <1>2
<1>4. ASSUME NEW i \in 1..m PROVE g[i] = step[i][g[i - 1]]
  <2>1. g[i - 1] = f[i - 1]
    OBVIOUS
  <2>2. CASE i = m
    <3>1. g[i] = next
      BY <2>2
    <3> QED
      BY <2>1, <2>2, <3>1 DEF next
  <2>3. CASE i # m
    <3>1. i \in 1..(m - 1) /\ g[i] = f[i]
      BY <2>3
    <3>2. f[i] = step[i][f[i - 1]]
      BY <3>1 DEF Computes
    <3> QED
      BY <2>1, <3>1, <3>2
  <2> QED
    BY <2>2, <2>3
<1>5. Computes(g, m, S, first, step)
  BY <1>3, <1>4 DEF Computes
<1> QED
  BY <1>5

(* A computation from the first value to the last exists.                    *)
LEMMA Iterated ==
  ASSUME NEW n \in Nat, NEW S, NEW first \in S, NEW step \in [1..n -> [S -> S]]
  PROVE  \E f : Computes(f, n, S, first, step)
<1> DEFINE P == {m \in 0..n : \E f : Computes(f, m, S, first, step)}
<1>1. 0 \in P
  <2>1. Computes([i \in 0..0 |-> first], 0, S, first, step)
    BY DEF Computes
  <2> QED
    BY <2>1
<1>2. ASSUME NEW m \in 1..n, m - 1 \in P PROVE m \in P
  <2>1. \E f : Computes(f, m, S, first, step)
    BY <1>2, OneMore
  <2> QED
    BY <2>1
<1> HIDE DEF P
<1>3. 0..n \subseteq P
  BY <1>1, <1>2, UpTo
<1>4. n \in P
  BY <1>3
<1> QED
  BY <1>4 DEF P

(* The elements of a sequence, of a longer one, and of a part.               *)
LEMMA Elements ==
  ASSUME NEW S, NEW s \in Seq(S)
  PROVE  /\ Len(s) \in Nat /\ DOMAIN s = 1..Len(s)
         /\ \A i \in 1..Len(s) : s[i] \in S /\ s[i] \in ToSet(s)
         /\ \A e \in ToSet(s) : e \in S /\ \E i \in 1..Len(s) : s[i] = e
BY DEF ToSet

LEMMA Appended ==
  ASSUME NEW S, NEW s \in Seq(S), NEW e \in S
  PROVE  /\ Append(s, e) \in Seq(S) /\ Len(Append(s, e)) = Len(s) + 1
         /\ Append(s, e)[Len(s) + 1] = e /\ \A i \in 1..Len(s) : Append(s, e)[i] = s[i]
         /\ ToSet(Append(s, e)) = ToSet(s) \cup {e}
<1> DEFINE u == Append(s, e)
           n == Len(s)
<1>1. /\ n \in Nat /\ u \in Seq(S) /\ Len(u) = n + 1 /\ u[n + 1] = e
      /\ \A i \in 1..n : u[i] = s[i]
  OBVIOUS
<1>2. ToSet(s) = {s[i] : i \in 1..n} /\ ToSet(u) = {u[i] : i \in 1..(n + 1)}
  BY <1>1 DEF ToSet
<1>3. \A i \in 1..(n + 1) : i \in 1..n \/ i = n + 1
  BY <1>1
<1>4. n + 1 \in 1..(n + 1) /\ \A i \in 1..n : i \in 1..(n + 1)
  BY <1>1
<1> HIDE DEF u, n
<1>5. ToSet(u) = ToSet(s) \cup {e}
  <2>1. ASSUME NEW x \in ToSet(u) PROVE x \in ToSet(s) \cup {e}
    <3>1. PICK i \in 1..(n + 1) : x = u[i]
      BY <1>2
    <3> QED
      BY <1>1, <1>2, <1>3, <3>1
  <2>2. ASSUME NEW x \in ToSet(s) PROVE x \in ToSet(u)
    <3>1. PICK i \in 1..n : x = s[i]
      BY <1>2
    <3>2. u[i] = x
      BY <1>1, <3>1
    <3> QED
      BY <1>2, <1>4, <3>2
  <2>3. e \in ToSet(u)
    BY <1>1, <1>2, <1>4
  <2> QED
    BY <2>1, <2>2, <2>3
<1> QED
  BY <1>1, <1>5 DEF u, n

(* What is not in a sequence yet can be appended.                            *)
LEMMA AppendedOnce ==
  ASSUME NEW S, NEW s \in Seq(S), NEW e \in S, IsInjective(s), e \notin ToSet(s)
  PROVE  IsInjective(Append(s, e))
<1> DEFINE u == Append(s, e)
           n == Len(s)
<1>1. /\ n \in Nat /\ DOMAIN s = 1..n /\ u[n + 1] = e /\ DOMAIN u = 1..(n + 1)
      /\ \A i \in 1..n : u[i] = s[i] /\ s[i] \in ToSet(s)
  BY Elements, Appended
<1> HIDE DEF u, n
<1>2. \A i \in 1..(n + 1) : i \in 1..n \/ i = n + 1
  BY <1>1
<1>3. \A i, j \in 1..n : s[i] = s[j] => i = j
  BY <1>1 DEF IsInjective
<1>4. \A i, j \in 1..(n + 1) : u[i] = u[j] => i = j
  BY <1>1, <1>2, <1>3
<1> QED
  BY <1>1, <1>4 DEF IsInjective, u

(* A beginning is a beginning of what it begins, and of what goes on.        *)
LEMMA PrefixMeans ==
  ASSUME NEW S, NEW s \in Seq(S), NEW u \in Seq(S)
  PROVE  IsPrefix(s, u) <=> Len(s) <= Len(u) /\ \A i \in 1..Len(s) : s[i] = u[i]
<1>1. ASSUME Len(s) <= Len(u)
      PROVE  /\ Len(SubSeq(s, 1, Len(s))) = Len(s) /\ Len(SubSeq(u, 1, Len(s))) = Len(s)
             /\ \A i \in 1..Len(s) : SubSeq(s, 1, Len(s))[i] = s[i]
             /\ \A i \in 1..Len(s) : SubSeq(u, 1, Len(s))[i] = u[i]
             /\ SubSeq(s, 1, Len(s)) \in Seq(S) /\ SubSeq(u, 1, Len(s)) \in Seq(S)
  BY <1>1
<1>2. Len(s) \in Nat /\ Len(u) \in Nat
  OBVIOUS
<1>3. ASSUME IsPrefix(s, u) PROVE \A i \in 1..Len(s) : s[i] = u[i]
  <2>1. Len(s) <= Len(u) /\ SubSeq(s, 1, Len(s)) = SubSeq(u, 1, Len(s))
    BY <1>3 DEF IsPrefix
  <2> QED
    BY <1>1, <2>1
<1>4. ASSUME Len(s) <= Len(u), \A i \in 1..Len(s) : s[i] = u[i] PROVE IsPrefix(s, u)
  <2> DEFINE a == SubSeq(s, 1, Len(s))
             b == SubSeq(u, 1, Len(s))
  <2>1. a \in Seq(S) /\ b \in Seq(S) /\ Len(a) = Len(b) /\ \A i \in 1..Len(a) : a[i] = b[i]
    BY <1>1, <1>4
  <2> HIDE DEF a, b
  <2>2. a = b
    BY <2>1
  <2> QED
    BY <1>4, <2>2 DEF IsPrefix, a, b
<1>5. IsPrefix(s, u) => Len(s) <= Len(u)
  BY DEF IsPrefix
<1> QED
  BY <1>3, <1>4, <1>5

LEMMA PrefixOfSelf ==
  ASSUME NEW S, NEW s \in Seq(S), NEW e \in S
  PROVE  IsPrefix(s, s) /\ IsPrefix(s, Append(s, e))
<1>1. Append(s, e) \in Seq(S) /\ Len(s) \in Nat /\ Len(s) <= Len(s)
      /\ Len(s) <= Len(Append(s, e)) /\ \A i \in 1..Len(s) : Append(s, e)[i] = s[i]
  OBVIOUS
<1> QED
  BY <1>1, PrefixMeans

LEMMA PrefixOfPrefix ==
  ASSUME NEW S, NEW s \in Seq(S), NEW u \in Seq(S), NEW v \in Seq(S), IsPrefix(s, u), IsPrefix(u, v)
  PROVE  IsPrefix(s, v)
<1>1. /\ Len(s) <= Len(u) /\ \A i \in 1..Len(s) : s[i] = u[i]
      /\ Len(u) <= Len(v) /\ \A i \in 1..Len(u) : u[i] = v[i]
      /\ Len(s) \in Nat /\ Len(u) \in Nat /\ Len(v) \in Nat
  BY PrefixMeans
<1>2. Len(s) <= Len(v) /\ \A i \in 1..Len(s) : s[i] = v[i]
  BY <1>1
<1> QED
  BY <1>2, PrefixMeans

(* The story up to its last turn is a beginning of it; it moves on with a    *)
(* turn and stays with everything else that is told.                         *)
LEMMA BeforeLastTurnFacts ==
  ASSUME NEW S, NEW s \in Seq(S)
  PROVE  BeforeLastTurn(s) \in Seq(S) /\ IsPrefix(BeforeLastTurn(s), s)
<1> DEFINE i == CHOOSE i \in LastTurn(s) : TRUE
           b == SubSeq(s, 1, i - 1)
<1>1. Len(s) \in Nat
  OBVIOUS
<1>2. CASE LastTurn(s) = {}
  <2> DEFINE o == << >>
  <2>1. o \in Seq(S) /\ Len(o) = 0
    OBVIOUS
  <2>2. BeforeLastTurn(s) = o
    BY <1>2 DEF BeforeLastTurn
  <2> HIDE DEF o
  <2>3. IsPrefix(o, s)
    <3>1. Len(o) <= Len(s) /\ \A j \in 1..Len(o) : o[j] = s[j]
      BY <1>1, <2>1
    <3> QED
      BY <2>1, <3>1, PrefixMeans
  <2> QED
    BY <2>1, <2>2, <2>3
<1>3. CASE LastTurn(s) # {}
  <2>1. i \in LastTurn(s)
    BY <1>3
  <2>2. i \in 1..Len(s)
    BY <2>1 DEF LastTurn
  <2> HIDE DEF i
  <2>3. b \in Seq(S) /\ Len(b) = i - 1 /\ \A j \in 1..(i - 1) : b[j] = s[j]
    BY <1>1, <2>2
  <2>4. BeforeLastTurn(s) = b
    BY <1>3 DEF BeforeLastTurn, i
  <2> HIDE DEF b
  <2>5. IsPrefix(b, s)
    BY <1>1, <2>2, <2>3, PrefixMeans
  <2> QED
    BY <2>3, <2>4, <2>5
<1> QED
  BY <1>2, <1>3

LEMMA BeforeLastTurnAppended ==
  ASSUME NEW S, NEW s \in Seq(S), NEW e \in S
  PROVE  /\ e[1] = "turn" => BeforeLastTurn(Append(s, e)) = s
         /\ e[1] # "turn" => BeforeLastTurn(Append(s, e)) = BeforeLastTurn(s)
<1> DEFINE u == Append(s, e)
           n == Len(s)
<1>1. /\ n \in Nat /\ u \in Seq(S) /\ Len(u) = n + 1 /\ u[n + 1] = e
      /\ DOMAIN s = 1..n /\ DOMAIN u = 1..(n + 1) /\ \A i \in 1..n : u[i] = s[i]
  BY Elements, Appended
<1>2. \A i \in 1..n : SubSeq(u, 1, i - 1) = SubSeq(s, 1, i - 1)
  <2> SUFFICES ASSUME NEW i \in 1..n PROVE SubSeq(u, 1, i - 1) = SubSeq(s, 1, i - 1)
    OBVIOUS
  <2> DEFINE a == SubSeq(u, 1, i - 1)
             b == SubSeq(s, 1, i - 1)
  <2> HIDE DEF u, n
  <2>1. /\ a \in Seq(S) /\ Len(a) = i - 1 /\ \A j \in 1..(i - 1) : a[j] = u[j]
        /\ b \in Seq(S) /\ Len(b) = i - 1 /\ \A j \in 1..(i - 1) : b[j] = s[j]
    BY <1>1 DEF n
  <2>2. \A j \in 1..(i - 1) : a[j] = b[j]
    BY <1>1, <2>1
  <2> HIDE DEF a, b
  <2> QED
    BY <2>1, <2>2
<1>3. SubSeq(u, 1, n) = s
  <2> DEFINE a == SubSeq(u, 1, n)
  <2> HIDE DEF u
  <2>1. a \in Seq(S) /\ Len(a) = n /\ \A j \in 1..n : a[j] = u[j]
    BY <1>1
  <2>2. \A j \in 1..n : a[j] = s[j]
    BY <1>1, <2>1
  <2> HIDE DEF a
  <2> QED
    BY <1>1, <2>1, <2>2
<1> HIDE DEF u, n
<1>4. ASSUME e[1] = "turn" PROVE BeforeLastTurn(u) = s
  <2>1. \A i \in 1..n : i + 1 <= n + 1 /\ n + 1 \in (i + 1)..(n + 1)
    BY <1>1
  <2>2. n + 1 \in 1..(n + 1) /\ (n + 1) + 1 > n + 1 /\ \A i \in 1..(n + 1) : i \in 1..n \/ i = n + 1
    BY <1>1
  <2>3. LastTurn(u) = {n + 1}
    BY <1>1, <1>4, <2>1, <2>2 DEF LastTurn
  <2>4. (n + 1) - 1 = n
    BY <1>1
  <2> QED
    BY <1>3, <2>3, <2>4 DEF BeforeLastTurn
<1>5. ASSUME e[1] # "turn" PROVE BeforeLastTurn(u) = BeforeLastTurn(s)
  <2>1. ASSUME NEW i \in LastTurn(u) PROVE i \in LastTurn(s)
    <3>1. i \in 1..(n + 1) /\ u[i][1] = "turn" /\ \A j \in (i + 1)..(n + 1) : u[j][1] # "turn"
      BY <1>1 DEF LastTurn
    <3>2. i \in 1..n
      BY <1>1, <1>5, <3>1
    <3>3. \A j \in (i + 1)..n : j \in (i + 1)..(n + 1) /\ j \in 1..n
      BY <1>1, <3>2
    <3> QED
      BY <1>1, <3>1, <3>2, <3>3 DEF LastTurn, n
  <2>2. ASSUME NEW i \in LastTurn(s) PROVE i \in LastTurn(u)
    <3>1. i \in 1..n /\ s[i][1] = "turn" /\ \A j \in (i + 1)..n : s[j][1] # "turn"
      BY <1>1 DEF LastTurn, n
    <3>2. i \in 1..(n + 1) /\ \A j \in (i + 1)..(n + 1) : j = n + 1 \/ (j \in (i + 1)..n /\ j \in 1..n)
      BY <1>1, <3>1
    <3>3. \A j \in (i + 1)..(n + 1) : u[j][1] # "turn"
      BY <1>1, <1>5, <3>1, <3>2
    <3> QED
      BY <1>1, <3>1, <3>2, <3>3 DEF LastTurn
  <2>3. LastTurn(u) = LastTurn(s)
    BY <2>1, <2>2
  <2>4. \A i \in LastTurn(s) : i \in 1..n
    BY <1>1 DEF LastTurn
  <2> QED
    BY <1>2, <2>3, <2>4 DEF BeforeLastTurn
<1> QED
  BY <1>4, <1>5 DEF u

-----------------------------------------------------------------------------
(* The invariant *)

(* What has been numbered before n: requests, turns, the keeper's checks.    *)
Past(n) == 1..(n - 1)
Marks(n) == NodeCheckIds \cup Past(n)

Checks(n) == [id : Marks(n), on : {"enter", "action", "ai"}, mandatory : BOOLEAN, secret : BOOLEAN]
Failures(n) == [kind : {"action", "continuation"}, turn : Past(n) \cup {None},
                rec : Marks(n) \cup {None}, soft : BOOLEAN]
Events(n) == {"turn", "reply", "continued", "hint"} \X (Marks(n) \cup {None})

(* The games whose snapshots are in K.                                       *)
Games(K, n) ==
  [phase : Phases, active : Past(n) \cup {None}, check : Checks(n) \cup {None},
   queue : Seq(Checks(n)), chain : Nat, triggered : SUBSET NodeCheckIds, node : Nodes,
   proposal : Nodes \cup {None}, ending : BOOLEAN, action : Past(n) \cup {None},
   failed : Failures(n) \cup {None}, last : Marks(n) \cup {None}, rolled : Seq(Marks(n)),
   story : Seq(Events(n)), summary : BOOLEAN, hinting : BOOLEAN,
   rollback : [turn : Past(n), game : K] \cup {None},
   undo : [committed : BOOLEAN, data : K] \cup {None}]

Wires(n) ==
  [id : Past(n), kind : {"action", "continuation", "hint", "summary"}, stage : {"first", "repair"},
   rec : Marks(n) \cup {None}, turn : Past(n) \cup {None}, stale : BOOLEAN]

(* The checks a game has rolled, asks for or has in its queue; what it told. *)
Called(g, x) ==
  \/ x \in ToSet(g.rolled)
  \/ g.check # None /\ x = g.check.id
  \/ \E i \in DOMAIN g.queue : x = g.queue[i].id
Told(g, what, x) == <<what, x>> \in ToSet(g.story)

(* A check is called once: rolled, asked for or in the queue, and no check   *)
(* of a node before it was marked.                                           *)
RolledOnce(g) ==
  /\ IsInjective(g.rolled)
  /\ g.check # None => g.check.id \notin ToSet(g.rolled)
  /\ \A i \in DOMAIN g.queue :
       /\ g.queue[i].id \notin ToSet(g.rolled)
       /\ g.check # None => g.queue[i].id # g.check.id
       /\ \A j \in DOMAIN g.queue : g.queue[i].id = g.queue[j].id => i = j
  /\ \A c \in NodeCheckIds : Called(g, c) => c \in g.triggered

(* A snapshot has at least what was told before the last turn.               *)
TakesBack(g) ==
  /\ g.rollback # None => IsPrefix(BeforeLastTurn(g.story), g.rollback.game.story)
  /\ g.undo # None => IsPrefix(BeforeLastTurn(g.story), g.undo.data.story)

(* What may still be answered has not been: the failure that waits for a     *)
(* retry, and the request a saved game had under way.                        *)
Settled(g) ==
  /\ IsInjective(g.story) /\ ~ Told(g, "reply", None)
  /\ \A r \in NodeCheckIds \cup Nat : Told(g, "continued", r) => r \in ToSet(g.rolled)
  /\ g.failed # None /\ g.failed.kind = "continuation" => ~ Told(g, "continued", g.failed.rec)
AnswersOnce(g) ==
  /\ Settled(g)
  /\ g.phase = "error" /\ g.failed # None /\ g.failed.kind = "action" =>
       ~ Told(g, "reply", g.failed.turn)
  /\ g.phase = "requesting_ai_continuation" /\ g.last # None => ~ Told(g, "continued", g.last)
  /\ g.phase = "requesting_ai" /\ g.action # None => ~ Told(g, "reply", g.action)

(* No game has used the id of the request under way.                         *)
Apart(g, w) == w # None => ~ Called(g, w.id) /\ ~ Told(g, "hint", w.id)

(* The request under way asks for what has not been answered.                *)
Awaits(g, w) ==
  w # None =>
    /\ w.kind = "action" => w.turn # None /\ ~ Told(g, "reply", w.turn)
    /\ w.kind = "continuation" => w.rec \in ToSet(g.rolled) /\ ~ Told(g, "continued", w.rec)
    /\ w.kind = "summary" => g.action = None /\ g.rollback = None

(* A page s (game, wire, timer, fresh) beside the games of K.                *)
Fits(K, n, w, g) == g \in Games(K, n) /\ RolledOnce(g) /\ TakesBack(g) /\ Apart(g, w)
Sound(K, s) ==
  /\ s = [g |-> s.g, w |-> s.w, t |-> s.t, n |-> s.n]
  /\ s.w \in Wires(s.n) \cup {None} /\ s.t \in BOOLEAN /\ s.n \in Nat \ {0}
  /\ \A g \in K \cup {s.g} : Fits(K, s.n, s.w, g)
Answering(K, s) == (\A g \in K \cup {s.g} : AnswersOnce(g)) /\ Awaits(s.g, s.w)

TurnInv ==
  \E K : /\ game \in K /\ disk \in K /\ Sound(K, Page) /\ fresh <= MaxIds + 1
         /\ ~ strayed => Answering(K, Page)

-----------------------------------------------------------------------------
(* More ids and more snapshots *)

LEMMA SeqGrows ==
  ASSUME NEW S, NEW T, S \subseteq T
  PROVE  Seq(S) \subseteq Seq(T)
OBVIOUS

LEMMA TypesGrow ==
  ASSUME NEW n \in Nat, NEW m \in Nat, n <= m
  PROVE  /\ Past(n) \subseteq Past(m) /\ Marks(n) \subseteq Marks(m) /\ Checks(n) \subseteq Checks(m)
         /\ Failures(n) \subseteq Failures(m) /\ Events(n) \subseteq Events(m)
         /\ Wires(n) \subseteq Wires(m)
<1>1. Past(n) \subseteq Past(m)
  BY DEF Past
<1>2. Marks(n) \subseteq Marks(m)
  BY <1>1 DEF Marks
<1>3. Checks(n) \subseteq Checks(m)
  BY <1>2 DEF Checks
<1>4. Failures(n) \subseteq Failures(m)
  BY <1>1, <1>2 DEF Failures
<1>5. Events(n) \subseteq Events(m)
  BY <1>2 DEF Events
<1>6. Wires(n) \subseteq Wires(m)
  BY <1>1, <1>2 DEF Wires
<1> QED
  BY <1>1, <1>2, <1>3, <1>4, <1>5, <1>6

LEMMA GamesGrow ==
  ASSUME NEW K, NEW L, K \subseteq L, NEW n \in Nat, NEW m \in Nat, n <= m
  PROVE  Games(K, n) \subseteq Games(L, m)
<1>1. /\ Past(n) \subseteq Past(m) /\ Marks(n) \subseteq Marks(m) /\ Checks(n) \subseteq Checks(m)
      /\ Failures(n) \subseteq Failures(m)
  BY TypesGrow
<1>2. /\ Seq(Checks(n)) \subseteq Seq(Checks(m)) /\ Seq(Marks(n)) \subseteq Seq(Marks(m))
      /\ Seq(Events(n)) \subseteq Seq(Events(m))
  BY TypesGrow, SeqGrows
<1>3. [turn : Past(n), game : K] \subseteq [turn : Past(m), game : L]
  BY <1>1
<1>4. [committed : BOOLEAN, data : K] \subseteq [committed : BOOLEAN, data : L]
  OBVIOUS
<1> QED
  BY <1>1, <1>2, <1>3, <1>4 DEF Games

(* The fields of a game.                                                     *)
LEMMA GameFields ==
  ASSUME NEW K, NEW n, NEW g \in Games(K, n)
  PROVE  /\ g.phase \in Phases /\ g.active \in Past(n) \cup {None} /\ g.check \in Checks(n) \cup {None}
         /\ g.queue \in Seq(Checks(n)) /\ g.chain \in Nat /\ g.triggered \in SUBSET NodeCheckIds
         /\ g.node \in Nodes /\ g.proposal \in Nodes \cup {None} /\ g.ending \in BOOLEAN
         /\ g.action \in Past(n) \cup {None} /\ g.failed \in Failures(n) \cup {None}
         /\ g.last \in Marks(n) \cup {None} /\ g.rolled \in Seq(Marks(n)) /\ g.story \in Seq(Events(n))
         /\ g.summary \in BOOLEAN /\ g.hinting \in BOOLEAN
         /\ g.rollback \in [turn : Past(n), game : K] \cup {None}
         /\ g.undo \in [committed : BOOLEAN, data : K] \cup {None}
BY DEF Games

LEMMA FreshIds ==
  ASSUME NEW n \in Nat \ {0}
  PROVE  /\ n \in Nat /\ n + 1 \in Nat \ {0} /\ n <= n + 1 /\ n \in Past(n + 1) /\ n \in Marks(n + 1)
         /\ n \notin Marks(n) /\ Past(n) \subseteq Nat /\ None \notin Past(n) /\ n # None
         /\ Marks(n) \subseteq NodeCheckIds \cup Nat
BY ScenarioAssumption DEF Past, Marks

LEMMA CalledMarks ==
  ASSUME NEW K, NEW n, NEW g \in Games(K, n), NEW x, Called(g, x)
  PROVE  x \in Marks(n)
<1>1. g.rolled \in Seq(Marks(n)) /\ g.queue \in Seq(Checks(n)) /\ g.check \in Checks(n) \cup {None}
  BY GameFields
<1>2. CASE x \in ToSet(g.rolled)
  BY <1>1, <1>2, Elements
<1>3. CASE g.check # None /\ x = g.check.id
  BY <1>1, <1>3 DEF Checks
<1>4. CASE \E i \in DOMAIN g.queue : x = g.queue[i].id
  <2>1. PICK i \in DOMAIN g.queue : x = g.queue[i].id
    BY <1>4
  <2>2. g.queue[i] \in Checks(n)
    BY <1>1, <2>1, Elements
  <2> QED
    BY <2>1, <2>2 DEF Checks
<1> QED
  BY <1>2, <1>3, <1>4 DEF Called

LEMMA ToldMarks ==
  ASSUME NEW K, NEW n, NEW g \in Games(K, n), NEW what, NEW x, Told(g, what, x)
  PROVE  x \in Marks(n) \cup {None}
<1>1. g.story \in Seq(Events(n))
  BY GameFields
<1>2. <<what, x>> \in Events(n)
  BY <1>1, Elements DEF Told
<1> QED
  BY <1>2 DEF Events

LEMMA FreshUnused ==
  ASSUME NEW K, NEW n \in Nat \ {0}, NEW g \in Games(K, n)
  PROVE  ~ Called(g, n) /\ \A what : ~ Told(g, what, n)
BY CalledMarks, ToldMarks, FreshIds

-----------------------------------------------------------------------------
(* Pages *)

LEMMA PageFields ==
  ASSUME NEW K, NEW s, Sound(K, s)
  PROVE  /\ s.n \in Nat \ {0} /\ s.t \in BOOLEAN /\ s.w \in Wires(s.n) \cup {None}
         /\ Fits(K, s.n, s.w, s.g) /\ s.g \in Games(K, s.n)
         /\ s = [g |-> s.g, w |-> s.w, t |-> s.t, n |-> s.n]
BY DEF Sound, Fits

LEMMA PutSound ==
  ASSUME NEW K, NEW s, NEW g, Sound(K, s), Fits(K, s.n, s.w, g)
  PROVE  /\ Sound(K, Put(s, g)) /\ Put(s, g) = [g |-> g, w |-> s.w, t |-> s.t, n |-> s.n]
         /\ Answering(K, s) /\ AnswersOnce(g) /\ Awaits(g, s.w) => Answering(K, Put(s, g))
<1>1. Put(s, g) = [g |-> g, w |-> s.w, t |-> s.t, n |-> s.n]
  BY DEF Sound, Put
<1> DEFINE p == Put(s, g)
<1>2. p.g = g /\ p.w = s.w /\ p.t = s.t /\ p.n = s.n
  BY <1>1
<1>3. p = [g |-> p.g, w |-> p.w, t |-> p.t, n |-> p.n]
  BY <1>1
<1> HIDE DEF p
<1>4. Sound(K, p)
  BY <1>2, <1>3 DEF Sound
<1>5. Answering(K, s) /\ AnswersOnce(g) /\ Awaits(g, s.w) => Answering(K, p)
  BY <1>2 DEF Answering
<1> QED
  BY <1>1, <1>4, <1>5 DEF p

LEMMA BumpSound ==
  ASSUME NEW K, NEW s, Sound(K, s)
  PROVE  /\ Sound(K, bumpRevision(s)) /\ bumpRevision(s).g = s.g /\ bumpRevision(s).n = s.n
         /\ s.w = None => bumpRevision(s) = s
         /\ Answering(K, s) => Answering(K, bumpRevision(s))
<1>1. CASE s.w = None
  BY <1>1 DEF bumpRevision
<1>2. CASE s.w # None
  <2> DEFINE v == [s.w EXCEPT !.stale = TRUE]
             p == bumpRevision(s)
  <2>1. s.w \in Wires(s.n)
    BY <1>2 DEF Sound
  <2>2. /\ v \in Wires(s.n) /\ v.id = s.w.id /\ v.kind = s.w.kind /\ v.turn = s.w.turn
        /\ v.rec = s.w.rec
    BY <2>1 DEF Wires
  <2> HIDE DEF v
  <2>3. p = [g |-> s.g, w |-> v, t |-> s.t, n |-> s.n]
    BY <1>2 DEF bumpRevision, v, Sound
  <2> HIDE DEF p
  <2>4. \A g : Apart(g, s.w) => Apart(g, v)
    BY <1>2, <2>2 DEF Apart
  <2>5. \A g : Awaits(g, s.w) => Awaits(g, v)
    BY <1>2, <2>2 DEF Awaits
  <2>6. Sound(K, p)
    BY <2>2, <2>3, <2>4 DEF Sound, Fits
  <2>7. Answering(K, s) => Answering(K, p)
    BY <2>3, <2>5 DEF Answering
  <2> QED
    BY <1>2, <2>3, <2>6, <2>7 DEF p
<1> QED
  BY <1>1, <1>2

LEMMA SendSound ==
  ASSUME NEW K, NEW s, NEW kind, NEW phase, NEW rec, NEW turn, Sound(K, s),
         kind \in {"action", "continuation", "hint", "summary"}, phase \in Phases,
         rec \in Marks(s.n) \cup {None}, turn \in Past(s.n) \cup {None}
  PROVE  /\ Sound(K, Send(s, kind, phase, rec, turn))
         /\ Send(s, kind, phase, rec, turn).n = s.n + 1
<1> DEFINE n == s.n
           v == Request(kind, n, rec, turn)
           g == [s.g EXCEPT !.active = n, !.phase = phase]
           p == Send(s, kind, phase, rec, turn)
<1>1. n \in Nat \ {0} /\ s = [g |-> s.g, w |-> s.w, t |-> s.t, n |-> n]
  BY PageFields
<1>2. p = [g |-> g, w |-> v, t |-> s.t, n |-> n + 1]
  BY <1>1 DEF Send
<1> HIDE DEF n
<1>3. v \in Wires(n + 1) /\ v.id = n
  BY <1>1, FreshIds, TypesGrow DEF Wires, Request, n
<1>4. ASSUME NEW h \in K \cup {s.g}
      PROVE  /\ h \in Games(K, n) /\ h \in Games(K, n + 1) /\ RolledOnce(h) /\ TakesBack(h)
             /\ ~ Called(h, n) /\ ~ Told(h, "hint", n)
  <2>1. h \in Games(K, n) /\ RolledOnce(h) /\ TakesBack(h)
    BY DEF Sound, Fits, n
  <2>2. h \in Games(K, n + 1)
    BY <1>1, <2>1, FreshIds, GamesGrow
  <2> QED
    BY <1>1, <2>1, <2>2, FreshUnused
<1>5. /\ g \in Games(K, n + 1) /\ g.rolled = s.g.rolled /\ g.check = s.g.check /\ g.queue = s.g.queue
      /\ g.story = s.g.story /\ g.rollback = s.g.rollback /\ g.undo = s.g.undo
      /\ g.triggered = s.g.triggered
  <2>1. s.g \in Games(K, n + 1) /\ n \in Past(n + 1)
    BY <1>1, <1>4, FreshIds
  <2> QED
    BY <2>1 DEF Games
<1> HIDE DEF g, v, p
<1>6. RolledOnce(g) /\ TakesBack(g) /\ ~ Called(g, n) /\ ~ Told(g, "hint", n)
  BY <1>4, <1>5 DEF RolledOnce, TakesBack, Called, Told
<1>7. \A h \in K \cup {g} : Fits(K, n + 1, v, h)
  BY <1>3, <1>4, <1>5, <1>6 DEF Fits, Apart
<1>8. s.t \in BOOLEAN
  BY PageFields
<1>9. Sound(K, p)
  BY <1>1, <1>2, <1>3, <1>7, <1>8, FreshIds DEF Sound
<1> QED
  BY <1>2, <1>9 DEF n, g, v, p

-----------------------------------------------------------------------------
(* What a handler changes in a game *)

(* Nothing is rolled or told, no snapshot is taken.                          *)
Quiet(g, h) ==
  /\ h.rolled = g.rolled /\ h.story = g.story /\ g.triggered \subseteq h.triggered
  /\ h.check \in {g.check, None} /\ h.queue \in {g.queue, << >>}
  /\ h.rollback \in {g.rollback, None} /\ h.undo \in {g.undo, None}

(* Nothing is told, no failure recorded and no request sent.                 *)
Waiting == Phases \ {"error", "requesting_ai", "requesting_ai_continuation"}
Calm(g, h) ==
  /\ h.story = g.story /\ ToSet(g.rolled) \subseteq ToSet(h.rolled)
  /\ h.failed \in {g.failed, None} /\ h.last \in {g.last, None} /\ h.action \in {g.action, None}
  /\ h.rollback \in {g.rollback, None} /\ h.phase \in {g.phase} \cup Waiting

LEMMA QuietFits ==
  ASSUME NEW K, NEW n, NEW w, NEW g, NEW h, Fits(K, n, w, g), h \in Games(K, n), Quiet(g, h)
  PROVE  Fits(K, n, w, h)
<1>1. \A x : Called(h, x) => Called(g, x)
  BY DEF Quiet, Called
<1>2. RolledOnce(h)
  <2>1. DOMAIN << >> = {}
    OBVIOUS
  <2>2. \A c \in NodeCheckIds : Called(h, c) => c \in h.triggered
    BY <1>1 DEF Quiet, Fits, RolledOnce
  <2>3. CASE h.queue = g.queue
    BY <2>2, <2>3 DEF Quiet, Fits, RolledOnce
  <2>4. CASE h.queue = << >>
    BY <2>1, <2>2, <2>4 DEF Quiet, Fits, RolledOnce
  <2> QED
    BY <2>3, <2>4 DEF Quiet
<1>3. TakesBack(h)
  BY DEF Quiet, Fits, TakesBack
<1>4. Apart(h, w)
  BY <1>1 DEF Quiet, Fits, Apart, Told
<1> QED
  BY <1>2, <1>3, <1>4 DEF Fits

LEMMA CalmAnswers ==
  ASSUME NEW g, NEW h, NEW w, Calm(g, h)
  PROVE  (AnswersOnce(g) => AnswersOnce(h)) /\ (Awaits(g, w) => Awaits(h, w))
<1>1. AnswersOnce(g) => AnswersOnce(h)
  BY DEF Calm, Waiting, AnswersOnce, Settled, Told
<1>2. Awaits(g, w) => Awaits(h, w)
  BY DEF Calm, Awaits, Told
<1> QED
  BY <1>1, <1>2

(* A check that may be asked for or rolled.                                  *)
Callable(n, w, g, x) ==
  /\ x \in Marks(n) /\ ~ Called(g, x) /\ (x \in NodeCheckIds => x \in g.triggered)
  /\ (w # None => x # w.id)

LEMMA AskFits ==
  ASSUME NEW K, NEW n, NEW w, NEW g, Fits(K, n, w, g), NEW c \in Checks(n), Callable(n, w, g, c.id)
  PROVE  Fits(K, n, w, AskCheck(g, c)) /\ Calm(g, AskCheck(g, c))
<1> DEFINE h == AskCheck(g, c)
<1>1. /\ h \in Games(K, n) /\ h.rolled = g.rolled /\ h.story = g.story /\ h.triggered = g.triggered
      /\ h.check = c /\ h.queue = g.queue /\ h.rollback = g.rollback /\ h.undo = g.undo
      /\ h.failed = g.failed /\ h.last = g.last /\ h.action = g.action /\ h.phase = "awaiting_check"
  <2>1. "awaiting_check" \in Phases
    BY DEF Phases
  <2>2. h \in Games(K, n)
    BY <2>1, ZenonT(30) DEF Fits, Games, AskCheck
  <2> QED
    BY <2>2 DEF Fits, Games, AskCheck
<1> HIDE DEF h
<1>2. \A x : Called(h, x) => Called(g, x) \/ x = c.id
  BY <1>1 DEF Called
<1>3. c.id \notin ToSet(g.rolled) /\ \A i \in DOMAIN g.queue : g.queue[i].id # c.id
  BY DEF Callable, Called
<1>4. RolledOnce(h)
  <2>1. \A x \in NodeCheckIds : Called(h, x) => x \in h.triggered
    BY <1>1, <1>2 DEF Fits, RolledOnce, Callable
  <2> QED
    BY <1>1, <1>3, <2>1 DEF Fits, RolledOnce
<1>5. TakesBack(h)
  BY <1>1 DEF Fits, TakesBack
<1>6. Apart(h, w)
  BY <1>1, <1>2 DEF Fits, Apart, Callable, Told
<1>7. Calm(g, h)
  BY <1>1 DEF Calm, Waiting, Phases
<1> QED
  BY <1>1, <1>4, <1>5, <1>6, <1>7 DEF Fits, h

(* A check is rolled: one that may be called, or the one that was asked for. *)
LEMMA RollFits ==
  ASSUME NEW K, NEW n, NEW w, NEW g, NEW x, NEW h,
         Fits(K, n, w, g), x \in Marks(n), h \in Games(K, n), h.rolled = Append(g.rolled, x),
         h.story = g.story, h.triggered = g.triggered, h.queue = g.queue, h.rollback = g.rollback, h.undo = g.undo,
         \/ h.check = g.check /\ Callable(n, w, g, x)
         \/ h.check = None /\ g.check # None /\ x = g.check.id
  PROVE  /\ Fits(K, n, w, h) /\ x \notin ToSet(g.rolled)
         /\ AnswersOnce(g) => ~ Told(g, "continued", x) \/ x \notin NodeCheckIds \cup Nat
<1>1. g.rolled \in Seq(Marks(n)) /\ ToSet(h.rolled) = ToSet(g.rolled) \cup {x}
  BY GameFields, Appended DEF Fits
<1>2. /\ x \notin ToSet(g.rolled) /\ \A i \in DOMAIN g.queue : g.queue[i].id # x
      /\ h.check # None => h.check.id # x
      /\ x \in NodeCheckIds => x \in g.triggered
      /\ w # None => x # w.id
  <2>1. CASE h.check = g.check /\ Callable(n, w, g, x)
    BY <2>1 DEF Callable, Called
  <2>2. CASE h.check = None /\ g.check # None /\ x = g.check.id
    <3>1. Called(g, x)
      BY <2>2 DEF Called
    <3> QED
      BY <2>2, <3>1 DEF Fits, RolledOnce, Apart
  <2> QED
    BY <2>1, <2>2
<1>3. IsInjective(h.rolled)
  BY <1>1, <1>2, AppendedOnce DEF Fits, RolledOnce
<1>4. h.check \in {g.check, None}
  OBVIOUS
<1>5. \A y : Called(h, y) => Called(g, y) \/ y = x
  BY <1>1, <1>4 DEF Called
<1>6. RolledOnce(h)
  <2>1. \A y \in NodeCheckIds : Called(h, y) => y \in h.triggered
    BY <1>2, <1>5 DEF Fits, RolledOnce
  <2>2. h.check # None => h.check.id \notin ToSet(h.rolled)
    BY <1>1, <1>2, <1>4 DEF Fits, RolledOnce
  <2> QED
    BY <1>1, <1>2, <1>3, <1>4, <2>1, <2>2 DEF Fits, RolledOnce
<1>7. TakesBack(h)
  BY DEF Fits, TakesBack
<1>8. Apart(h, w)
  BY <1>2, <1>5 DEF Fits, Apart, Told
<1>9. AnswersOnce(g) => ~ Told(g, "continued", x) \/ x \notin NodeCheckIds \cup Nat
  BY <1>2 DEF AnswersOnce, Settled
<1> QED
  BY <1>1, <1>2, <1>6, <1>7, <1>8, <1>9 DEF Fits

LEMMA RollSecretSound ==
  ASSUME NEW K, NEW s, Sound(K, s), NEW c \in Checks(s.n), Callable(s.n, s.w, s.g, c.id)
  PROVE  /\ Sound(K, RollSecret(s, c)) /\ RollSecret(s, c).n = s.n
         /\ RollSecret(s, c).g = [s.g EXCEPT !.rolled = Append(@, c.id)]
         /\ ToSet(RollSecret(s, c).g.rolled) = ToSet(s.g.rolled) \cup {c.id}
         /\ Answering(K, s) => Answering(K, RollSecret(s, c)) /\ ~ Told(s.g, "continued", c.id)
<1> DEFINE n == s.n
           h == [s.g EXCEPT !.rolled = Append(@, c.id)]
<1>1. n \in Nat \ {0} /\ Fits(K, n, s.w, s.g) /\ s.g \in Games(K, n) /\ c.id \in Marks(n)
  BY PageFields DEF Checks
<1>2. Append(s.g.rolled, c.id) \in Seq(Marks(n))
  BY <1>1, GameFields, Appended
<1>3. /\ h \in Games(K, n) /\ h.rolled = Append(s.g.rolled, c.id) /\ h.story = s.g.story
      /\ h.triggered = s.g.triggered /\ h.queue = s.g.queue /\ h.rollback = s.g.rollback
      /\ h.undo = s.g.undo /\ h.check = s.g.check /\ h.failed = s.g.failed /\ h.last = s.g.last
      /\ h.action = s.g.action /\ h.phase = s.g.phase
  <2>1. h \in Games(K, n)
    BY <1>1, <1>2, ZenonT(30) DEF Games
  <2> QED
    BY <1>1, <2>1 DEF Games
<1> HIDE DEF h, n
<1>4. /\ Fits(K, n, s.w, h) /\ ToSet(h.rolled) = ToSet(s.g.rolled) \cup {c.id}
      /\ AnswersOnce(s.g) => ~ Told(s.g, "continued", c.id) \/ c.id \notin NodeCheckIds \cup Nat
  <2>1. Callable(n, s.w, s.g, c.id)
    BY DEF n
  <2> DEFINE g == s.g
             w == s.w
             x == c.id
  <2>2. /\ Fits(K, n, w, g) /\ x \in Marks(n) /\ h \in Games(K, n)
        /\ h.rolled = Append(g.rolled, x) /\ h.story = g.story /\ h.triggered = g.triggered
        /\ h.queue = g.queue /\ h.rollback = g.rollback /\ h.undo = g.undo
        /\ h.check = g.check /\ Callable(n, w, g, x)
    BY <1>1, <1>3, <2>1
  <2> HIDE DEF g, w, x
  <2>3. /\ Fits(K, n, w, h)
        /\ AnswersOnce(g) => ~ Told(g, "continued", x) \/ x \notin NodeCheckIds \cup Nat
    BY <2>2, RollFits
  <2>4. ToSet(h.rolled) = ToSet(g.rolled) \cup {x}
    BY <2>2, GameFields, Appended DEF Fits
  <2> QED
    BY <2>3, <2>4 DEF g, w, x
<1>5. c.id \in NodeCheckIds \cup Nat
  BY <1>1, FreshIds
<1>6. Calm(s.g, h)
  BY <1>3, <1>4 DEF Calm
<1>7. Answering(K, s) => AnswersOnce(s.g) /\ Awaits(s.g, s.w)
  BY DEF Answering
<1>8. /\ Sound(K, Put(s, h)) /\ Put(s, h).g = h /\ Put(s, h).n = n
      /\ Answering(K, s) => Answering(K, Put(s, h))
  BY <1>4, <1>6, <1>7, PutSound, CalmAnswers DEF n
<1>9. RollSecret(s, c) = bumpRevision(Put(s, h))
  BY DEF RollSecret, h
<1> DEFINE p == Put(s, h)
<1>10. /\ Sound(K, p) /\ p.g = h /\ p.n = n /\ RollSecret(s, c) = bumpRevision(p)
       /\ Answering(K, s) => Answering(K, p)
  BY <1>8, <1>9
<1> HIDE DEF p
<1>11. /\ Sound(K, RollSecret(s, c)) /\ RollSecret(s, c).n = n /\ RollSecret(s, c).g = h
       /\ Answering(K, s) => Answering(K, RollSecret(s, c))
  BY <1>10, BumpSound
<1>12. Answering(K, s) => ~ Told(s.g, "continued", c.id)
  BY <1>4, <1>5, <1>7
<1> QED
  BY <1>4, <1>11, <1>12 DEF h, n

(* A check's continuation is asked for once it is rolled.                    *)
LEMMA ContinuationSound ==
  ASSUME NEW K, NEW s, Sound(K, s), NEW rec \in Marks(s.n)
  PROVE  /\ Sound(K, requestContinuation(s, rec)) /\ requestContinuation(s, rec).n >= s.n
         /\ requestContinuation(s, rec).g.story = s.g.story
         /\ rec \in ToSet(s.g.rolled) /\ ~ Told(s.g, "continued", rec) =>
              /\ Answering(K, s) => Answering(K, requestContinuation(s, rec))
              /\ NoRequest(s) /\ Settled(s.g) /\ (\A g \in K : AnswersOnce(g)) =>
                   Answering(K, requestContinuation(s, rec))
<1> DEFINE n == s.n
           g == s.g
           h == [g EXCEPT !.last = rec]
           k == [h EXCEPT !.active = n, !.phase = "requesting_ai_continuation"]
           p == Put(s, h)
           q == requestContinuation(s, rec)
<1>1. n \in Nat \ {0} /\ Fits(K, n, s.w, g) /\ g \in Games(K, n)
  BY PageFields
<1>2. CASE ~ NoRequest(s)
  <2>1. requestContinuation(s, rec) = s
    BY <1>2 DEF requestContinuation
  <2> QED
    BY <1>1, <1>2, <2>1
<1>3. CASE NoRequest(s)
  <2>1. h \in Games(K, n) /\ Quiet(g, h) /\ g.action \in Past(n) \cup {None}
    BY <1>1 DEF Games, Quiet
  <2>2. Fits(K, n, s.w, h)
    BY <1>1, <2>1, QuietFits
  <2>3. Sound(K, p) /\ p.g = h /\ p.n = n /\ p.w = s.w
    <3> HIDE DEF h
    <3> QED
      BY <2>2, PutSound
  <2>4. q = Send(p, "continuation", "requesting_ai_continuation", rec, g.action)
    BY <1>3 DEF requestContinuation
  <2> HIDE DEF p, q
  <2>5. /\ Sound(K, q) /\ q.n = n + 1
        /\ q = [g |-> k, t |-> p.t, n |-> n + 1, w |-> Request("continuation", n, rec, g.action)]
    <3>1. /\ "requesting_ai_continuation" \in Phases /\ rec \in Marks(p.n) \cup {None}
          /\ g.action \in Past(p.n) \cup {None}
          /\ "continuation" \in {"action", "continuation", "hint", "summary"}
      BY <2>1, <2>3 DEF Phases
    <3>2. [p.g EXCEPT !.active = p.n, !.phase = "requesting_ai_continuation"] = k
      BY <2>3
    <3>3. q = Send(p, "continuation", "requesting_ai_continuation", rec, g.action)
      BY <2>4
    <3>4. Sound(K, q) /\ q.n = p.n + 1
      <4> HIDE DEF k, g
      <4> QED
        BY <2>3, <3>1, <3>3, SendSound
    <3>5. q = [g |-> k, t |-> p.t, n |-> n + 1, w |-> Request("continuation", n, rec, g.action)]
      <4> HIDE DEF k, g
      <4> QED
        BY <2>3, <3>2, <3>3 DEF Send
    <3> QED
      BY <2>3, <3>4, <3>5
  <2>6. /\ k.story = g.story /\ k.rolled = g.rolled /\ k.failed = g.failed /\ k.action = g.action
        /\ k.last = rec /\ k.phase = "requesting_ai_continuation"
    BY <1>1 DEF Games
  <2> HIDE DEF k, h
  <2>7. ASSUME Settled(g), \A x \in K : AnswersOnce(x), rec \in ToSet(g.rolled),
               ~ Told(g, "continued", rec)
        PROVE  Answering(K, q)
    <3>1. AnswersOnce(k)
      BY <2>6, <2>7 DEF AnswersOnce, Settled, Told
    <3>2. Awaits(k, q.w)
      BY <2>5, <2>6, <2>7 DEF Awaits, Request, Told
    <3> QED
      BY <2>5, <2>7, <3>1, <3>2 DEF Answering
  <2> QED
    <3>1. Answering(K, s) => Settled(g) /\ \A x \in K : AnswersOnce(x)
      BY DEF Answering, AnswersOnce
    <3> QED
      BY <1>1, <2>5, <2>6, <2>7, <3>1 DEF q
<1> QED
  BY <1>2, <1>3

-----------------------------------------------------------------------------
(* The checks of a node *)

NodeCheck == [id : NodeCheckIds, on : {"enter", "action"}, mandatory : BOOLEAN, secret : BOOLEAN]

LEMMA NodeCheckTypes ==
  ASSUME NEW n
  PROVE  NodeCheck \subseteq Checks(n) /\ \A c \in NodeCheck : c.id \in NodeCheckIds
BY DEF NodeCheck, Checks, Marks

(* Checks that may all be called: none was marked, and no two are the same.  *)
Due(g, r) ==
  /\ r \in Seq(NodeCheck)
  /\ \A i \in 1..Len(r) : r[i].id \notin g.triggered
  /\ \A i, j \in 1..Len(r) : r[i].id = r[j].id => i = j

(* The checks that fire are found one after another.                         *)
Fires(f, checks, g, on) ==
  /\ f \in [0..Len(checks) -> Seq(NodeCheck)] /\ f[0] = << >>
  /\ \A i \in 1..Len(checks) :
        f[i] = IF checks[i].on = on /\ checks[i].id \notin g.triggered
               THEN Append(f[i - 1], checks[i]) ELSE f[i - 1]
  /\ nodeChecksForTrigger(g, on) = f[Len(checks)]

LEMMA FiringSteps ==
  ASSUME NEW g, NEW on, NodeChecks[g.node] \in Seq(NodeCheck)
  PROVE  \E f : Fires(f, NodeChecks[g.node], g, on)
<1> DEFINE checks == NodeChecks[g.node]
           len == Len(checks)
           Q == Seq(NodeCheck)
           fires == [i \in 1..len |-> checks[i].on = on /\ checks[i].id \notin g.triggered]
           Rule(h) == h = [i \in 0..len |->
                        IF i = 0 THEN << >>
                        ELSE IF checks[i].on = on /\ checks[i].id \notin g.triggered
                             THEN Append(h[i - 1], checks[i]) ELSE h[i - 1]]
           firing == CHOOSE h : Rule(h)
           step == [i \in 1..len |-> [q \in Q |->
                      IF checks[i].on = on /\ checks[i].id \notin g.triggered
                      THEN Append(q, checks[i]) ELSE q]]
<1>1. len \in Nat /\ \A i \in 1..len : checks[i] \in NodeCheck
  OBVIOUS
<1>2. << >> \in Q
  OBVIOUS
<1>3. \A i \in 1..len : \A q \in Q : Append(q, checks[i]) \in Q
  BY <1>1
<1>4. nodeChecksForTrigger(g, on) = firing[len]
  BY DEF nodeChecksForTrigger
<1> HIDE DEF Q, len, checks
<1>5. step \in [1..len -> [Q -> Q]]
  BY <1>3
<1>6. PICK f : Computes(f, len, Q, << >>, step)
  <2> HIDE DEF step
  <2> QED
    BY <1>1, <1>2, <1>5, Iterated
<1>7. Rule(f)
  <2>1. f \in [0..len -> Q] /\ f[0] = << >> /\ \A i \in 1..len : f[i] = step[i][f[i - 1]]
    BY <1>6 DEF Computes
  <2>2. \A i \in 1..len : f[i - 1] \in Q
    BY <1>1, <2>1
  <2>3. \A i \in 1..len :
            f[i] = IF checks[i].on = on /\ checks[i].id \notin g.triggered
                   THEN Append(f[i - 1], checks[i]) ELSE f[i - 1]
    BY <2>1, <2>2
  <2>4. \A i \in 0..len : i = 0 \/ i \in 1..len
    BY <1>1
  <2> QED
    BY <2>1, <2>3, <2>4
<1>8. Rule(firing)
  <2> HIDE DEF Rule
  <2> QED
    BY <1>7
<1> HIDE DEF firing
<1>9. /\ firing[0] = << >>
      /\ \A i \in 1..len :
            firing[i] = IF checks[i].on = on /\ checks[i].id \notin g.triggered
                        THEN Append(firing[i - 1], checks[i]) ELSE firing[i - 1]
  <2>1. 0 \in 0..len /\ \A i \in 1..len : i \in 0..len /\ i # 0
    BY <1>1
  <2> QED
    BY <1>8, <2>1
<1>10. \A i \in 0..len : firing[i] \in Q
  <2> DEFINE P == {i \in 0..len : firing[i] \in Q}
  <2>1. 0 \in P
    BY <1>1, <1>2, <1>9
  <2>2. ASSUME NEW i \in 1..len, i - 1 \in P PROVE i \in P
    <3>1. firing[i - 1] \in Q /\ i \in 0..len
      BY <1>1, <2>2
    <3> QED
      BY <1>3, <1>9, <3>1
  <2>3. 0..len \subseteq P
    <3> HIDE DEF P
    <3> QED
      BY <1>1, <2>1, <2>2, UpTo
  <2> QED
    BY <2>3
<1>11. firing \in [0..len -> Q]
  <2>1. firing = [i \in 0..len |-> firing[i]]
    BY <1>8
  <2> QED
    BY <1>10, <2>1
<1>12. Fires(firing, checks, g, on)
  BY <1>4, <1>9, <1>11 DEF Fires, Q, len
<1> QED
  BY <1>12 DEF checks

(* The checks a node has due have not been marked, and each is there once.   *)
LEMMA FiringDue ==
  ASSUME NEW g, NEW on, g.node \in Nodes
  PROVE  Due(g, nodeChecksForTrigger(g, on))
<1> DEFINE checks == NodeChecks[g.node]
           len == Len(checks)
           Good(q, i) == /\ Due(g, q)
                         /\ \A k \in 1..Len(q) : \E j \in 1..i : q[k] = checks[j]
<1>1. /\ checks \in Seq(NodeCheck)
      /\ \A i, j \in 1..len : checks[i].id = checks[j].id => i = j
      /\ len \in Nat /\ \A i \in 1..len : checks[i] \in NodeCheck
  <2>1. /\ checks \in Seq(NodeCheck)
        /\ \A i, j \in DOMAIN checks : checks[i].id = checks[j].id => i = j
    <3> DEFINE n == g.node
    <3> HIDE DEF n
    <3>1. NodeChecks[n] \in Seq(NodeCheck)
          /\ \A i, j \in DOMAIN NodeChecks[n] : NodeChecks[n][i].id = NodeChecks[n][j].id => i = j
      BY ScenarioAssumption DEF NodeCheck, n
    <3> QED
      BY <3>1 DEF n
  <2> HIDE DEF checks
  <2>2. len \in Nat /\ DOMAIN checks = 1..len /\ \A i \in 1..len : checks[i] \in NodeCheck
    BY <2>1
  <2> QED
    BY <2>1, <2>2
<1>2. PICK f : Fires(f, checks, g, on)
  BY <1>1, FiringSteps
<1> HIDE DEF checks, len
<1> DEFINE P == {i \in 0..len : Good(f[i], i)}
<1>3. /\ f \in [0..len -> Seq(NodeCheck)] /\ f[0] = << >>
      /\ \A i \in 1..len : f[i] = IF checks[i].on = on /\ checks[i].id \notin g.triggered
                                  THEN Append(f[i - 1], checks[i]) ELSE f[i - 1]
      /\ nodeChecksForTrigger(g, on) = f[len]
  BY <1>2 DEF Fires, len
<1>4. 0 \in P
  BY <1>1, <1>3 DEF Due
<1>5. ASSUME NEW i \in 1..len, i - 1 \in P PROVE i \in P
  <2> DEFINE q == f[i - 1]
  <2>1. q \in Seq(NodeCheck) /\ Good(q, i - 1) /\ i \in 0..len
    BY <1>1, <1>3, <1>5
  <2>2. \A j \in 1..(i - 1) : j \in 1..i /\ j \in 1..len /\ j # i
    BY <1>1
  <2>3. CASE ~ (checks[i].on = on /\ checks[i].id \notin g.triggered)
    <3>1. f[i] = q
      BY <1>3, <2>3
    <3> QED
      BY <2>1, <2>2, <3>1
  <2>4. CASE checks[i].on = on /\ checks[i].id \notin g.triggered
    <3> DEFINE e == checks[i]
               u == Append(q, e)
               m == Len(q)
    <3>1. f[i] = u
      BY <1>3, <2>4
    <3> HIDE DEF q
    <3>2. /\ u \in Seq(NodeCheck) /\ Len(u) = m + 1 /\ m \in Nat /\ u[m + 1] = e
          /\ \A k \in 1..m : u[k] = q[k]
      BY <1>1, <2>1
    <3>3. \A k \in 1..(m + 1) : k \in 1..m \/ k = m + 1
      BY <3>2
    <3> HIDE DEF u, m
    <3>4. \A k \in 1..m : q[k].id # e.id
      <4> SUFFICES ASSUME NEW k \in 1..m PROVE q[k].id # e.id
        OBVIOUS
      <4>1. PICK j \in 1..(i - 1) : q[k] = checks[j]
        BY <2>1 DEF m
      <4> QED
        BY <1>1, <2>2, <4>1
    <3>5. /\ \A k \in 1..m : q[k].id \notin g.triggered
          /\ \A k, l \in 1..m : q[k].id = q[l].id => k = l
      BY <2>1 DEF Due, m
    <3>6. \A k \in 1..(m + 1) : u[k].id \notin g.triggered
      BY <2>4, <3>2, <3>3, <3>5
    <3>7. \A k, l \in 1..(m + 1) : u[k].id = u[l].id => k = l
      BY <3>2, <3>3, <3>4, <3>5
    <3>8. \A k \in 1..(m + 1) : \E j \in 1..i : u[k] = checks[j]
      <4> SUFFICES ASSUME NEW k \in 1..(m + 1) PROVE \E j \in 1..i : u[k] = checks[j]
        OBVIOUS
      <4>1. CASE k = m + 1
        <5>1. i \in 1..i
          BY <1>1
        <5> QED
          BY <3>2, <4>1, <5>1
      <4>2. CASE k \in 1..m
        <5>1. PICK j \in 1..(i - 1) : q[k] = checks[j]
          BY <2>1, <4>2 DEF m
        <5> QED
          BY <2>2, <3>2, <4>2, <5>1
      <4> QED
        BY <3>3, <4>1, <4>2
    <3>9. Good(u, i)
      BY <3>2, <3>6, <3>7, <3>8 DEF Due
    <3> QED
      BY <2>1, <3>1, <3>9
  <2> QED
    BY <2>3, <2>4
<1>6. 0..len \subseteq P
  <2> HIDE DEF P
  <2> QED
    BY <1>1, <1>4, <1>5, UpTo
<1>7. len \in P
  BY <1>1, <1>6
<1> QED
  BY <1>3, <1>7
-----------------------------------------------------------------------------
(* The queue *)

(* A set of numbers up to n has a greatest one.                              *)
LEMMA GreatestOf ==
  ASSUME NEW n \in Nat, NEW T \in SUBSET (0..n), T # {}
  PROVE  Max(T) \in T
<1> DEFINE left == {n - i : i \in T}
<1>0. \A i \in T : i \in Nat /\ n - i \in Nat
  OBVIOUS
<1>1. left \in SUBSET Nat /\ left # {}
  BY <1>0
<1> HIDE DEF left
<1>2. PICK m \in left : \A l \in left : m <= l
  BY <1>1, LeastOf
<1> USE DEF left
<1>3. PICK i \in T : m = n - i
  BY <1>2
<1>4. \A j \in T : i >= j
  <2> SUFFICES ASSUME NEW j \in T PROVE i >= j
    OBVIOUS
  <2>0. n - j \in left
    OBVIOUS
  <2>1. n - i <= n - j /\ i \in Nat /\ j \in Nat
    BY <1>0, <1>2, <1>3, <2>0
  <2> QED
    BY <2>1
<1>5. \E x \in T : \A y \in T : x >= y
  BY <1>4
<1> QED
  BY <1>5 DEF Max

LEMMA InARow ==
  ASSUME NEW g, Len(g.queue) \in Nat
  PROVE  secretsInARow(g) \in 0..Len(g.queue)
<1> DEFINE T == {k \in 0 .. Len(g.queue) :
                  (k = 0 \/ k + g.chain <= MaxChain) /\ \A i \in 1 .. k : g.queue[i].secret}
<1>1. T \in SUBSET (0..Len(g.queue)) /\ 0 \in T
  OBVIOUS
<1>2. secretsInARow(g) = 0 \/ secretsInARow(g) = Max(T)
  BY DEF secretsInARow
<1> HIDE DEF T
<1>3. Max(T) \in T
  BY <1>1, GreatestOf
<1> QED
  BY <1>1, <1>2, <1>3

(* Two sequences together.                                                   *)
LEMMA Joined ==
  ASSUME NEW S, NEW s \in Seq(S), NEW u \in Seq(S)
  PROVE  /\ s \o u \in Seq(S) /\ ToSet(s \o u) = ToSet(s) \cup ToSet(u)
         /\ IsInjective(s) /\ IsInjective(u) /\ ToSet(s) \cap ToSet(u) = {} => IsInjective(s \o u)
<1> DEFINE v == s \o u
           m == Len(s)
           l == Len(u)
<1>1. /\ v \in Seq(S) /\ Len(v) = m + l /\ m \in Nat /\ l \in Nat
      /\ \A i \in 1..m : v[i] = s[i]
      /\ \A i \in 1..l : v[m + i] = u[i]
  OBVIOUS
<1>2. /\ DOMAIN s = 1..m /\ DOMAIN u = 1..l /\ DOMAIN v = 1..(m + l)
      /\ \A i \in 1..m : s[i] \in ToSet(s)
      /\ \A i \in 1..l : u[i] \in ToSet(u)
      /\ \A i \in 1..(m + l) : v[i] \in ToSet(v)
      /\ \A e \in ToSet(s) : \E i \in 1..m : s[i] = e
      /\ \A e \in ToSet(u) : \E i \in 1..l : u[i] = e
      /\ \A e \in ToSet(v) : \E i \in 1..(m + l) : v[i] = e
  <2>1. /\ DOMAIN s = 1..m /\ \A i \in 1..m : s[i] \in ToSet(s)
        /\ \A e \in ToSet(s) : \E i \in 1..m : s[i] = e
    BY Elements
  <2>2. /\ DOMAIN u = 1..l /\ \A i \in 1..l : u[i] \in ToSet(u)
        /\ \A e \in ToSet(u) : \E i \in 1..l : u[i] = e
    BY Elements
  <2>3. /\ DOMAIN v = 1..(m + l) /\ \A i \in 1..(m + l) : v[i] \in ToSet(v)
        /\ \A e \in ToSet(v) : \E i \in 1..(m + l) : v[i] = e
    <3> HIDE DEF v
    <3> QED
      BY <1>1, Elements
  <2> QED
    BY <2>1, <2>2, <2>3
<1>3. \A i \in 1..(m + l) : i \in 1..m \/ \E j \in 1..l : i = m + j
  <2> SUFFICES ASSUME NEW i \in 1..(m + l), i \notin 1..m PROVE \E j \in 1..l : i = m + j
    OBVIOUS
  <2>1. i - m \in 1..l /\ i = m + (i - m)
    BY <1>1
  <2> QED
    BY <2>1
<1>4. /\ \A i \in 1..m : i \in 1..(m + l)
      /\ \A i \in 1..l : m + i \in 1..(m + l)
  BY <1>1
<1> HIDE DEF v, m, l
<1>5. ToSet(v) \subseteq ToSet(s) \cup ToSet(u)
  <2> SUFFICES ASSUME NEW e \in ToSet(v) PROVE e \in ToSet(s) \cup ToSet(u)
    OBVIOUS
  <2>1. PICK i \in 1..(m + l) : v[i] = e
    BY <1>2
  <2>2. CASE i \in 1..m
    BY <1>1, <1>2, <2>1, <2>2
  <2>3. CASE \E j \in 1..l : i = m + j
    <3>1. PICK j \in 1..l : i = m + j
      BY <2>3
    <3>2. v[i] = u[j] /\ u[j] \in ToSet(u)
      BY <1>1, <1>2, <3>1
    <3> QED
      BY <2>1, <3>2
  <2> QED
    BY <1>3, <2>2, <2>3
<1>6. ToSet(s) \subseteq ToSet(v)
  <2> SUFFICES ASSUME NEW e \in ToSet(s) PROVE e \in ToSet(v)
    OBVIOUS
  <2>1. PICK i \in 1..m : s[i] = e
    BY <1>2
  <2>2. v[i] = e /\ i \in 1..(m + l)
    BY <1>1, <1>4, <2>1
  <2> QED
    BY <1>2, <2>2
<1>7. ToSet(u) \subseteq ToSet(v)
  <2> SUFFICES ASSUME NEW e \in ToSet(u) PROVE e \in ToSet(v)
    OBVIOUS
  <2>1. PICK i \in 1..l : u[i] = e
    BY <1>2
  <2>2. v[m + i] = e /\ m + i \in 1..(m + l)
    BY <1>1, <1>4, <2>1
  <2> QED
    BY <1>2, <2>2
<1>8. ASSUME IsInjective(s), IsInjective(u), ToSet(s) \cap ToSet(u) = {} PROVE IsInjective(v)
  <2>1. /\ \A i, j \in 1..m : s[i] = s[j] => i = j
        /\ \A i, j \in 1..l : u[i] = u[j] => i = j
    BY <1>2, <1>8 DEF IsInjective
  <2>2. \A i \in 1..m, j \in 1..l : s[i] # u[j]
    BY <1>2, <1>8
  <2>3. \A i, j \in 1..(m + l) : v[i] = v[j] => i = j
    <3> SUFFICES ASSUME NEW i \in 1..(m + l), NEW j \in 1..(m + l), v[i] = v[j] PROVE i = j
      OBVIOUS
    <3>1. CASE i \in 1..m /\ j \in 1..m
      BY <1>1, <2>1, <3>1
    <3>2. CASE i \in 1..m /\ \E b \in 1..l : j = m + b
      <4>1. PICK b \in 1..l : j = m + b
        BY <3>2
      <4>2. s[i] = u[b]
        BY <1>1, <3>2, <4>1
      <4> QED
        BY <2>2, <3>2, <4>2
    <3>3. CASE j \in 1..m /\ \E a \in 1..l : i = m + a
      <4>1. PICK a \in 1..l : i = m + a
        BY <3>3
      <4>2. s[j] = u[a]
        BY <1>1, <3>3, <4>1
      <4> QED
        BY <2>2, <3>3, <4>2
    <3>4. CASE (\E a \in 1..l : i = m + a) /\ (\E b \in 1..l : j = m + b)
      <4>1. PICK a \in 1..l, b \in 1..l : i = m + a /\ j = m + b
        BY <3>4
      <4>2. u[a] = u[b]
        BY <1>1, <4>1
      <4> QED
        BY <2>1, <4>1, <4>2
    <3> QED
      BY <1>3, <3>1, <3>2, <3>3, <3>4
  <2> QED
    BY <1>2, <2>3 DEF IsInjective
<1> QED
  BY <1>1, <1>5, <1>6, <1>7, <1>8 DEF v

(* What a sequence has after its first k elements.                           *)
LEMMA After ==
  ASSUME NEW S, NEW q \in Seq(S), NEW k \in 0..Len(q)
  PROVE  LET p == SubSeq(q, k + 1, Len(q)) IN
         /\ p \in Seq(S) /\ DOMAIN p = 1..(Len(q) - k) /\ Len(q) \in Nat
         /\ \A i \in DOMAIN p : i + k \in 1..Len(q) /\ p[i] = q[i + k] /\ i \in Nat /\ k \in Nat
<1> DEFINE p == SubSeq(q, k + 1, Len(q))
<1>1. p \in Seq(S) /\ Len(p) = Len(q) - k /\ Len(q) \in Nat /\ k \in Nat
  OBVIOUS
<1>2. DOMAIN p = 1..(Len(q) - k)
  BY <1>1
<1>3. ASSUME NEW i \in 1..(Len(q) - k) PROVE i + k \in 1..Len(q) /\ p[i] = q[i + k]
  BY <1>1
<1> HIDE DEF p
<1>4. \A i \in DOMAIN p : i + k \in 1..Len(q) /\ p[i] = q[i + k] /\ i \in Nat /\ k \in Nat
  BY <1>1, <1>2, <1>3
<1> QED
  BY <1>1, <1>2, <1>4 DEF p
(* The first checks of the queue are rolled in a row, and leave it.          *)
RowIds(g, k) == [i \in 1 .. k |-> g.queue[i].id]

LEMMA RowFits ==
  ASSUME NEW K, NEW n, NEW w, NEW g, NEW k, Fits(K, n, w, g), k \in 0..Len(g.queue)
  PROVE  Fits(K, n, w, rollInARow(g, k)) /\ Calm(g, rollInARow(g, k))
<1> DEFINE r == RowIds(g, k)
           q == SubSeq(g.queue, k + 1, Len(g.queue))
           h == rollInARow(g, k)
<1>1. /\ h \in Games(K, n) /\ r \in Seq(Marks(n)) /\ DOMAIN r = 1..k
      /\ h.rolled = g.rolled \o r /\ h.queue = q
      /\ h.story = g.story /\ h.triggered = g.triggered /\ h.rollback = g.rollback
      /\ h.undo = g.undo /\ h.check = g.check /\ h.failed = g.failed /\ h.last = g.last
      /\ h.action = g.action /\ h.phase = g.phase
  <2>1. g.queue \in Seq(Checks(n)) /\ g.rolled \in Seq(Marks(n)) /\ g.chain \in Nat
    BY GameFields DEF Fits
  <2>2. k \in Nat /\ \A i \in 1..k : g.queue[i].id \in Marks(n)
    <3>1. \A c \in Checks(n) : c.id \in Marks(n)
      BY DEF Checks
    <3>2. k \in Nat /\ \A i \in 1..k : g.queue[i] \in Checks(n)
      BY <2>1
    <3> QED
      BY <3>1, <3>2
  <2>3. r \in Seq(Marks(n)) /\ DOMAIN r = 1..k
    BY <2>2 DEF RowIds
  <2>4. q \in Seq(Checks(n))
    BY <2>1, After
  <2> HIDE DEF q, r
  <2>5. g.rolled \o r \in Seq(Marks(n)) /\ g.chain + k \in Nat
    BY <2>1, <2>2, <2>3
  <2>6. h = [g EXCEPT !.queue = q, !.chain = g.chain + k, !.rolled = g.rolled \o r]
    BY DEF rollInARow, RowIds, q, r
  <2> HIDE DEF h
  <2>7. /\ h \in Games(K, n) /\ h.rolled = g.rolled \o r /\ h.queue = q
        /\ h.story = g.story /\ h.triggered = g.triggered /\ h.rollback = g.rollback
        /\ h.undo = g.undo /\ h.check = g.check /\ h.failed = g.failed /\ h.last = g.last
        /\ h.action = g.action /\ h.phase = g.phase
    BY <2>4, <2>5, <2>6 DEF Fits, Games
  <2> QED
    BY <2>3, <2>7 DEF q, r, h
<1>2. g.queue \in Seq(Checks(n)) /\ g.rolled \in Seq(Marks(n)) /\ DOMAIN g.queue = 1..Len(g.queue)
  BY GameFields, Elements DEF Fits
<1>3. /\ DOMAIN q = 1..(Len(g.queue) - k) /\ Len(g.queue) \in Nat
      /\ \A i \in DOMAIN q : i + k \in DOMAIN g.queue /\ q[i] = g.queue[i + k] /\ i \in Nat /\ k \in Nat
  BY <1>2, After
<1>4. \A i \in 1..k : i \in DOMAIN g.queue /\ r[i] = g.queue[i].id
  BY <1>2 DEF RowIds
<1>5. \A i \in DOMAIN q : i + k \notin 1..k
  BY <1>3
<1> HIDE DEF r, q, h
<1>6. ToSet(h.rolled) = ToSet(g.rolled) \cup ToSet(r)
  BY <1>1, <1>2, Joined
<1>7. \A x \in ToSet(r) : \E i \in 1..k : x = g.queue[i].id
  <2> SUFFICES ASSUME NEW x \in ToSet(r) PROVE \E i \in 1..k : x = g.queue[i].id
    OBVIOUS
  <2>1. PICK i \in DOMAIN r : r[i] = x
    BY DEF ToSet
  <2> QED
    BY <1>1, <1>4, <2>1
<1>8. /\ IsInjective(g.rolled)
      /\ \A i, j \in DOMAIN g.queue : g.queue[i].id = g.queue[j].id => i = j
      /\ \A i \in DOMAIN g.queue : g.queue[i].id \notin ToSet(g.rolled)
      /\ g.check # None => \A i \in DOMAIN g.queue : g.queue[i].id # g.check.id
      /\ g.check # None => g.check.id \notin ToSet(g.rolled)
  BY DEF Fits, RolledOnce
<1>9. IsInjective(r) /\ ToSet(g.rolled) \cap ToSet(r) = {}
  <2>1. \A i, j \in DOMAIN r : r[i] = r[j] => i = j
    BY <1>1, <1>4, <1>8
  <2> QED
    BY <1>4, <1>7, <1>8, <2>1 DEF IsInjective
<1>10. IsInjective(h.rolled)
  BY <1>1, <1>2, <1>8, <1>9, Joined
<1>11. \A x : Called(h, x) => Called(g, x)
  BY <1>1, <1>3, <1>4, <1>6, <1>7 DEF Called
<1>12. \A i \in DOMAIN q : q[i].id \notin ToSet(h.rolled)
  <2> SUFFICES ASSUME NEW i \in DOMAIN q PROVE q[i].id \notin ToSet(h.rolled)
    OBVIOUS
  <2>1. q[i].id \notin ToSet(g.rolled)
    BY <1>3, <1>8
  <2>2. ASSUME NEW j \in 1..k, q[i].id = g.queue[j].id PROVE FALSE
    BY <1>3, <1>4, <1>5, <1>8, <2>2
  <2> QED
    BY <1>6, <1>7, <2>1, <2>2
<1>13. \A i, j \in DOMAIN q : q[i].id = q[j].id => i = j
  <2> SUFFICES ASSUME NEW i \in DOMAIN q, NEW j \in DOMAIN q, q[i].id = q[j].id PROVE i = j
    OBVIOUS
  <2>1. i + k = j + k
    BY <1>3, <1>8
  <2> QED
    BY <1>3, <2>1
<1>14. g.check # None => g.check.id \notin ToSet(h.rolled) /\ \A i \in DOMAIN q : q[i].id # g.check.id
  BY <1>3, <1>4, <1>6, <1>7, <1>8
<1>15. \A c \in NodeCheckIds : Called(h, c) => c \in h.triggered
  BY <1>1, <1>11 DEF Fits, RolledOnce
<1>16. RolledOnce(h)
  BY <1>1, <1>10, <1>12, <1>13, <1>14, <1>15 DEF RolledOnce
<1>17. TakesBack(h)
  BY <1>1 DEF Fits, TakesBack
<1>18. Apart(h, w)
  BY <1>1, <1>11 DEF Fits, Apart, Told
<1>19. Calm(g, h)
  BY <1>1, <1>6 DEF Calm
<1> QED
  BY <1>1, <1>16, <1>17, <1>18, <1>19 DEF Fits, h

(* The first check leaves the queue, and may be called.                      *)
LEMMA HeadFits ==
  ASSUME NEW K, NEW n, NEW w, NEW g, NEW h, Fits(K, n, w, g), g.queue # << >>, g.check = None,
         h = [g EXCEPT !.queue = Tail(@), !.chain = @ + 1]
  PROVE  /\ Fits(K, n, w, h) /\ Calm(g, h) /\ Head(g.queue) \in Checks(n)
         /\ Callable(n, w, h, Head(g.queue).id)
<1> DEFINE c == Head(g.queue)
           q == Tail(g.queue)
<1>1. g.queue \in Seq(Checks(n)) /\ g.rolled \in Seq(Marks(n)) /\ g.chain + 1 \in Nat
  BY GameFields DEF Fits
<1>2. /\ q \in Seq(Checks(n)) /\ c \in Checks(n) /\ c = g.queue[1] /\ 1 \in DOMAIN g.queue
      /\ \A i \in DOMAIN q : i + 1 \in DOMAIN g.queue /\ q[i] = g.queue[i + 1] /\ i \in Nat /\ i + 1 # 1
  BY <1>1
<1>3. /\ h \in Games(K, n) /\ h.rolled = g.rolled /\ h.queue = q
      /\ h.story = g.story /\ h.triggered = g.triggered /\ h.rollback = g.rollback
      /\ h.undo = g.undo /\ h.check = g.check /\ h.failed = g.failed /\ h.last = g.last
      /\ h.action = g.action /\ h.phase = g.phase
  <2> HIDE DEF q
  <2>1. g \in Games(K, n) /\ h = [g EXCEPT !.queue = q, !.chain = @ + 1]
    BY DEF Fits, q
  <2>2. h \in Games(K, n)
    BY <1>1, <1>2, <2>1, ZenonT(30) DEF Games
  <2> QED
    BY <2>1, <2>2 DEF Games
<1> HIDE DEF c, q
<1>4. /\ \A i, j \in DOMAIN g.queue : g.queue[i].id = g.queue[j].id => i = j
      /\ \A i \in DOMAIN g.queue : g.queue[i].id \notin ToSet(g.rolled)
      /\ \A x \in NodeCheckIds : Called(g, x) => x \in g.triggered
  BY DEF Fits, RolledOnce
<1>5. /\ \A i \in DOMAIN q : q[i].id \notin ToSet(g.rolled) /\ q[i].id # c.id
      /\ \A i, j \in DOMAIN q : q[i].id = q[j].id => i = j
      /\ c.id \notin ToSet(g.rolled)
  <2>1. \A i \in DOMAIN q : q[i].id \notin ToSet(g.rolled) /\ q[i].id # c.id
    BY <1>2, <1>4
  <2>2. ASSUME NEW i \in DOMAIN q, NEW j \in DOMAIN q, q[i].id = q[j].id PROVE i = j
    <3>1. i + 1 = j + 1
      BY <1>2, <1>4, <2>2
    <3> QED
      BY <1>2, <3>1
  <2> QED
    BY <1>2, <1>4, <2>1, <2>2
<1>6. Called(g, c.id) /\ \A x : Called(h, x) => Called(g, x)
  BY <1>2, <1>3 DEF Called
<1>7. RolledOnce(h)
  BY <1>3, <1>4, <1>5, <1>6 DEF Fits, RolledOnce
<1>8. TakesBack(h) /\ Apart(h, w)
  BY <1>3, <1>6 DEF Fits, TakesBack, Apart, Told
<1>9. Calm(g, h)
  BY <1>3 DEF Calm
<1>10. Callable(n, w, h, c.id)
  <2>1. ~ Called(h, c.id)
    BY <1>3, <1>5 DEF Called
  <2>2. c.id \in Marks(n)
    BY <1>2 DEF Checks
  <2> QED
    BY <1>3, <1>4, <1>6, <2>1, <2>2 DEF Callable, Fits, Apart
<1> QED
  BY <1>2, <1>3, <1>7, <1>8, <1>9, <1>10 DEF Fits, c
(* What a handler that tells nothing makes of a page.                        *)
Kept(K, s, q) ==
  /\ Sound(K, q) /\ q.n >= s.n /\ q.g.story = s.g.story
  /\ Answering(K, s) => Answering(K, q)

LEMMA KeptTwice ==
  ASSUME NEW K, NEW s, NEW p, NEW q, Sound(K, s), Kept(K, s, p), Kept(K, p, q)
  PROVE  Kept(K, s, q)
<1>1. s.n \in Nat /\ p.n \in Nat /\ q.n \in Nat
  BY PageFields DEF Kept
<1> QED
  BY <1>1 DEF Kept

LEMMA KeptCalmly ==
  ASSUME NEW K, NEW s, NEW h, Sound(K, s), Fits(K, s.n, s.w, h), Calm(s.g, h)
  PROVE  /\ Kept(K, s, Put(s, h)) /\ Put(s, h).g = h /\ Put(s, h).n = s.n /\ Put(s, h).w = s.w
<1>1. /\ Sound(K, Put(s, h)) /\ Put(s, h).g = h /\ Put(s, h).n = s.n /\ Put(s, h).w = s.w
      /\ Answering(K, s) /\ AnswersOnce(h) /\ Awaits(h, s.w) => Answering(K, Put(s, h))
  BY PutSound
<1>2. Answering(K, s) => AnswersOnce(h) /\ Awaits(h, s.w)
  BY CalmAnswers DEF Answering
<1>3. s.n \in Nat
  BY PageFields
<1> QED
  BY <1>1, <1>2, <1>3 DEF Kept, Calm

LEMMA KeptWhenBumped ==
  ASSUME NEW K, NEW s, Sound(K, s)
  PROVE  Kept(K, s, bumpRevision(s))
<1>1. s.n \in Nat
  BY PageFields
<1> QED
  BY <1>1, BumpSound DEF Kept

(* A secret check's record is continued, when no request is under way.       *)
LEMMA KeptWhenSecret ==
  ASSUME NEW K, NEW s, NEW c, Sound(K, s), c \in Checks(s.n), Callable(s.n, s.w, s.g, c.id)
  PROVE  Kept(K, s, requestContinuation(RollSecret(s, c), c.id))
<1> DEFINE p == RollSecret(s, c)
           q == requestContinuation(p, c.id)
<1>1. /\ Sound(K, p) /\ p.n = s.n /\ p.g = [s.g EXCEPT !.rolled = Append(@, c.id)]
      /\ ToSet(p.g.rolled) = ToSet(s.g.rolled) \cup {c.id}
      /\ Answering(K, s) => Answering(K, p) /\ ~ Told(s.g, "continued", c.id)
  <2>1. /\ Sound(K, RollSecret(s, c)) /\ RollSecret(s, c).n = s.n
        /\ RollSecret(s, c).g = [s.g EXCEPT !.rolled = Append(@, c.id)]
        /\ ToSet(RollSecret(s, c).g.rolled) = ToSet(s.g.rolled) \cup {c.id}
        /\ Answering(K, s) => Answering(K, RollSecret(s, c)) /\ ~ Told(s.g, "continued", c.id)
    BY RollSecretSound, Zenon
  <2> QED
    BY <2>1, Zenon
<1>2. p.g.story = s.g.story /\ c.id \in Marks(p.n) /\ c.id \in ToSet(p.g.rolled)
  <2>1. s.g \in Games(K, s.n)
    BY PageFields
  <2> HIDE DEF p
  <2> QED
    BY <1>1, <2>1, SMTT(20) DEF Games, Checks
<1> HIDE DEF p
<1>3. /\ Sound(K, q) /\ q.n >= p.n /\ q.g.story = p.g.story
      /\ Answering(K, p) /\ c.id \in ToSet(p.g.rolled) /\ ~ Told(p.g, "continued", c.id) =>
           Answering(K, q)
  BY <1>1, <1>2, ContinuationSound
<1> HIDE DEF q
<1>4. ~ Told(s.g, "continued", c.id) => ~ Told(p.g, "continued", c.id)
  BY <1>2 DEF Told
<1>5. Kept(K, s, q)
  BY <1>1, <1>2, <1>3, <1>4 DEF Kept
<1> QED
  BY <1>5 DEF p, q

LEMMA QueueKept ==
  ASSUME NEW K, NEW page, Sound(K, page)
  PROVE  Kept(K, page, processCheckQueue(page))
<1> DEFINE k == secretsInARow(page.g)
           row == rollInARow(page.g, k)
           s == Put(page, row)
           g == s.g
           c == Head(g.queue)
           tail == [g EXCEPT !.queue = Tail(@), !.chain = @ + 1]
           taken == Put(s, tail)
           q == processCheckQueue(page)
<1>1. page.n \in Nat /\ page.g \in Games(K, page.n) /\ Fits(K, page.n, page.w, page.g)
  BY PageFields
<1>2. CASE page.w # None \/ page.g.check # None
  <2>1. q = page
    BY <1>2 DEF processCheckQueue
  <2> QED
    BY <1>1, <2>1 DEF Kept
<1>3. CASE ~ (page.w # None \/ page.g.check # None)
  <2>1. k \in 0..Len(page.g.queue)
    BY <1>1, GameFields, InARow
  <2>2. q = IF g.queue = << >> THEN
                   Put(s, [g EXCEPT !.chain = 0,
                            !.phase = IF @ = "awaiting_check" THEN "awaiting_player_action" ELSE @])
            ELSE IF Len(g.queue) > MaxChain THEN Put(s, [g EXCEPT !.queue = << >>])
            ELSE IF g.chain >= MaxChain THEN Put(s, [g EXCEPT !.queue = << >>, !.chain = @ + 1])
            ELSE IF c.secret THEN requestContinuation(RollSecret(taken, c), c.id)
            ELSE Put(taken, AskCheck(taken.g, c))
    <3> HIDE DEF k
    <3> QED
      BY <1>3 DEF processCheckQueue, k
  <2> HIDE DEF k
  <2>3. Fits(K, page.n, page.w, row) /\ Calm(page.g, row)
    BY <1>1, <2>1, RowFits
  <2>4. row.check = page.g.check
    BY <1>1 DEF Games, rollInARow
  <2> HIDE DEF row
  <2>5. Kept(K, page, s) /\ s.n = page.n /\ s.w = page.w /\ g = row
    BY <2>3, KeptCalmly
  <2>6. Sound(K, s) /\ Fits(K, s.n, s.w, g) /\ g.check = None /\ g \in Games(K, s.n) /\ s.n \in Nat
    BY <1>1, <1>3, <2>3, <2>4, <2>5 DEF Kept, Fits
  <2> HIDE DEF s
  <2> SUFFICES Kept(K, page, q)
    OBVIOUS
  <2> HIDE DEF q
  <2>7. ASSUME NEW h, h \in Games(K, s.n), Quiet(g, h), Calm(g, h), q = Put(s, h)
        PROVE  Kept(K, page, q)
    <3>1. Fits(K, s.n, s.w, h)
      BY <2>6, <2>7, QuietFits
    <3>2. Kept(K, s, q)
      BY <2>6, <2>7, <3>1, KeptCalmly
    <3> QED
      BY <2>5, <3>2, KeptTwice
  <2>8. CASE g.queue = << >>
    <3> DEFINE f == IF g.phase = "awaiting_check" THEN "awaiting_player_action" ELSE g.phase
               h == [g EXCEPT !.chain = 0, !.phase = f]
    <3>1. q = Put(s, h)
      BY <2>2, <2>8
    <3>2. h \in Games(K, s.n) /\ Quiet(g, h) /\ Calm(g, h)
      <4>0. g \in Games(K, s.n) /\ 0 \in Nat /\ g.chain + 1 \in Nat /\ << >> \in Seq(Checks(s.n))
        BY <2>6, GameFields
      <4> HIDE DEF g
      <4>a. f \in Phases /\ f \in {g.phase} \cup Waiting
        BY <4>0, GameFields DEF Phases, Waiting
      <4> HIDE DEF f
      <4>1. h \in Games(K, s.n)
        BY <4>0, <4>a DEF Games
      <4>2. Quiet(g, h) /\ Calm(g, h)
        BY <4>0, <4>a DEF Games, Quiet, Calm
      <4> QED
        BY <4>1, <4>2
    <3> HIDE DEF h
    <3> QED
      BY <2>7, <3>1, <3>2
  <2>9. CASE g.queue # << >> /\ Len(g.queue) > MaxChain
    <3> DEFINE h == [g EXCEPT !.queue = << >>]
    <3>1. q = Put(s, h)
      BY <2>2, <2>9
    <3>2. h \in Games(K, s.n) /\ Quiet(g, h) /\ Calm(g, h)
      <4>0. g \in Games(K, s.n) /\ 0 \in Nat /\ g.chain + 1 \in Nat /\ << >> \in Seq(Checks(s.n))
        BY <2>6, GameFields
      <4> HIDE DEF g
      <4>1. h \in Games(K, s.n)
        BY <4>0 DEF Games
      <4>2. Quiet(g, h) /\ Calm(g, h)
        BY <4>0 DEF Games, Quiet, Calm
      <4> QED
        BY <4>1, <4>2
    <3> HIDE DEF h
    <3> QED
      BY <2>7, <3>1, <3>2
  <2>10. CASE g.queue # << >> /\ ~ (Len(g.queue) > MaxChain) /\ g.chain >= MaxChain
    <3> DEFINE h == [g EXCEPT !.queue = << >>, !.chain = @ + 1]
    <3>1. q = Put(s, h)
      BY <2>2, <2>10
    <3>2. h \in Games(K, s.n) /\ Quiet(g, h) /\ Calm(g, h)
      <4>0. g \in Games(K, s.n) /\ 0 \in Nat /\ g.chain + 1 \in Nat /\ << >> \in Seq(Checks(s.n))
        BY <2>6, GameFields
      <4> HIDE DEF g
      <4>1. h \in Games(K, s.n)
        BY <4>0 DEF Games
      <4>2. Quiet(g, h) /\ Calm(g, h)
        BY <4>0 DEF Games, Quiet, Calm
      <4> QED
        BY <4>1, <4>2
    <3> HIDE DEF h
    <3> QED
      BY <2>7, <3>1, <3>2
  <2>11. CASE g.queue # << >> /\ ~ (Len(g.queue) > MaxChain) /\ ~ (g.chain >= MaxChain)
    <3> HIDE DEF c, tail
    <3>1. /\ Fits(K, s.n, s.w, tail) /\ Calm(g, tail) /\ c \in Checks(s.n)
          /\ Callable(s.n, s.w, tail, c.id)
      BY <2>6, <2>11, HeadFits DEF c, tail
    <3>2. Kept(K, s, taken) /\ taken.g = tail /\ taken.n = s.n /\ taken.w = s.w
      BY <2>6, <3>1, KeptCalmly
    <3> HIDE DEF taken
    <3>3. Sound(K, taken) /\ Kept(K, page, taken)
      BY <2>5, <3>2, KeptTwice DEF Kept
    <3>4. c.secret \in BOOLEAN
      BY <3>1 DEF Checks
    <3>5. CASE c.secret
      <4>1. q = requestContinuation(RollSecret(taken, c), c.id)
        BY <2>2, <2>11, <3>5
      <4>2. Kept(K, taken, q)
        BY <3>1, <3>2, <3>3, <4>1, KeptWhenSecret
      <4> QED
        BY <3>3, <4>2, KeptTwice
    <3>6. CASE ~ c.secret
      <4>1. q = Put(taken, AskCheck(taken.g, c))
        BY <2>2, <2>11, <3>6
      <4>2. Fits(K, taken.n, taken.w, AskCheck(taken.g, c)) /\ Calm(taken.g, AskCheck(taken.g, c))
        BY <3>1, <3>2, AskFits
      <4>3. Kept(K, taken, q)
        BY <3>3, <4>1, <4>2, KeptCalmly
      <4> QED
        BY <3>3, <4>3, KeptTwice
    <3> QED
      BY <3>4, <3>5, <3>6
  <2> QED
    BY <2>8, <2>9, <2>10, <2>11
<1> QED
  BY <1>2, <1>3 DEF q
-----------------------------------------------------------------------------
(* Steps *)

LEMMA FitsGrows ==
  ASSUME NEW K, NEW L, NEW n, NEW w, NEW g, K \subseteq L, n \in Nat, Fits(K, n, w, g)
  PROVE  Fits(L, n, w, g) /\ Fits(L, n, None, g)
<1>1. g \in Games(L, n)
  BY GamesGrow DEF Fits
<1> QED
  BY <1>1 DEF Fits, Apart

(* More games are known.                                                     *)
LEMMA SoundGrows ==
  ASSUME NEW K, NEW L, NEW s, Sound(K, s), K \subseteq L,
         \A g \in L : g \in K \/ g = s.g \/ Fits(L, s.n, s.w, g)
  PROVE  Sound(L, s)
<1>1. s.n \in Nat
  BY PageFields
<1>2. \A g \in K \cup {s.g} : Fits(L, s.n, s.w, g)
  BY <1>1, FitsGrows DEF Sound
<1> QED
  BY <1>2 DEF Sound

LEMMA WireDropped ==
  ASSUME NEW K, NEW s, Sound(K, s)
  PROVE  LET p == [s EXCEPT !.w = None] IN
         /\ Sound(K, p) /\ p.g = s.g /\ p.n = s.n /\ p.w = None
         /\ Answering(K, s) => Answering(K, p)
<1> DEFINE p == [s EXCEPT !.w = None]
<1>1. p = [g |-> s.g, w |-> None, t |-> s.t, n |-> s.n]
  BY DEF Sound
<1> HIDE DEF p
<1>2. s.n \in Nat
  BY PageFields
<1>3. Sound(K, p)
  BY <1>1, <1>2, FitsGrows DEF Sound
<1>4. Answering(K, s) => Answering(K, p)
  BY <1>1 DEF Answering, Awaits
<1> QED
  BY <1>1, <1>3, <1>4 DEF p

(* The game, the saved one and their snapshots are in K.                     *)
Holds(K) == game \in K /\ disk \in K /\ Sound(K, Page) /\ fresh <= MaxIds + 1
Reaches(K) ==
  \E L : /\ game' \in L /\ disk' \in L /\ Sound(L, Page') /\ fresh' <= MaxIds + 1
         /\ ~ strayed' /\ Answering(K, Page) => Answering(L, Page')
GoesOn == IsPrefix(BeforeLastTurn(game.story), game'.story)

LEMMA HoldsMeans ==
  ASSUME NEW K, Holds(K)
  PROVE  /\ Sound(K, Page) /\ Page.g = game /\ Page.w = wire /\ Page.t = timer /\ Page.n = fresh
         /\ game \in Games(K, fresh) /\ Fits(K, fresh, wire, game) /\ Fits(K, fresh, wire, disk)
         /\ wire \in Wires(fresh) \cup {None} /\ fresh \in Nat \ {0} /\ timer \in BOOLEAN
<1>1. Page.g = game /\ Page.w = wire /\ Page.t = timer /\ Page.n = fresh /\ Sound(K, Page)
  BY DEF Holds, Page
<1>2. Fits(K, fresh, wire, game) /\ Fits(K, fresh, wire, disk)
  BY <1>1 DEF Holds, Sound
<1> QED
  BY <1>1, <1>2, PageFields DEF Fits

LEMMA Reached ==
  ASSUME NEW K, NEW M, NEW s, Holds(K), K \subseteq M, Sound(M, s), Becomes(s), UNCHANGED disk,
         ~ strayed' /\ Answering(K, Page) => Answering(M, s)
  PROVE  Reaches(K)
<1> DEFINE L == M \cup {s.g}
<1>1. Page' = s
  BY DEF Becomes, Page, Sound
<1>2. game' = s.g /\ fresh' <= MaxIds + 1 /\ disk' \in M
  BY DEF Becomes, Holds
<1>3. Sound(L, s)
  BY SoundGrows
<1>4. Answering(M, s) => Answering(L, s)
  BY DEF Answering
<1>5. /\ game' \in L /\ disk' \in L /\ Sound(L, Page') /\ fresh' <= MaxIds + 1
      /\ ~ strayed' /\ Answering(K, Page) => Answering(L, Page')
  BY <1>1, <1>2, <1>3, <1>4
<1> HIDE DEF L
<1> QED
  BY <1>5 DEF Reaches

(* The story stays, or goes on with what is told.                            *)
LEMMA StoryGoesOn ==
  ASSUME NEW K, Holds(K), NEW e,
         \/ game'.story = game.story
         \/ e \in Events(fresh') /\ fresh' \in Nat /\ fresh <= fresh'
              /\ game'.story = Append(game.story, e)
  PROVE  GoesOn
<1>1. game.story \in Seq(Events(fresh)) /\ fresh \in Nat
  BY HoldsMeans, GameFields
<1>2. CASE game'.story = game.story
  BY <1>1, <1>2, BeforeLastTurnFacts DEF GoesOn
<1>3. CASE e \in Events(fresh') /\ fresh' \in Nat /\ fresh <= fresh'
              /\ game'.story = Append(game.story, e)
  <2> DEFINE b == BeforeLastTurn(game.story)
             u == Append(game.story, e)
  <2>1. game.story \in Seq(Events(fresh'))
    BY <1>1, <1>3, TypesGrow, SeqGrows
  <2>2. b \in Seq(Events(fresh')) /\ IsPrefix(b, game.story)
    BY <2>1, BeforeLastTurnFacts
  <2>3. u \in Seq(Events(fresh')) /\ IsPrefix(game.story, u)
    BY <1>3, <2>1, PrefixOfSelf
  <2> HIDE DEF b, u
  <2>4. IsPrefix(b, u)
    BY <2>1, <2>2, <2>3, PrefixOfPrefix
  <2> QED
    BY <1>3, <2>4 DEF GoesOn, b, u
<1> QED
  BY <1>2, <1>3

LEMMA ReachedKept ==
  ASSUME NEW K, NEW s, Holds(K), Kept(K, Page, s), Becomes(s), UNCHANGED disk
  PROVE  Reaches(K) /\ GoesOn
<1>1. Sound(K, s) /\ (Answering(K, Page) => Answering(K, s)) /\ s.g.story = game.story
  BY HoldsMeans DEF Kept
<1>2. Reaches(K)
  BY <1>1, Reached
<1>3. game'.story = game.story
  BY <1>1 DEF Becomes
<1>4. GoesOn
  BY <1>3, StoryGoesOn
<1> QED
  BY <1>2, <1>4

(* A quiet and calm change of the game.                                      *)
LEMMA KeptQuietly ==
  ASSUME NEW K, NEW s, NEW h, Sound(K, s), h \in Games(K, s.n), Quiet(s.g, h), Calm(s.g, h)
  PROVE  /\ Kept(K, s, Put(s, h)) /\ Sound(K, Put(s, h))
         /\ Put(s, h).g = h /\ Put(s, h).n = s.n /\ Put(s, h).w = s.w
         /\ Kept(K, s, bumpRevision(Put(s, h)))
<1>1. Fits(K, s.n, s.w, h)
  BY PageFields, QuietFits
<1>2. Kept(K, s, Put(s, h)) /\ Put(s, h).g = h /\ Put(s, h).n = s.n /\ Put(s, h).w = s.w
  BY <1>1, KeptCalmly
<1>3. Sound(K, Put(s, h))
  BY <1>2 DEF Kept
<1>4. Kept(K, Put(s, h), bumpRevision(Put(s, h)))
  BY <1>3, KeptWhenBumped
<1>5. Kept(K, s, bumpRevision(Put(s, h)))
  BY <1>2, <1>4, KeptTwice
<1> QED
  BY <1>2, <1>3, <1>5

LEMMA ReachedQuietly ==
  ASSUME NEW K, NEW h, Holds(K), h \in Games(K, fresh), Quiet(game, h), Calm(game, h),
         Becomes(Put(Page, h)) \/ Becomes(bumpRevision(Put(Page, h))), UNCHANGED disk
  PROVE  Reaches(K) /\ GoesOn
<1>1. Kept(K, Page, Put(Page, h)) /\ Kept(K, Page, bumpRevision(Put(Page, h)))
  BY HoldsMeans, KeptQuietly
<1> QED
  BY <1>1, ReachedKept
-----------------------------------------------------------------------------
(* Proposals, endings, and what needs no request *)

(* The timer is set or has run.                                              *)
LEMMA TimerSound ==
  ASSUME NEW K, NEW s, NEW b \in BOOLEAN, Sound(K, s)
  PROVE  /\ Kept(K, s, [s EXCEPT !.t = b]) /\ [s EXCEPT !.t = b].g = s.g
         /\ [s EXCEPT !.t = b].n = s.n /\ [s EXCEPT !.t = b].w = s.w
<1> DEFINE p == [s EXCEPT !.t = b]
<1>1. p = [g |-> s.g, w |-> s.w, t |-> b, n |-> s.n] /\ s.n \in Nat
  BY PageFields DEF Sound
<1> HIDE DEF p
<1>2. Sound(K, p)
  BY <1>1 DEF Sound
<1>3. Answering(K, s) => Answering(K, p)
  BY <1>1 DEF Answering
<1> QED
  BY <1>1, <1>2, <1>3 DEF Kept, p

LEMMA EntersNode ==
  ASSUME NEW K, Holds(K), confirmNodeProposal
  PROVE  Reaches(K) /\ GoesOn
<1> DEFINE h == [game EXCEPT !.node = game.proposal, !.proposal = None, !.queue = << >>,
                             !.chain = 0, !.phase = "awaiting_player_action"]
           p == bumpRevision(Put(Page, h))
           q == [p EXCEPT !.t = TRUE]
<1>1. game \in Games(K, fresh) /\ Page.g = game /\ Page.n = fresh /\ Sound(K, Page)
  BY HoldsMeans
<1>2. /\ game.proposal \in Nodes /\ 0 \in Nat /\ << >> \in Seq(Checks(fresh))
      /\ "awaiting_player_action" \in Phases
  BY <1>1, GameFields DEF confirmNodeProposal, Phases
<1>3. h \in Games(K, fresh)
  <2>1. game \in Games(K, fresh)
    BY <1>1
  <2> QED
    BY <1>2, <2>1, Zenon DEF Games
<1>4. Quiet(game, h) /\ Calm(game, h)
  BY <1>1, <1>2 DEF Games, Quiet, Calm, Waiting, Phases
<1>5. Becomes(q)
  BY <1>1 DEF confirmNodeProposal, enterNode
<1> HIDE DEF h
<1>6. Kept(K, Page, p)
  BY <1>1, <1>3, <1>4, KeptQuietly
<1> HIDE DEF p
<1>7. Kept(K, p, q)
  BY <1>6, TimerSound DEF Kept
<1> HIDE DEF q
<1>8. Kept(K, Page, q)
  BY <1>1, <1>6, <1>7, KeptTwice
<1> QED
  BY <1>5, <1>8, ReachedKept DEF confirmNodeProposal

LEMMA RejectsNode ==
  ASSUME NEW K, Holds(K), rejectNodeProposal
  PROVE  Reaches(K) /\ GoesOn
<1> DEFINE g == [game EXCEPT !.proposal = None]
           h == [g EXCEPT !.phase = "awaiting_player_action"]
<1>1. game \in Games(K, fresh)
  BY HoldsMeans
<1>2. Becomes(Put(Page, g)) \/ Becomes(bumpRevision(Put(Page, h)))
  BY DEF rejectNodeProposal
<1>3. g \in Games(K, fresh) /\ h \in Games(K, fresh)
  <2>1. "awaiting_player_action" \in Phases
    BY DEF Phases
  <2>2. g \in Games(K, fresh)
    BY <1>1, ZenonT(30) DEF Games
  <2> HIDE DEF g
  <2>3. h \in Games(K, fresh)
    BY <2>1, <2>2, ZenonT(30) DEF Games
  <2> QED
    BY <2>2, <2>3
<1>4. Quiet(game, g) /\ Calm(game, g) /\ Quiet(game, h) /\ Calm(game, h)
  BY <1>1 DEF Games, Quiet, Calm, Waiting, Phases
<1> HIDE DEF g, h
<1> QED
  BY <1>2, <1>3, <1>4, ReachedQuietly DEF rejectNodeProposal

LEMMA Ends ==
  ASSUME NEW K, Holds(K), Becomes(applyEnding(Page)), UNCHANGED disk
  PROVE  Reaches(K) /\ GoesOn
<1> DEFINE h == [game EXCEPT !.ending = FALSE, !.proposal = None, !.phase = "campaign_ended"]
<1>1. game \in Games(K, fresh) /\ Page.g = game
  BY HoldsMeans
<1>2. Becomes(bumpRevision(Put(Page, h)))
  BY <1>1 DEF applyEnding
<1>3. h \in Games(K, fresh) /\ Quiet(game, h) /\ Calm(game, h)
  <2>1. h \in Games(K, fresh)
    <3>1. game \in Games(K, fresh)
      BY <1>1
    <3> QED
      BY <3>1, Zenon DEF Games, Phases
  <2>2. Quiet(game, h) /\ Calm(game, h)
    BY <1>1 DEF Games, Quiet, Calm, Waiting, Phases
  <2> QED
    BY <2>1, <2>2
<1> HIDE DEF h
<1> QED
  BY <1>2, <1>3, ReachedQuietly

LEMMA PlaysOn ==
  ASSUME NEW K, Holds(K), NEW h,
         \/ h = [game EXCEPT !.ending = FALSE, !.phase = "awaiting_player_action"]
         \/ h = [game EXCEPT !.failed = None, !.phase = "awaiting_player_action"]
         \/ h = [game EXCEPT !.phase = "awaiting_player_action"],
         Becomes(Put(Page, h)) \/ Becomes(bumpRevision(Put(Page, h))), UNCHANGED disk
  PROVE  Reaches(K) /\ GoesOn
<1>1. game \in Games(K, fresh)
  BY HoldsMeans
<1>2. h \in Games(K, fresh)
  <2>1. [game EXCEPT !.ending = FALSE, !.phase = "awaiting_player_action"] \in Games(K, fresh)
    BY <1>1, Zenon DEF Games, Phases
  <2>2. [game EXCEPT !.failed = None, !.phase = "awaiting_player_action"] \in Games(K, fresh)
    BY <1>1, Zenon DEF Games, Phases
  <2>3. [game EXCEPT !.phase = "awaiting_player_action"] \in Games(K, fresh)
    BY <1>1, Zenon DEF Games, Phases
  <2> QED
    BY <2>1, <2>2, <2>3
<1>3. Quiet(game, h) /\ Calm(game, h)
  BY <1>1 DEF Games, Quiet, Calm, Waiting, Phases
<1> QED
  BY <1>2, <1>3, ReachedQuietly

LEMMA EndingsAndRest ==
  ASSUME NEW K, Holds(K),
         \/ confirmEndingProposal \/ rejectEndingProposal \/ ChooseEnding
         \/ continueEpilogue \/ RecoverScene \/ LocalAid
  PROVE  Reaches(K) /\ GoesOn
<1> DEFINE a == [game EXCEPT !.ending = FALSE, !.phase = "awaiting_player_action"]
           b == [game EXCEPT !.failed = None, !.phase = "awaiting_player_action"]
           c == [game EXCEPT !.phase = "awaiting_player_action"]
<1>1. /\ UNCHANGED disk
      /\ \/ Becomes(applyEnding(Page))
         \/ Becomes(bumpRevision(Put(Page, a)))
         \/ Becomes(bumpRevision(Put(Page, b)))
         \/ Becomes(Put(Page, c))
         \/ Becomes(bumpRevision(Page))
  BY DEF confirmEndingProposal, rejectEndingProposal, ChooseEnding, continueEpilogue, RecoverScene,
         LocalAid
<1>2. CASE Becomes(applyEnding(Page))
  BY <1>1, <1>2, Ends
<1>3. CASE Becomes(bumpRevision(Put(Page, a)))
  BY <1>1, <1>3, PlaysOn
<1>4. CASE Becomes(bumpRevision(Put(Page, b)))
  BY <1>1, <1>4, PlaysOn
<1>5. CASE Becomes(Put(Page, c))
  BY <1>1, <1>5, PlaysOn
<1>6. CASE Becomes(bumpRevision(Page))
  BY <1>1, <1>6, HoldsMeans, KeptWhenBumped, ReachedKept
<1> QED
  BY <1>1, <1>2, <1>3, <1>4, <1>5, <1>6
-----------------------------------------------------------------------------
(* The save slot *)

(* What is saved may be loaded again: its snapshots stay behind.             *)
LEMMA SavesSlot ==
  ASSUME NEW K, Holds(K), saveCurrentSlot
  PROVE  Reaches(K) /\ GoesOn
<1> DEFINE h == serializeSave(game)
           L == K \cup {h}
<1>1. game \in Games(K, fresh) /\ Fits(K, fresh, wire, game) /\ fresh \in Nat /\ Sound(K, Page)
      /\ Page.n = fresh /\ Page.w = wire /\ Page.g = game
  BY HoldsMeans
<1>2. h \in Games(K, fresh)
  <2>1. game \in Games(K, fresh)
    BY <1>1
  <2> QED
    BY <2>1, Zenon DEF Games, serializeSave
<1>3. Quiet(game, h) /\ Calm(game, h)
  BY <1>1 DEF Games, serializeSave, Quiet, Calm
<1>4. disk' = h /\ game' = game /\ Page' = Page /\ fresh' = fresh
  BY DEF saveCurrentSlot, Page
<1> HIDE DEF h
<1>5. Fits(K, fresh, wire, h)
  BY <1>1, <1>2, <1>3, QuietFits
<1>6. Sound(L, Page)
  BY <1>1, <1>5, FitsGrows, SoundGrows
<1>7. AnswersOnce(game) => AnswersOnce(h)
  BY <1>3, CalmAnswers
<1>8. Answering(K, Page) => Answering(L, Page)
  BY <1>1, <1>7 DEF Answering
<1>9. /\ game' \in L /\ disk' \in L /\ Sound(L, Page') /\ fresh' <= MaxIds + 1
      /\ ~ strayed' /\ Answering(K, Page) => Answering(L, Page')
  BY <1>4, <1>6, <1>8 DEF Holds
<1>10. GoesOn
  <2>1. game'.story = game.story
    BY <1>4
  <2> QED
    BY <2>1, StoryGoesOn
<1> HIDE DEF L
<1> QED
  BY <1>9, <1>10 DEF Reaches

(* A loaded game waits for the retry of what was under way when it was       *)
(* saved.                                                                    *)
LEMMA LoadedFits ==
  ASSUME NEW K, NEW n, NEW w, NEW d, Fits(K, n, w, d)
  PROVE  /\ Fits(K, n, w, normalizeLoadedState(d))
         /\ AnswersOnce(d) => AnswersOnce(normalizeLoadedState(d))
<1> DEFINE g == [d EXCEPT !.ending = FALSE]
           h == normalizeLoadedState(d)
           Interrupted(kind, rec) ==
             [g EXCEPT !.phase = "error", !.failed = Failure(kind, g.action, rec, FALSE)]
<1>1. d \in Games(K, n)
  BY DEF Fits
<1>2. g \in Games(K, n) /\ Quiet(d, g) /\ Calm(d, g)
  <2>1. g \in Games(K, n)
    BY <1>1, Zenon DEF Games
  <2>2. Quiet(d, g) /\ Calm(d, g)
    BY <1>1 DEF Games, Quiet, Calm
  <2> QED
    BY <2>1, <2>2
<1>3. h = IF g.phase = "requesting_ai_continuation" /\ g.last # None
          THEN Interrupted("continuation", g.last)
          ELSE IF g.phase = "requesting_ai" /\ g.action # None THEN Interrupted("action", None)
          ELSE IF g.phase \in {"requesting_ai", "requesting_ai_continuation", "rolling"}
          THEN [g EXCEPT !.phase = IF g.check # None THEN "awaiting_check" ELSE "awaiting_player_action"]
          ELSE g
  BY DEF normalizeLoadedState
<1> HIDE DEF g, h
<1>4. Fits(K, n, w, g) /\ (AnswersOnce(d) => AnswersOnce(g))
  BY <1>2, QuietFits, CalmAnswers
<1>5. g \in Games(K, n) /\ g.action \in Past(n) \cup {None} /\ g.last \in Marks(n) \cup {None}
  BY <1>2, GameFields
<1>6. ASSUME NEW kind \in {"action", "continuation"}, NEW rec \in Marks(n) \cup {None},
             h = Interrupted(kind, rec),
             AnswersOnce(g) => CASE kind = "action" -> ~ Told(g, "reply", g.action)
                                 [] OTHER -> ~ Told(g, "continued", rec)
      PROVE  Fits(K, n, w, h) /\ (AnswersOnce(g) => AnswersOnce(h))
  <2> DEFINE f == Failure(kind, g.action, rec, FALSE)
  <2>1. f \in Failures(n) /\ f.kind = kind /\ f.turn = g.action /\ f.rec = rec
    <3>1. f \in Failures(n)
      BY <1>5 DEF Failure, Failures
    <3> QED
      BY <3>1 DEF Failure
  <2> HIDE DEF f
  <2>2. h = [g EXCEPT !.phase = "error", !.failed = f]
    BY <1>6 DEF f
  <2>3. h \in Games(K, n)
    <3>1. g \in Games(K, n) /\ f \in Failures(n)
      BY <1>5, <2>1
    <3> QED
      BY <2>2, <3>1, Zenon DEF Games, Phases
  <2>4. /\ Quiet(g, h) /\ h.phase = "error" /\ h.failed = f /\ h.story = g.story
        /\ h.rolled = g.rolled
    BY <1>5, <2>2 DEF Games, Quiet
  <2>5. AnswersOnce(g) => AnswersOnce(h)
    BY <1>6, <2>1, <2>4 DEF AnswersOnce, Settled, Told
  <2> QED
    BY <1>4, <2>3, <2>4, <2>5, QuietFits
<1>7. CASE g.phase = "requesting_ai_continuation" /\ g.last # None
  <2>1. h = Interrupted("continuation", g.last)
    BY <1>3, <1>7
  <2>2. AnswersOnce(g) => ~ Told(g, "continued", g.last)
    BY <1>7 DEF AnswersOnce
  <2> QED
    BY <1>4, <1>5, <1>6, <2>1, <2>2 DEF h
<1>8. CASE g.phase = "requesting_ai" /\ g.action # None
  <2>1. h = Interrupted("action", None)
    BY <1>3, <1>8
  <2>2. AnswersOnce(g) => ~ Told(g, "reply", g.action)
    BY <1>8 DEF AnswersOnce
  <2> QED
    BY <1>4, <1>6, <2>1, <2>2 DEF h
<1>9. CASE /\ ~ (g.phase = "requesting_ai_continuation" /\ g.last # None)
           /\ ~ (g.phase = "requesting_ai" /\ g.action # None)
           /\ g.phase \in {"requesting_ai", "requesting_ai_continuation", "rolling"}
  <2> DEFINE f == IF g.check # None THEN "awaiting_check" ELSE "awaiting_player_action"
  <2>1. f \in Phases /\ f \in Waiting
    BY DEF Phases, Waiting
  <2>2. h = [g EXCEPT !.phase = f]
    BY <1>3, <1>9
  <2> HIDE DEF f
  <2>3. h \in Games(K, n)
    <3>1. g \in Games(K, n)
      BY <1>5
    <3> QED
      BY <2>1, <2>2, <3>1, Zenon DEF Games
  <2>4. Quiet(g, h) /\ Calm(g, h)
    BY <1>5, <2>1, <2>2 DEF Games, Quiet, Calm
  <2> QED
    BY <1>4, <2>3, <2>4, QuietFits, CalmAnswers DEF h
<1>10. CASE /\ ~ (g.phase = "requesting_ai_continuation" /\ g.last # None)
            /\ ~ (g.phase = "requesting_ai" /\ g.action # None)
            /\ ~ (g.phase \in {"requesting_ai", "requesting_ai_continuation", "rolling"})
  <2>1. h = g
    BY <1>3, <1>10
  <2> QED
    BY <1>4, <2>1 DEF h
<1> QED
  BY <1>7, <1>8, <1>9, <1>10

LEMMA LoadsSlot ==
  ASSUME NEW K, Holds(K), loadSlot, wire # None => strayed'
  PROVE  Reaches(K)
<1> DEFINE h == normalizeLoadedState(disk)
           s == Put(Page, h)
<1>1. Sound(K, Page) /\ Page.w = wire /\ Page.n = fresh /\ Page.t = timer /\ Fits(K, fresh, wire, disk)
  BY HoldsMeans
<1>2. game' = h /\ wire' = wire /\ timer' = timer /\ fresh' = fresh /\ disk' = disk
  BY DEF loadSlot
<1> HIDE DEF h
<1>3. Fits(K, fresh, wire, h) /\ (AnswersOnce(disk) => AnswersOnce(h))
  BY <1>1, LoadedFits DEF h
<1>4. Sound(K, s) /\ s = [g |-> h, w |-> wire, t |-> timer, n |-> fresh]
      /\ (Answering(K, Page) /\ AnswersOnce(h) /\ Awaits(h, wire) => Answering(K, s))
  BY <1>1, <1>3, PutSound
<1>5. Becomes(s)
  BY <1>2, <1>4 DEF Becomes, Holds
<1>6. Answering(K, Page) => AnswersOnce(disk)
  BY DEF Answering, Holds
<1>7. wire = None => Awaits(h, wire)
  BY DEF Awaits
<1> HIDE DEF s
<1> QED
  BY <1>2, <1>3, <1>4, <1>5, <1>6, <1>7, Reached

LEMMA ImportsSave ==
  ASSUME NEW K, Holds(K), importSaveObject, wire # None => strayed'
  PROVE  Reaches(K)
<1> DEFINE h == sanitizeImportedRuntime(disk)
           s == Put(Page, h)
           L == K \cup {h}
<1>1. /\ Sound(K, Page) /\ Page.w = wire /\ Page.n = fresh /\ Page.t = timer
      /\ Fits(K, fresh, wire, disk) /\ fresh \in Nat
  BY HoldsMeans
<1>2. disk' = h /\ game' = h /\ wire' = wire /\ timer' = timer /\ fresh' = fresh
  BY DEF importSaveObject
<1>3. h \in Games(K, fresh)
  <2>1. disk \in Games(K, fresh) /\ 0 \in Nat /\ << >> \in Seq(Checks(fresh))
    BY <1>1 DEF Fits
  <2> QED
    BY <2>1, Zenon DEF Games, Phases, sanitizeImportedRuntime
<1>4. /\ Quiet(disk, h) /\ h.story = disk.story /\ h.failed = None /\ h.rolled = disk.rolled
      /\ h.phase = "awaiting_player_action"
  <2>1. disk \in Games(K, fresh)
    BY <1>1 DEF Fits
  <2> QED
    BY <2>1 DEF Games, sanitizeImportedRuntime, Quiet
<1> HIDE DEF h
<1>5. Fits(K, fresh, wire, h)
  BY <1>1, <1>3, <1>4, QuietFits
<1>6. AnswersOnce(disk) => AnswersOnce(h)
  BY <1>4 DEF AnswersOnce, Settled, Told
<1>7. Answering(K, Page) => AnswersOnce(disk)
  BY DEF Answering, Holds
<1>8. wire = None => Awaits(h, wire)
  BY DEF Awaits
<1>9. /\ Sound(K, s) /\ s = [g |-> h, w |-> wire, t |-> timer, n |-> fresh]
      /\ Answering(K, Page) /\ AnswersOnce(h) /\ Awaits(h, wire) => Answering(K, s)
  BY <1>1, <1>5, PutSound
<1>10. Page' = s
  BY <1>2, <1>9 DEF Page
<1> HIDE DEF s
<1>11. Sound(L, s)
  BY <1>9, SoundGrows
<1>12. Answering(K, s) => Answering(L, s)
  BY <1>9 DEF Answering
<1>13. /\ game' \in L /\ disk' \in L /\ Sound(L, Page') /\ fresh' <= MaxIds + 1
       /\ ~ strayed' /\ Answering(K, Page) => Answering(L, Page')
  BY <1>2, <1>6, <1>7, <1>8, <1>9, <1>10, <1>11, <1>12 DEF Holds
<1> HIDE DEF L
<1> QED
  BY <1>13 DEF Reaches

LEMMA Reopens ==
  ASSUME NEW K, Holds(K), Reopen
  PROVE  Reaches(K)
<1> DEFINE h == normalizeLoadedState(disk)
           p == [Page EXCEPT !.w = None]
           q == [p EXCEPT !.t = FALSE]
           s == Put(q, h)
<1>1. Sound(K, Page) /\ Page.n = fresh /\ Fits(K, fresh, wire, disk) /\ fresh \in Nat
  BY HoldsMeans
<1>2. game' = h /\ wire' = None /\ timer' = FALSE /\ fresh' = fresh /\ disk' = disk
  BY DEF Reopen
<1> HIDE DEF h
<1>3. Sound(K, p) /\ p.n = fresh /\ p.w = None /\ (Answering(K, Page) => Answering(K, p))
  BY <1>1, WireDropped
<1> HIDE DEF p
<1>4. Kept(K, p, q) /\ q.n = fresh /\ q.w = None /\ q.t = FALSE
  <2>1. Kept(K, p, q) /\ q.n = fresh /\ q.w = None
    BY <1>3, TimerSound
  <2>2. q.t = FALSE
    <3>1. p = [g |-> p.g, w |-> p.w, t |-> p.t, n |-> p.n]
      BY <1>3 DEF Sound
    <3> QED
      BY <3>1
  <2> QED
    BY <2>1, <2>2
<1> HIDE DEF q
<1>5. Sound(K, q) /\ (Answering(K, Page) => Answering(K, q))
  BY <1>3, <1>4 DEF Kept
<1>6. Fits(K, fresh, None, h) /\ (AnswersOnce(disk) => AnswersOnce(h))
  <2>1. Fits(K, fresh, None, disk)
    BY <1>1, FitsGrows
  <2> QED
    BY <2>1, LoadedFits DEF h
<1>7. /\ Sound(K, s) /\ s = [g |-> h, w |-> None, t |-> FALSE, n |-> fresh]
      /\ Answering(K, q) /\ AnswersOnce(h) /\ Awaits(h, None) => Answering(K, s)
  BY <1>4, <1>5, <1>6, PutSound
<1>8. Becomes(s)
  <2> HIDE DEF s
  <2>1. s.g = h /\ s.w = None /\ s.t = FALSE /\ s.n = fresh
    BY <1>7
  <2>2. timer' = s.t
    BY <1>2, <2>1, Zenon
  <2> QED
    BY <1>2, <2>1, <2>2 DEF Becomes, Holds
<1>9. Answering(K, Page) => AnswersOnce(disk)
  BY DEF Answering, Holds
<1>10. Awaits(h, None)
  BY DEF Awaits
<1> HIDE DEF s
<1> QED
  BY <1>2, <1>5, <1>6, <1>7, <1>8, <1>9, <1>10, Reached
-----------------------------------------------------------------------------
(* A turn taken back, and a recovery put aside *)

LEMMA Dismisses ==
  ASSUME NEW K, Holds(K), dismissApiRecovery
  PROVE  Reaches(K) /\ GoesOn
<1> DEFINE c == game.failed.kind = "continuation"
           last == IF c THEN None ELSE game.last
           action == IF c THEN None ELSE game.action
           h == [game EXCEPT !.failed = None, !.last = last, !.action = action]
           s == Put(Page, h)
<1>1. game \in Games(K, fresh)
  BY HoldsMeans
<1>2. last \in Marks(fresh) \cup {None} /\ action \in Past(fresh) \cup {None}
      /\ last \in {game.last, None} /\ action \in {game.action, None}
  BY <1>1, GameFields
<1>3. game' = h /\ wire' = wire /\ timer' = timer /\ fresh' = fresh /\ disk' = disk
  BY DEF dismissApiRecovery
<1> HIDE DEF last, action
<1>4. h \in Games(K, fresh)
  BY <1>1, <1>2, Zenon DEF Games
<1>5. Quiet(game, h) /\ Calm(game, h)
  BY <1>1, <1>2 DEF Games, Quiet, Calm
<1> HIDE DEF h
<1>6. Becomes(s)
  <2>1. s = [g |-> h, w |-> wire, t |-> timer, n |-> fresh]
    BY DEF Put, Page
  <2> QED
    BY <1>3, <2>1 DEF Becomes, Holds
<1> QED
  BY <1>3, <1>4, <1>5, <1>6, ReachedQuietly

(* The game before the turn, or the game as it is.                           *)
LEMMA RestoreFits ==
  ASSUME NEW K, NEW n, NEW w, NEW g, NEW r, n \in Nat, \A x \in K \cup {g} : Fits(K, n, w, x),
         r = restoreRequestRollback(g)
  PROVE  /\ Fits(K, n, w, r) /\ IsPrefix(BeforeLastTurn(g.story), r.story)
         /\ (\A x \in K \cup {g} : AnswersOnce(x)) => AnswersOnce(r)
<1> DEFINE b == g.rollback.game
<1>1. Fits(K, n, w, g) /\ g \in Games(K, n) /\ g.story \in Seq(Events(n))
  BY GameFields DEF Fits
<1>2. CASE g.rollback = None
  <2>1. r = g
    BY <1>2 DEF restoreRequestRollback
  <2>2. IsPrefix(BeforeLastTurn(g.story), g.story)
    BY <1>1, BeforeLastTurnFacts
  <2> QED
    BY <1>1, <2>1, <2>2
<1>3. CASE g.rollback # None
  <2>1. b \in K
    BY <1>1, <1>3, GameFields
  <2>2. Fits(K, n, w, b) /\ b \in Games(K, n)
    BY <2>1 DEF Fits
  <2>3. r = [b EXCEPT !.active = None, !.failed = None, !.last = None]
    BY <1>3 DEF restoreRequestRollback
  <2>4. IsPrefix(BeforeLastTurn(g.story), b.story)
    BY <1>1, <1>3 DEF Fits, TakesBack
  <2> HIDE DEF b
  <2>5. r \in Games(K, n)
    <3>1. b \in Games(K, n)
      BY <2>2
    <3> QED
      BY <2>3, <3>1, Zenon DEF Games
  <2>6. Quiet(b, r) /\ Calm(b, r) /\ r.story = b.story
    BY <2>2, <2>3 DEF Games, Quiet, Calm
  <2>7. Fits(K, n, w, r)
    BY <2>2, <2>5, <2>6, QuietFits
  <2>8. AnswersOnce(b) => AnswersOnce(r)
    BY <2>6, CalmAnswers
  <2> QED
    BY <2>1, <2>4, <2>6, <2>7, <2>8
<1> QED
  BY <1>2, <1>3

LEMMA Discards ==
  ASSUME NEW K, Holds(K), discardFailedTurn
  PROVE  Reaches(K) /\ GoesOn
<1> DEFINE r == restoreRequestRollback(game)
           h == [r EXCEPT !.action = None, !.phase = "awaiting_player_action"]
           s == Put(Page, h)
<1>1. /\ Sound(K, Page) /\ Page.w = wire /\ Page.n = fresh /\ Page.g = game /\ fresh \in Nat
      /\ \A x \in K \cup {game} : Fits(K, fresh, wire, x)
  BY HoldsMeans DEF Sound
<1>2. Becomes(s) /\ wire = None /\ UNCHANGED disk
  BY <1>1 DEF discardFailedTurn, NoRequest
<1> HIDE DEF r
<1>3. /\ Fits(K, fresh, wire, r) /\ IsPrefix(BeforeLastTurn(game.story), r.story)
      /\ (\A x \in K \cup {game} : AnswersOnce(x)) => AnswersOnce(r)
  <2>1. r = restoreRequestRollback(game)
    BY DEF r
  <2> QED
    BY <1>1, <2>1, RestoreFits
<1>4. r \in Games(K, fresh)
  BY <1>3 DEF Fits
<1>5. h \in Games(K, fresh)
  BY <1>4, Zenon DEF Games, Phases
<1>6. Quiet(r, h) /\ Calm(r, h) /\ h.story = r.story
  BY <1>4 DEF Games, Quiet, Calm, Waiting, Phases
<1> HIDE DEF h
<1>7. Fits(K, fresh, wire, h) /\ (AnswersOnce(r) => AnswersOnce(h))
  BY <1>3, <1>5, <1>6, QuietFits, CalmAnswers
<1>8. Awaits(h, wire)
  BY <1>2 DEF Awaits
<1>9. Sound(K, s) /\ s.g = h /\ (Answering(K, Page) => Answering(K, s))
  <2>1. /\ Sound(K, s) /\ s = [g |-> h, w |-> wire, t |-> Page.t, n |-> fresh]
        /\ Answering(K, Page) /\ AnswersOnce(h) /\ Awaits(h, wire) => Answering(K, s)
    BY <1>1, <1>7, PutSound
  <2>2. Answering(K, Page) => AnswersOnce(h)
    BY <1>1, <1>3, <1>7 DEF Answering
  <2> QED
    BY <1>8, <2>1, <2>2
<1> HIDE DEF s
<1>10. Reaches(K)
  BY <1>2, <1>9, Reached
<1>11. GoesOn
  BY <1>2, <1>3, <1>6, <1>9 DEF GoesOn, Becomes
<1> QED
  BY <1>10, <1>11

LEMMA Undoes ==
  ASSUME NEW K, Holds(K), undoLastTurn
  PROVE  Reaches(K) /\ GoesOn
<1> DEFINE r == game.undo.data
           h == [r EXCEPT !.phase = "awaiting_player_action"]
           s == Put(Page, h)
<1>1. /\ Sound(K, Page) /\ Page.w = wire /\ Page.n = fresh /\ Page.g = game /\ fresh \in Nat
      /\ \A x \in K \cup {game} : Fits(K, fresh, wire, x)
      /\ game \in Games(K, fresh) /\ Fits(K, fresh, wire, game)
  BY HoldsMeans DEF Sound
<1>2. Becomes(s) /\ wire = None /\ UNCHANGED disk /\ game.undo # None
  BY <1>1 DEF undoLastTurn, NoRequest
<1>3. r \in K
  BY <1>1, <1>2, GameFields
<1>4. Fits(K, fresh, wire, r) /\ r \in Games(K, fresh) /\ IsPrefix(BeforeLastTurn(game.story), r.story)
  BY <1>1, <1>2, <1>3 DEF Fits, TakesBack
<1> HIDE DEF r
<1>5. h \in Games(K, fresh)
  <2>1. r \in Games(K, fresh)
    BY <1>4
  <2> QED
    BY <2>1, Zenon DEF Games, Phases
<1>6. Quiet(r, h) /\ Calm(r, h) /\ h.story = r.story
  BY <1>4 DEF Games, Quiet, Calm, Waiting, Phases
<1> HIDE DEF h
<1>7. Fits(K, fresh, wire, h) /\ (AnswersOnce(r) => AnswersOnce(h))
  BY <1>4, <1>5, <1>6, QuietFits, CalmAnswers
<1>8. Awaits(h, wire)
  BY <1>2 DEF Awaits
<1>9. Sound(K, s) /\ s.g = h /\ (Answering(K, Page) => Answering(K, s))
  <2>1. /\ Sound(K, s) /\ s = [g |-> h, w |-> wire, t |-> Page.t, n |-> fresh]
        /\ Answering(K, Page) /\ AnswersOnce(h) /\ Awaits(h, wire) => Answering(K, s)
    BY <1>1, <1>7, PutSound
  <2>2. Answering(K, Page) => AnswersOnce(h)
    BY <1>3, <1>7 DEF Answering
  <2> QED
    BY <1>8, <2>1, <2>2
<1> HIDE DEF s
<1>10. Reaches(K)
  BY <1>2, <1>9, Reached
<1>11. GoesOn
  BY <1>2, <1>4, <1>6, <1>9 DEF GoesOn, Becomes
<1> QED
  BY <1>10, <1>11
-----------------------------------------------------------------------------
(* Checks that fire, and checks that are answered *)

(* The checks that fire are marked and come last in the queue.               *)
Fired(g, r) == markCheckTriggered([g EXCEPT !.queue = @ \o r], {c.id : c \in ToSet(r)})

LEMMA MarkedFits ==
  ASSUME NEW K, NEW n, NEW w, NEW g, NEW r, NEW h, n \in Nat \ {0}, Fits(K, n, w, g),
         w \in Wires(n) \cup {None}, Due(g, r),
         h = Fired(g, r)
  PROVE  Fits(K, n, w, h) /\ Calm(g, h)
<1> DEFINE q == g.queue \o r
           m == Len(g.queue)
           l == Len(r)
           ids == {c.id : c \in ToSet(r)}
           t == g.triggered \cup ids
<1>1. /\ g \in Games(K, n) /\ g.queue \in Seq(Checks(n)) /\ g.rolled \in Seq(Marks(n))
      /\ g.triggered \in SUBSET NodeCheckIds
  BY GameFields DEF Fits
<1>2. /\ r \in Seq(NodeCheck) /\ r \in Seq(Checks(n)) /\ \A i \in 1..l : r[i].id \in NodeCheckIds
      /\ \A i \in 1..l : r[i].id \notin g.triggered
      /\ \A i, j \in 1..l : r[i].id = r[j].id => i = j
  <2>1. /\ r \in Seq(NodeCheck)
        /\ \A i \in 1..l : r[i].id \notin g.triggered
        /\ \A i, j \in 1..l : r[i].id = r[j].id => i = j
    BY DEF Due
  <2>2. NodeCheck \subseteq Checks(n) /\ \A c \in NodeCheck : c.id \in NodeCheckIds
    BY NodeCheckTypes
  <2>3. \A i \in 1..l : r[i] \in NodeCheck
    BY <2>1
  <2>4. r \in Seq(Checks(n))
    BY <2>1, <2>2, SeqGrows
  <2> QED
    BY <2>1, <2>2, <2>3, <2>4
<1>3. ids \subseteq NodeCheckIds /\ \A i \in 1..l : r[i].id \in ids
  <2>1. \A c \in ToSet(r) : c \in NodeCheck
    BY <1>2, Elements
  <2>2. \A c \in NodeCheck : c.id \in NodeCheckIds
    BY NodeCheckTypes
  <2>3. \A i \in 1..l : r[i] \in ToSet(r)
    BY <1>2, Elements
  <2> QED
    BY <2>1, <2>2, <2>3
<1>4. /\ q \in Seq(Checks(n)) /\ DOMAIN q = 1..(m + l) /\ DOMAIN g.queue = 1..m
      /\ m \in Nat /\ l \in Nat
      /\ \A i \in 1..m : q[i] = g.queue[i]
      /\ \A i \in 1..l : q[m + i] = r[i]
  BY <1>1, <1>2
<1>5. \A i \in 1..(m + l) : i \in 1..m \/ \E j \in 1..l : i = m + j
  <2> SUFFICES ASSUME NEW i \in 1..(m + l), i \notin 1..m PROVE \E j \in 1..l : i = m + j
    OBVIOUS
  <2>1. i - m \in 1..l /\ i = m + (i - m)
    BY <1>4
  <2> QED
    BY <2>1
<1>6. t \in SUBSET NodeCheckIds /\ g.triggered \subseteq t /\ \A i \in 1..l : r[i].id \in t
  BY <1>1, <1>3
<1>7. h = [g EXCEPT !.queue = q, !.triggered = t]
  <2> DEFINE k == [g EXCEPT !.queue = q]
  <2>1. k.triggered = g.triggered
    BY <1>1 DEF Games
  <2>2. h = [k EXCEPT !.triggered = g.triggered \cup ids]
    <3> HIDE DEF ids, k
    <3>1. h = markCheckTriggered(k, ids)
      BY DEF k, ids, Fired
    <3> QED
      BY <2>1, <3>1 DEF markCheckTriggered
  <2> QED
    BY <2>2
<1> HIDE DEF q, m, l, t, ids
<1>8. /\ h.rolled = g.rolled /\ h.queue = q /\ h.triggered = t
      /\ h.story = g.story /\ h.rollback = g.rollback
      /\ h.undo = g.undo /\ h.check = g.check /\ h.failed = g.failed /\ h.last = g.last
      /\ h.action = g.action /\ h.phase = g.phase
  BY <1>1, <1>7 DEF Games
<1>9. h \in Games(K, n)
  BY <1>1, <1>4, <1>6, <1>7 DEF Games
<1>10. \A x : Called(g, x) /\ x \in NodeCheckIds => x \in g.triggered
  BY DEF Fits, RolledOnce
<1>11. \A i \in 1..l : ~ Called(g, r[i].id)
  BY <1>2, <1>10
<1>12. \A x : Called(h, x) => Called(g, x) \/ \E i \in 1..l : x = r[i].id
  <2> SUFFICES ASSUME NEW x, Called(h, x) PROVE Called(g, x) \/ \E i \in 1..l : x = r[i].id
    OBVIOUS
  <2>1. CASE x \in ToSet(h.rolled) \/ (h.check # None /\ x = h.check.id)
    BY <1>8, <2>1 DEF Called
  <2>2. CASE \E a \in DOMAIN q : x = q[a].id
    <3>1. PICK a \in DOMAIN q : x = q[a].id
      BY <2>2
    <3>2. CASE a \in 1..m
      BY <1>4, <3>1, <3>2 DEF Called
    <3>3. CASE \E j \in 1..l : a = m + j
      BY <1>4, <3>1, <3>3
    <3> QED
      BY <1>4, <1>5, <3>1, <3>2, <3>3
  <2> QED
    BY <1>8, <2>1, <2>2 DEF Called
<1>13. \A c \in NodeCheckIds : Called(h, c) => c \in h.triggered
  BY <1>6, <1>8, <1>10, <1>12
<1>14. \A i \in 1..(m + l) : q[i].id \notin ToSet(g.rolled) /\ (g.check # None => q[i].id # g.check.id)
  <2> SUFFICES ASSUME NEW i \in 1..(m + l)
               PROVE  q[i].id \notin ToSet(g.rolled) /\ (g.check # None => q[i].id # g.check.id)
    OBVIOUS
  <2>1. CASE i \in 1..m
    BY <1>4, <2>1 DEF Fits, RolledOnce
  <2>2. CASE \E j \in 1..l : i = m + j
    BY <1>4, <1>11, <2>2 DEF Called
  <2> QED
    BY <1>5, <2>1, <2>2
<1>15. \A i, j \in 1..(m + l) : q[i].id = q[j].id => i = j
  <2> SUFFICES ASSUME NEW i \in 1..(m + l), NEW j \in 1..(m + l), q[i].id = q[j].id PROVE i = j
    OBVIOUS
  <2>0. \A a \in 1..m, b \in 1..l : g.queue[a].id # r[b].id
    BY <1>4, <1>11 DEF Called
  <2>1. CASE i \in 1..m /\ j \in 1..m
    BY <1>4, <2>1 DEF Fits, RolledOnce
  <2>2. CASE i \in 1..m /\ \E b \in 1..l : j = m + b
    <3>1. PICK b \in 1..l : j = m + b
      BY <2>2
    <3> QED
      BY <1>4, <2>0, <2>2, <3>1
  <2>3. CASE j \in 1..m /\ \E a \in 1..l : i = m + a
    <3>1. PICK a \in 1..l : i = m + a
      BY <2>3
    <3> QED
      BY <1>4, <2>0, <2>3, <3>1
  <2>4. CASE (\E a \in 1..l : i = m + a) /\ (\E b \in 1..l : j = m + b)
    <3>1. PICK a \in 1..l, b \in 1..l : i = m + a /\ j = m + b
      BY <2>4
    <3>2. r[a].id = r[b].id
      BY <1>4, <3>1
    <3> QED
      BY <1>2, <3>1, <3>2
  <2> QED
    BY <1>5, <2>1, <2>2, <2>3, <2>4
<1>16. RolledOnce(h)
  <2>1. /\ IsInjective(g.rolled) /\ (g.check # None => g.check.id \notin ToSet(g.rolled))
        /\ DOMAIN q = 1..(m + l)
    BY <1>4 DEF Fits, RolledOnce
  <2> QED
    BY <1>8, <1>13, <1>14, <1>15, <2>1 DEF RolledOnce
<1>17. TakesBack(h)
  BY <1>8 DEF Fits, TakesBack
<1>18. Apart(h, w)
  <2> SUFFICES ASSUME w # None PROVE ~ Called(h, w.id) /\ ~ Told(h, "hint", w.id)
    BY DEF Apart
  <2>1. w.id \in Nat /\ w.id \notin NodeCheckIds
    <3>1. w.id \in Past(n)
      BY DEF Wires
    <3> QED
      BY <3>1, FreshIds, ScenarioAssumption
  <2> QED
    BY <1>2, <1>8, <1>12, <2>1 DEF Fits, Apart, Told
<1>19. Calm(g, h)
  BY <1>8 DEF Calm
<1> QED
  BY <1>9, <1>16, <1>17, <1>18, <1>19 DEF Fits

LEMMA QueuesNodeChecks ==
  ASSUME NEW K, Holds(K), queueNodeChecks
  PROVE  Reaches(K) /\ GoesOn
<1> DEFINE s == [Page EXCEPT !.t = FALSE]
           checks == nodeChecksForTrigger(game, "enter")
           marked == Fired(game, checks)
           p == bumpRevision(Put(s, marked))
           q == processCheckQueue(p)
<1>1. /\ Sound(K, Page) /\ Page.g = game /\ Page.n = fresh /\ Page.w = wire
      /\ fresh \in Nat \ {0} /\ Fits(K, fresh, wire, game) /\ wire \in Wires(fresh) \cup {None}
      /\ game.node \in Nodes
  BY HoldsMeans, GameFields
<1>2. Becomes(s) \/ Becomes(q)
  BY DEF queueNodeChecks, Fired
<1>3. UNCHANGED disk
  BY DEF queueNodeChecks
<1>4. Kept(K, Page, s) /\ s.g = game /\ s.n = fresh /\ s.w = wire
  BY <1>1, TimerSound
<1> HIDE DEF s
<1>5. Due(game, checks)
  BY <1>1, FiringDue
<1> HIDE DEF checks
<1>6. Fits(K, fresh, wire, marked) /\ Calm(game, marked)
  BY <1>1, <1>5, MarkedFits
<1> HIDE DEF marked
<1>7. Sound(K, s) /\ Kept(K, s, Put(s, marked))
  BY <1>4, <1>6, KeptCalmly DEF Kept
<1>8. Kept(K, Put(s, marked), p)
  BY <1>7, KeptWhenBumped DEF Kept
<1>9. Kept(K, s, p)
  BY <1>7, <1>8, KeptTwice
<1> HIDE DEF p
<1>10. Kept(K, p, q)
  BY <1>9, QueueKept DEF Kept
<1> HIDE DEF q
<1>11. Kept(K, s, q)
  BY <1>7, <1>9, <1>10, KeptTwice
<1>12. Kept(K, Page, q)
  BY <1>1, <1>4, <1>11, KeptTwice
<1> QED
  BY <1>2, <1>3, <1>4, <1>12, ReachedKept
LEMMA ResolvesCheck ==
  ASSUME NEW K, Holds(K), NEW skip \in BOOLEAN, resolvePendingCheck(skip)
  PROVE  Reaches(K) /\ GoesOn
<1> DEFINE x == game.check.id
           f == IF skip THEN game.phase ELSE "rolling"
           r == Append(game.rolled, x)
           h == [game EXCEPT !.rolled = r, !.check = None, !.phase = f]
           p == bumpRevision(Put(Page, h))
           q == requestContinuation(p, x)
<1>1. /\ Sound(K, Page) /\ Page.g = game /\ Page.n = fresh /\ Page.w = wire
      /\ fresh \in Nat \ {0} /\ Fits(K, fresh, wire, game) /\ game \in Games(K, fresh)
  BY HoldsMeans
<1>2. game.check # None /\ UNCHANGED disk /\ Becomes(q)
  BY DEF resolvePendingCheck
<1>3. game.check \in Checks(fresh) /\ game.rolled \in Seq(Marks(fresh)) /\ game.phase \in Phases
  BY <1>1, <1>2, GameFields
<1>4. x \in Marks(fresh)
  BY <1>3 DEF Checks
<1> HIDE DEF x
<1>5. r \in Seq(Marks(fresh)) /\ ToSet(r) = ToSet(game.rolled) \cup {x}
  BY <1>3, <1>4, Appended
<1>6. f \in Phases /\ f \in {game.phase} \cup Waiting
  BY <1>3 DEF Phases, Waiting
<1> HIDE DEF f
<1>7. h \in Games(K, fresh)
  <2>1. game \in Games(K, fresh) /\ r \in Seq(Marks(fresh)) /\ f \in Phases
    BY <1>1, <1>5, <1>6
  <2> HIDE DEF r
  <2> QED
    BY <2>1, Zenon DEF Games
<1>8. /\ h.rolled = Append(game.rolled, x) /\ h.story = game.story /\ h.triggered = game.triggered
      /\ h.queue = game.queue /\ h.rollback = game.rollback /\ h.undo = game.undo
      /\ h.check = None /\ h.failed = game.failed /\ h.last = game.last /\ h.action = game.action
      /\ h.phase = f
  BY <1>1 DEF Games
<1>9. Calm(game, h)
  BY <1>5, <1>6, <1>8 DEF Calm
<1> HIDE DEF h
<1>10. /\ Fits(K, fresh, wire, h)
       /\ AnswersOnce(game) => ~ Told(game, "continued", x) \/ x \notin NodeCheckIds \cup Nat
  <2>1. game.check # None /\ x = game.check.id
    BY <1>2 DEF x
  <2> QED
    <3>1. /\ Fits(K, fresh, wire, game) /\ h \in Games(K, fresh) /\ h.rolled = Append(game.rolled, x)
          /\ h.story = game.story /\ h.triggered = game.triggered /\ h.queue = game.queue
          /\ h.rollback = game.rollback /\ h.undo = game.undo
          /\ h.check = None /\ game.check # None /\ x = game.check.id /\ x \in Marks(fresh)
      BY <1>1, <1>4, <1>7, <1>8, <2>1
    <3> QED
      BY <3>1, RollFits
<1>11. x \in NodeCheckIds \cup Nat
  BY <1>1, <1>4, FreshIds
<1>12. Kept(K, Page, Put(Page, h)) /\ Put(Page, h).g = h /\ Put(Page, h).n = fresh
  BY <1>1, <1>9, <1>10, KeptCalmly
<1>13. Kept(K, Put(Page, h), p) /\ p.g = h /\ p.n = fresh
  BY <1>12, KeptWhenBumped, BumpSound DEF Kept
<1>14. Kept(K, Page, p)
  BY <1>1, <1>12, <1>13, KeptTwice
<1> HIDE DEF p
<1>15. /\ Sound(K, q) /\ q.n >= p.n /\ q.g.story = p.g.story
       /\ x \in ToSet(p.g.rolled) /\ ~ Told(p.g, "continued", x) =>
            (Answering(K, p) => Answering(K, q))
  BY <1>4, <1>13, <1>14, ContinuationSound DEF Kept
<1>16. x \in ToSet(p.g.rolled) /\ (AnswersOnce(game) => ~ Told(p.g, "continued", x))
  BY <1>5, <1>8, <1>10, <1>11, <1>13 DEF Told
<1>17. Answering(K, Page) => AnswersOnce(game)
  BY <1>1 DEF Answering
<1> HIDE DEF q
<1>18. Kept(K, Page, q)
  BY <1>14, <1>13, <1>15, <1>16, <1>17, <1>1 DEF Kept
<1> QED
  BY <1>2, <1>18, ReachedKept

-----------------------------------------------------------------------------
(* Requests *)

LEMMA RetriesContinuation ==
  ASSUME NEW K, Holds(K), retryContinuation
  PROVE  Reaches(K) /\ GoesOn
<1> DEFINE x == game.failed.rec
           q == requestContinuation(Page, x)
<1>1. /\ Sound(K, Page) /\ Page.g = game /\ Page.n = fresh /\ fresh \in Nat
      /\ game \in Games(K, fresh)
  BY HoldsMeans
<1>2. /\ game.failed # None /\ game.failed.kind = "continuation" /\ x \in ToSet(game.rolled)
      /\ Becomes(q) /\ UNCHANGED disk
  BY DEF retryContinuation
<1>3. x \in Marks(fresh)
  BY <1>1, <1>2, GameFields, Elements
<1>4. Answering(K, Page) => ~ Told(game, "continued", x)
  BY <1>1, <1>2 DEF Answering, AnswersOnce, Settled
<1> HIDE DEF x
<1>5. /\ Sound(K, q) /\ q.n >= Page.n /\ q.g.story = game.story
      /\ x \in ToSet(game.rolled) /\ ~ Told(game, "continued", x) =>
           (Answering(K, Page) => Answering(K, q))
  BY <1>1, <1>3, ContinuationSound
<1> HIDE DEF q
<1>6. Kept(K, Page, q)
  BY <1>1, <1>2, <1>4, <1>5 DEF Kept
<1> QED
  BY <1>2, <1>6, ReachedKept

(* The keeper is asked about a turn that was not answered.                   *)
LEMMA KeeperAsked ==
  ASSUME NEW K, NEW s, Sound(K, s), s.g.action # None
  PROVE  /\ Sound(K, AskKeeper(s)) /\ AskKeeper(s).n = s.n + 1
         /\ AskKeeper(s).g.story = s.g.story
         /\ Settled(s.g) /\ (\A g \in K : AnswersOnce(g)) /\ ~ Told(s.g, "reply", s.g.action) =>
              Answering(K, AskKeeper(s))
<1> DEFINE g == s.g
           k == [g EXCEPT !.active = s.n, !.phase = "requesting_ai"]
           q == AskKeeper(s)
<1>1. s.n \in Nat \ {0} /\ g \in Games(K, s.n) /\ g.action \in Past(s.n) \cup {None}
  BY PageFields, GameFields
<1>2. q = Send(s, "action", "requesting_ai", None, g.action)
  BY DEF AskKeeper
<1>3. "requesting_ai" \in Phases /\ "action" \in {"action", "continuation", "hint", "summary"}
      /\ None \in Marks(s.n) \cup {None}
  BY DEF Phases
<1>4. Sound(K, q) /\ q.n = s.n + 1
  <2> HIDE DEF g, q
  <2> QED
    BY <1>1, <1>2, <1>3, SendSound
<1>5. q.g = k /\ q.w = Request("action", s.n, None, g.action)
  BY <1>2 DEF Send
<1>6. /\ k.story = g.story /\ k.rolled = g.rolled /\ k.failed = g.failed /\ k.action = g.action
      /\ k.phase = "requesting_ai"
  BY <1>1 DEF Games
<1> HIDE DEF k, q
<1>7. ASSUME Settled(g), \A x \in K : AnswersOnce(x), ~ Told(g, "reply", g.action)
      PROVE  Answering(K, q)
  <2>1. AnswersOnce(k)
    BY <1>6, <1>7 DEF AnswersOnce, Settled, Told
  <2>2. Awaits(k, q.w)
    BY <1>5, <1>6, <1>7 DEF Awaits, Request, Told
  <2> QED
    BY <1>5, <1>7, <2>1, <2>2 DEF Answering
<1> QED
  BY <1>4, <1>5, <1>6, <1>7 DEF q

LEMMA RetriesTurn ==
  ASSUME NEW K, Holds(K), retryInitialRequest
  PROVE  Reaches(K) /\ GoesOn
<1> DEFINE x == game.failed.turn
           h == [game EXCEPT !.action = x]
           p == Put(Page, h)
           q == AskKeeper(p)
<1>1. /\ Sound(K, Page) /\ Page.g = game /\ Page.n = fresh /\ fresh \in Nat /\ Page.w = wire
      /\ game \in Games(K, fresh) /\ Fits(K, fresh, wire, game)
  BY HoldsMeans
<1>2. /\ game.failed # None /\ game.failed.kind = "action" /\ x # None /\ game.phase = "error"
      /\ Becomes(q) /\ UNCHANGED disk
  BY DEF retryInitialRequest
<1>3. x \in Past(fresh)
  <2>1. game.failed \in Failures(fresh)
    BY <1>1, <1>2, GameFields
  <2> QED
    BY <1>2, <2>1 DEF Failures
<1>4. Answering(K, Page) => AnswersOnce(game) /\ ~ Told(game, "reply", x)
  BY <1>1, <1>2 DEF Answering, AnswersOnce
<1> HIDE DEF x
<1>5. h \in Games(K, fresh) /\ Quiet(game, h)
  <2>1. game \in Games(K, fresh)
    BY <1>1
  <2>2. h \in Games(K, fresh)
    BY <1>3, <2>1, Zenon DEF Games
  <2>3. Quiet(game, h)
    BY <2>1 DEF Games, Quiet
  <2> QED
    BY <2>2, <2>3
<1>6. /\ h.story = game.story /\ h.rolled = game.rolled /\ h.failed = game.failed
      /\ h.action = x
  BY <1>1 DEF Games
<1> HIDE DEF h
<1>7. Fits(K, fresh, wire, h)
  BY <1>1, <1>5, QuietFits
<1>8. Sound(K, p) /\ p.g = h /\ p.n = fresh
  <2>1. Sound(K, p) /\ p = [g |-> h, w |-> wire, t |-> Page.t, n |-> fresh]
    BY <1>1, <1>7, PutSound
  <2> QED
    BY <2>1
<1> HIDE DEF p
<1>9. /\ Sound(K, q) /\ q.n = fresh + 1 /\ q.g.story = h.story
      /\ Settled(h) /\ (\A g \in K : AnswersOnce(g)) /\ ~ Told(h, "reply", x) => Answering(K, q)
  BY <1>2, <1>6, <1>8, KeeperAsked
<1>10. Answering(K, Page) => Settled(h) /\ (\A g \in K : AnswersOnce(g)) /\ ~ Told(h, "reply", x)
  BY <1>4, <1>6 DEF Answering, AnswersOnce, Settled, Told
<1> HIDE DEF q
<1>11. Kept(K, Page, q)
  BY <1>1, <1>6, <1>9, <1>10 DEF Kept
<1> QED
  BY <1>2, <1>11, ReachedKept
LEMMA AsksForHint ==
  ASSUME NEW K, Holds(K), requestDirectionHint, game.action # None => strayed'
  PROVE  Reaches(K) /\ GoesOn
<1> DEFINE k == [game EXCEPT !.active = fresh, !.phase = "requesting_ai"]
           p == Send(Page, "hint", "requesting_ai", None, None)
           h == [k EXCEPT !.hinting = TRUE]
           q == [p EXCEPT !.g.hinting = TRUE]
<1>1. /\ Sound(K, Page) /\ Page.g = game /\ Page.n = fresh /\ Page.t = timer
      /\ fresh \in Nat \ {0} /\ game \in Games(K, fresh)
  BY HoldsMeans
<1>2. Becomes(q) /\ UNCHANGED disk
  BY DEF requestDirectionHint
<1>3. Sound(K, p) /\ p.n = fresh + 1
  <2>1. /\ "requesting_ai" \in Phases /\ "hint" \in {"action", "continuation", "hint", "summary"}
        /\ None \in Marks(Page.n) \cup {None} /\ None \in Past(Page.n) \cup {None}
    BY DEF Phases
  <2> QED
    BY <1>1, <2>1, SendSound
<1>4. p = [g |-> k, t |-> timer, n |-> fresh + 1, w |-> Request("hint", fresh, None, None)]
  BY <1>1 DEF Send
<1>5. /\ k.story = game.story /\ k.rolled = game.rolled /\ k.failed = game.failed
      /\ k.action = game.action /\ k.phase = "requesting_ai"
  BY <1>1 DEF Games
<1> HIDE DEF k, p
<1>6. k \in Games(K, fresh + 1)
  BY <1>3, <1>4, PageFields
<1>7. h \in Games(K, fresh + 1) /\ Quiet(k, h) /\ Calm(k, h)
  <2>1. h \in Games(K, fresh + 1)
    BY <1>6, Zenon DEF Games
  <2>2. Quiet(k, h) /\ Calm(k, h)
    BY <1>6 DEF Games, Quiet, Calm
  <2> QED
    BY <2>1, <2>2
<1>8. q = Put(p, h)
  BY <1>4 DEF Put
<1> HIDE DEF h
<1>9. Kept(K, p, q)
  BY <1>3, <1>4, <1>7, <1>8, KeptQuietly
<1>10. ~ strayed' /\ Answering(K, Page) => Answering(K, p)
  <2> SUFFICES ASSUME ~ strayed', Answering(K, Page) PROVE Answering(K, p)
    OBVIOUS
  <2>1. AnswersOnce(k)
    BY <1>1, <1>5 DEF Answering, AnswersOnce, Settled, Told
  <2>2. Awaits(k, p.w)
    BY <1>4 DEF Awaits, Request
  <2> QED
    BY <1>4, <2>1, <2>2 DEF Answering
<1> HIDE DEF q
<1>11. Sound(K, q) /\ (~ strayed' /\ Answering(K, Page) => Answering(K, q)) /\ q.g.story = game.story
  BY <1>4, <1>5, <1>9, <1>10 DEF Kept
<1>12. Reaches(K)
  BY <1>2, <1>11, Reached
<1>13. game'.story = game.story
  BY <1>2, <1>11 DEF Becomes
<1> QED
  BY <1>12, <1>13, StoryGoesOn

LEMMA Summarizes ==
  ASSUME NEW K, Holds(K), summarizeContext, game.action # None \/ game.rollback # None => strayed'
  PROVE  Reaches(K) /\ GoesOn
<1> DEFINE h == [game EXCEPT !.summary = TRUE]
           v == Request("summary", fresh, None, None)
           n == fresh + 1
           q == [g |-> h, t |-> timer, n |-> n, w |-> v]
<1>1. /\ Sound(K, Page) /\ Page.g = game /\ fresh \in Nat \ {0} /\ game \in Games(K, fresh)
      /\ Fits(K, fresh, wire, game) /\ timer \in BOOLEAN
      /\ \A g \in K : Fits(K, fresh, wire, g)
  BY HoldsMeans DEF Sound
<1>2. Becomes(q) /\ UNCHANGED disk
  BY DEF summarizeContext
<1>3. h \in Games(K, fresh) /\ Quiet(game, h) /\ Calm(game, h)
  <2>1. game \in Games(K, fresh)
    BY <1>1
  <2>2. h \in Games(K, fresh)
    BY <2>1, Zenon DEF Games
  <2>3. Quiet(game, h) /\ Calm(game, h)
    BY <2>1 DEF Games, Quiet, Calm
  <2> QED
    BY <2>2, <2>3
<1>4. h.story = game.story /\ h.action = game.action /\ h.rollback = game.rollback
  BY <1>1 DEF Games
<1>5. v \in Wires(n) /\ v.id = fresh /\ v.kind = "summary"
  <2>1. fresh \in Past(n)
    BY <1>1, FreshIds
  <2> QED
    BY <2>1 DEF Request, Wires
<1>6. n \in Nat \ {0} /\ fresh <= n
  BY <1>1
<1> HIDE DEF h, v, n
<1>7. Fits(K, fresh, wire, h) /\ (AnswersOnce(game) => AnswersOnce(h))
  BY <1>1, <1>3, QuietFits, CalmAnswers
<1>8. ASSUME NEW g \in K \cup {h} PROVE Fits(K, n, v, g)
  <2>1. Fits(K, fresh, wire, g)
    BY <1>1, <1>7
  <2>2. g \in Games(K, fresh) /\ g \in Games(K, n)
    BY <1>1, <1>6, <2>1, GamesGrow DEF Fits
  <2>3. ~ Called(g, fresh) /\ ~ Told(g, "hint", fresh)
    BY <1>1, <2>2, FreshUnused
  <2> QED
    BY <1>5, <2>1, <2>2, <2>3 DEF Fits, Apart
<1>9. Sound(K, q)
  BY <1>1, <1>5, <1>6, <1>8 DEF Sound
<1>10. ~ strayed' /\ Answering(K, Page) => Answering(K, q)
  <2> SUFFICES ASSUME ~ strayed', Answering(K, Page) PROVE Answering(K, q)
    OBVIOUS
  <2>1. AnswersOnce(h)
    BY <1>1, <1>7 DEF Answering
  <2>2. Awaits(h, v)
    BY <1>4, <1>5 DEF Awaits
  <2> QED
    BY <2>1, <2>2 DEF Answering
<1>11. Reaches(K)
  <2> HIDE DEF q
  <2> QED
    BY <1>2, <1>9, <1>10, Reached
<1>12. game'.story = game.story
  BY <1>2, <1>4 DEF Becomes
<1> QED
  BY <1>11, <1>12, StoryGoesOn

LEMMA EndsSummary ==
  ASSUME NEW K, Holds(K), SummaryEnds
  PROVE  Reaches(K) /\ GoesOn
<1> DEFINE p == [Page EXCEPT !.w = None]
           h == [game EXCEPT !.summary = FALSE]
           q == [Page EXCEPT !.w = None, !.g.summary = FALSE]
<1>1. Sound(K, Page) /\ Page.g = game /\ Page.n = fresh /\ fresh \in Nat /\ game \in Games(K, fresh)
  BY HoldsMeans
<1>2. Becomes(q) /\ UNCHANGED disk
  BY DEF SummaryEnds
<1>3. /\ Sound(K, p) /\ p.g = game /\ p.n = fresh /\ p.w = None
      /\ Answering(K, Page) => Answering(K, p)
  BY <1>1, WireDropped
<1>4. Kept(K, Page, p)
  BY <1>1, <1>3 DEF Kept
<1>5. h \in Games(K, fresh) /\ Quiet(game, h) /\ Calm(game, h)
  <2>1. game \in Games(K, fresh)
    BY <1>1
  <2>2. h \in Games(K, fresh)
    BY <2>1, Zenon DEF Games
  <2>3. Quiet(game, h) /\ Calm(game, h)
    BY <2>1 DEF Games, Quiet, Calm
  <2> QED
    BY <2>2, <2>3
<1>6. q = Put(p, h)
  BY DEF Put, Page
<1> HIDE DEF p, h, q
<1>7. Kept(K, p, q)
  BY <1>3, <1>5, <1>6, KeptQuietly
<1>8. Kept(K, Page, q)
  BY <1>1, <1>4, <1>7, KeptTwice
<1> QED
  BY <1>2, <1>8, ReachedKept
-----------------------------------------------------------------------------
(* What is told, and what fails *)

(* The story goes on with something that is no turn.                         *)
LEMMA ToldFits ==
  ASSUME NEW K, NEW n, NEW g, NEW h, NEW e, Fits(K, n, None, g), h \in Games(K, n),
         e \in Events(n), e[1] # "turn", h.story = Append(g.story, e),
         h.rolled = g.rolled, h.triggered = g.triggered, h.check = g.check, h.queue = g.queue,
         h.rollback = g.rollback \/ h.rollback = None,
         h.undo # None => g.undo # None /\ h.undo.data = g.undo.data
  PROVE  Fits(K, n, None, h)
<1>1. BeforeLastTurn(h.story) = BeforeLastTurn(g.story)
  <2>1. g.story \in Seq(Events(n))
    BY GameFields DEF Fits
  <2> QED
    BY <2>1, BeforeLastTurnAppended
<1>2. TakesBack(h)
  BY <1>1 DEF Fits, TakesBack
<1>3. \A x : Called(h, x) => Called(g, x)
  BY DEF Called
<1>4. RolledOnce(h)
  BY <1>3 DEF Fits, RolledOnce
<1> QED
  BY <1>2, <1>4 DEF Fits, Apart

LEMMA ToldSettled ==
  ASSUME NEW n, NEW g, NEW h, NEW e, g.story \in Seq(Events(n)), e \in Events(n),
         h.story = Append(g.story, e), h.rolled = g.rolled, Settled(g),
         e \notin ToSet(g.story), e # <<"reply", None>>,
         e[1] = "continued" => e[2] \in ToSet(g.rolled),
         h.failed = None \/ (h.failed = g.failed /\ e[1] # "continued")
  PROVE  Settled(h) /\ \A what, x : Told(h, what, x) => Told(g, what, x) \/ e = <<what, x>>
<1>1. ToSet(h.story) = ToSet(g.story) \cup {e}
  BY Appended
<1>2. IsInjective(h.story)
  BY AppendedOnce DEF Settled
<1>3. \A what, x : Told(h, what, x) => Told(g, what, x) \/ e = <<what, x>>
  BY <1>1 DEF Told
<1>4. \A x : e = <<"continued", x>> => e[1] = "continued" /\ e[2] = x
  OBVIOUS
<1>5. \A r \in NodeCheckIds \cup Nat : Told(h, "continued", r) => r \in ToSet(h.rolled)
  BY <1>3, <1>4 DEF Settled
<1>6. ~ Told(h, "reply", None)
  BY <1>3 DEF Settled
<1>7. h.failed # None /\ h.failed.kind = "continuation" => ~ Told(h, "continued", h.failed.rec)
  BY <1>3, <1>4 DEF Settled
<1> QED
  BY <1>2, <1>3, <1>5, <1>6, <1>7 DEF Settled

LEMMA HintAnswered ==
  ASSUME NEW K, Holds(K), HintEnds
  PROVE  Reaches(K) /\ GoesOn
<1> DEFINE a == IF game.active = wire.id THEN None ELSE game.active
           g == [game EXCEPT !.active = a, !.hinting = FALSE, !.phase = "awaiting_player_action"]
           s == [Page EXCEPT !.w = None]
           e == <<"hint", wire.id>>
           h == Tell(g, e)
           q == Put(s, h)
<1>1. /\ Sound(K, Page) /\ Page.g = game /\ Page.n = fresh /\ Page.w = wire /\ fresh \in Nat
      /\ game \in Games(K, fresh) /\ Fits(K, fresh, wire, game) /\ wire \in Wires(fresh) \cup {None}
  BY HoldsMeans
<1>2. wire # None /\ UNCHANGED disk /\ (Becomes(Put(s, g)) \/ Becomes(q))
  BY DEF HintEnds
<1>3. /\ Sound(K, s) /\ s.g = game /\ s.n = fresh /\ s.w = None
      /\ Answering(K, Page) => Answering(K, s)
  BY <1>1, WireDropped
<1>4. Kept(K, Page, s)
  BY <1>1, <1>3 DEF Kept
<1>5. a \in Past(fresh) \cup {None}
  BY <1>1, GameFields
<1> HIDE DEF a
<1>6. g \in Games(K, fresh)
  <2>1. game \in Games(K, fresh)
    BY <1>1
  <2> QED
    BY <1>5, <2>1, Zenon DEF Games, Phases
<1>7. Quiet(game, g) /\ Calm(game, g) /\ g.phase = "awaiting_player_action" /\ g.story = game.story
  BY <1>1 DEF Games, Quiet, Calm, Waiting, Phases
<1> HIDE DEF g, s
<1>8. /\ Kept(K, s, Put(s, g)) /\ Sound(K, Put(s, g)) /\ Put(s, g).g = g
  BY <1>3, <1>6, <1>7, KeptQuietly
<1>9. CASE Becomes(Put(s, g))
  BY <1>1, <1>2, <1>4, <1>8, <1>9, KeptTwice, ReachedKept
<1>10. CASE Becomes(q)
  <2>1. e \in Events(fresh) /\ e[1] = "hint" /\ e # <<"reply", None>>
    BY <1>1, <1>2 DEF Events, Marks, Wires
  <2>2. g.story \in Seq(Events(fresh)) /\ e \notin ToSet(g.story)
    BY <1>1, <1>2, <1>6, <1>7, GameFields DEF Fits, Apart, Told
  <2> HIDE DEF e
  <2>3. Append(g.story, e) \in Seq(Events(fresh))
    BY <2>1, <2>2, Appended
  <2>4. h \in Games(K, fresh)
    BY <1>6, <2>3, Zenon DEF Games, Tell
  <2>5. /\ h.story = Append(g.story, e) /\ h.rolled = g.rolled /\ h.triggered = g.triggered
        /\ h.check = g.check /\ h.queue = g.queue /\ h.rollback = g.rollback /\ h.undo = g.undo
        /\ h.failed = g.failed /\ h.phase = g.phase
    BY <1>6 DEF Games, Tell
  <2> HIDE DEF h
  <2>6. Fits(K, fresh, None, g)
    BY <1>3, <1>6, <1>7, PageFields, QuietFits
  <2>7. Fits(K, fresh, None, h)
    BY <2>1, <2>4, <2>5, <2>6, ToldFits
  <2>8. Settled(g) => Settled(h)
    BY <2>1, <2>2, <2>5, ToldSettled
  <2>9. AnswersOnce(game) => AnswersOnce(h)
    BY <1>7, <2>5, <2>8, CalmAnswers DEF AnswersOnce
  <2>10. /\ Sound(K, q) /\ q = [g |-> h, w |-> s.w, t |-> s.t, n |-> s.n]
         /\ Answering(K, s) /\ AnswersOnce(h) /\ Awaits(h, s.w) => Answering(K, q)
    BY <1>3, <2>7, PutSound
  <2>11. Awaits(h, s.w)
    BY <1>3 DEF Awaits
  <2>12. Answering(K, Page) => Answering(K, q)
    BY <1>1, <1>3, <2>9, <2>10, <2>11 DEF Answering
  <2>13. q.g = h /\ q.n = fresh
    BY <1>3, <2>10
  <2> HIDE DEF q
  <2>14. Reaches(K)
    BY <1>2, <1>10, <2>10, <2>12, Reached
  <2>15. game'.story = Append(game.story, e) /\ fresh' = fresh
    BY <1>7, <1>10, <2>5, <2>13 DEF Becomes
  <2>16. GoesOn
    BY <1>1, <2>1, <2>15, StoryGoesOn
  <2> QED
    BY <2>14, <2>16
<1> QED
  BY <1>2, <1>9, <1>10

(* A page made of another one that tells and rolls nothing more.             *)
SameStory(s, q) ==
  q.n = s.n /\ q.w = s.w /\ q.g.story = s.g.story /\ q.g.rolled = s.g.rolled
FailedOn(q, kind) == q.g.phase = "error" /\ q.g.failed.kind = kind

(* A failure is recorded, with the player asked for a retry.                 *)
LEMMA HardFits ==
  ASSUME NEW K, NEW s, NEW kind, NEW turn, NEW rec, NEW q, Sound(K, s), s.w = None,
         kind \in {"action", "continuation"}, turn \in Past(s.n) \cup {None},
         rec \in Marks(s.n) \cup {None}, q = HardFailure(s, kind, turn, rec)
  PROVE  /\ Sound(K, q) /\ SameStory(s, q) /\ FailedOn(q, kind)
         /\ /\ Settled(s.g) /\ \A g \in K : AnswersOnce(g)
            /\ kind = "action" => ~ Told(s.g, "reply", turn)
            /\ kind = "continuation" => ~ Told(s.g, "continued", rec)
            => Answering(K, q)
<1> DEFINE g == s.g
           f == Failure(kind, turn, rec, FALSE)
           h == [g EXCEPT !.active = None, !.phase = "error", !.failed = f]
<1>1. Fits(K, s.n, None, g) /\ g \in Games(K, s.n)
  BY PageFields
<1>2. f \in Failures(s.n) /\ f.kind = kind /\ f.turn = turn /\ f.rec = rec
  BY DEF Failure, Failures
<1>3. q = Put(s, h)
  BY DEF HardFailure
<1> HIDE DEF g, f
<1>4. h \in Games(K, s.n)
  <2>1. g \in Games(K, s.n)
    BY <1>1
  <2>2. f \in Failures(s.n) \cup {None}
    BY <1>2
  <2>3. "awaiting_player_action" \in Phases /\ "error" \in Phases
    BY DEF Phases
  <2> QED
    BY <2>1, <2>2, <2>3, ZenonT(150) DEF Games
<1>5. Quiet(g, h) /\ h.phase = "error" /\ h.failed = f /\ h.rolled = g.rolled /\ h.story = g.story
  BY <1>1 DEF Games, Quiet
<1> HIDE DEF h
<1>6. Fits(K, s.n, None, h)
  BY <1>1, <1>4, <1>5, QuietFits
<1>7. Sound(K, q) /\ q = [g |-> h, w |-> s.w, t |-> s.t, n |-> s.n]
  BY <1>3, <1>6, PutSound
<1>8. q.g = h /\ q.n = s.n /\ q.w = None
  BY <1>7
<1>9. ASSUME Settled(g), \A x \in K : AnswersOnce(x), kind = "action" => ~ Told(g, "reply", turn),
             kind = "continuation" => ~ Told(g, "continued", rec)
      PROVE  Answering(K, q)
  <2>1. AnswersOnce(h)
    BY <1>2, <1>5, <1>9 DEF AnswersOnce, Settled, Told
  <2>2. Awaits(h, q.w)
    BY <1>8 DEF Awaits
  <2> QED
    BY <1>8, <1>9, <2>1, <2>2 DEF Answering
<1> QED
  BY <1>2, <1>5, <1>7, <1>8, <1>9 DEF g, SameStory, FailedOn

(* A failure is recorded and the game goes on, an action's turn taken back.  *)
LEMMA SoftFits ==
  ASSUME NEW K, NEW s, NEW kind, NEW turn, NEW rec, NEW q, Sound(K, s), s.w = None,
         kind \in {"action", "continuation"}, turn \in Past(s.n) \cup {None},
         rec \in Marks(s.n) \cup {None}, q = recoverApiRequestFailure(s, kind, turn, rec)
  PROVE  /\ Sound(K, q) /\ q.n = s.n /\ IsPrefix(BeforeLastTurn(s.g.story), q.g.story)
         /\ Answering(K, s) /\ (kind = "continuation" => ~ Told(s.g, "continued", rec)) =>
              Answering(K, q)
<1> DEFINE r == restoreRequestRollback(s.g)
           g == IF kind = "action" THEN [r EXCEPT !.action = None] ELSE s.g
           f == Failure(kind, turn, rec, TRUE)
           h == [g EXCEPT !.active = None, !.phase = "awaiting_player_action", !.failed = f]
           p == Put(s, h)
<1>1. Fits(K, s.n, None, s.g) /\ s.g \in Games(K, s.n) /\ s.n \in Nat \ {0}
  BY PageFields
<1>2. f \in Failures(s.n) /\ f.kind = kind /\ f.rec = rec
  BY DEF Failure, Failures
<1>3. q = bumpRevision(p)
  BY DEF recoverApiRequestFailure
<1> HIDE DEF f, r
<1>4. /\ Fits(K, s.n, None, r) /\ IsPrefix(BeforeLastTurn(s.g.story), r.story)
      /\ (\A x \in K \cup {s.g} : AnswersOnce(x)) => AnswersOnce(r)
  <2>1. r = restoreRequestRollback(s.g)
    BY DEF r
  <2>2. \A x \in K \cup {s.g} : Fits(K, s.n, None, x)
    BY DEF Sound
  <2> QED
    BY <1>1, <2>1, <2>2, RestoreFits
<1>5. /\ g \in Games(K, s.n) /\ Fits(K, s.n, None, g) /\ IsPrefix(BeforeLastTurn(s.g.story), g.story)
      /\ (\A x \in K \cup {s.g} : AnswersOnce(x)) => Settled(g)
      /\ kind = "continuation" => g = s.g
  <2>1. CASE kind = "action"
    <3> DEFINE k == [r EXCEPT !.action = None]
    <3>1. r \in Games(K, s.n)
      BY <1>4 DEF Fits
    <3>2. k \in Games(K, s.n)
      BY <3>1, ZenonT(60) DEF Games
    <3>3. Quiet(r, k) /\ Calm(r, k) /\ k.story = r.story
      BY <3>1 DEF Games, Quiet, Calm
    <3>4. g = k
      BY <2>1
    <3> HIDE DEF k, g
    <3>5. Fits(K, s.n, None, k) /\ (AnswersOnce(r) => AnswersOnce(k))
      BY <1>4, <3>2, <3>3, QuietFits, CalmAnswers
    <3> QED
      BY <1>4, <2>1, <3>2, <3>3, <3>4, <3>5 DEF AnswersOnce
  <2>2. CASE kind = "continuation"
    <3>1. g = s.g
      BY <2>2
    <3>2. IsPrefix(BeforeLastTurn(s.g.story), s.g.story)
      BY <1>1, GameFields, BeforeLastTurnFacts
    <3> HIDE DEF g
    <3> QED
      BY <1>1, <3>1, <3>2 DEF AnswersOnce
  <2> QED
    BY <2>1, <2>2
<1> HIDE DEF g
<1>6. h \in Games(K, s.n)
  <2>1. g \in Games(K, s.n)
    BY <1>5
  <2>2. f \in Failures(s.n) \cup {None}
    BY <1>2
  <2>3. "awaiting_player_action" \in Phases /\ "error" \in Phases
    BY DEF Phases
  <2> QED
    BY <2>1, <2>2, <2>3, ZenonT(150) DEF Games
<1>7. /\ Quiet(g, h) /\ h.phase = "awaiting_player_action" /\ h.failed = f /\ h.rolled = g.rolled
      /\ h.story = g.story
  BY <1>5 DEF Games, Quiet
<1> HIDE DEF h
<1>8. Fits(K, s.n, None, h)
  BY <1>5, <1>6, <1>7, QuietFits
<1>9. Sound(K, p) /\ p = [g |-> h, w |-> s.w, t |-> s.t, n |-> s.n]
  BY <1>8, PutSound
<1>10. p.g = h /\ p.n = s.n /\ p.w = None
  BY <1>9
<1>11. q = p
  BY <1>3, <1>9, <1>10, BumpSound
<1> HIDE DEF p
<1>12. ASSUME Answering(K, s), kind = "continuation" => ~ Told(s.g, "continued", rec)
       PROVE  Answering(K, q)
  <2>1. \A x \in K \cup {s.g} : AnswersOnce(x)
    BY <1>12 DEF Answering
  <2>2. kind = "continuation" => ~ Told(g, "continued", rec)
    BY <1>5, <1>12
  <2>3. AnswersOnce(h)
    BY <1>2, <1>5, <1>7, <2>1, <2>2 DEF AnswersOnce, Settled, Told
  <2>4. Awaits(h, p.w)
    BY <1>10 DEF Awaits
  <2> QED
    BY <1>10, <1>11, <2>1, <2>3, <2>4 DEF Answering
<1> QED
  BY <1>5, <1>7, <1>9, <1>10, <1>11, <1>12

(* The request failed that was under way.                                    *)
LEMMA FailureRecorded ==
  ASSUME NEW K, NEW s, NEW w, NEW soft, NEW q, Sound(K, s), s.w = None, w \in Wires(s.n), w # None,
         w.kind \in {"action", "continuation"}, q = recordRequestFailure(s, w, soft)
  PROVE  /\ Sound(K, q) /\ q.n = s.n /\ IsPrefix(BeforeLastTurn(s.g.story), q.g.story)
         /\ Answering(K, s) /\ Awaits(s.g, w) => Answering(K, q)
<1>1. w.turn \in Past(s.n) \cup {None} /\ w.rec \in Marks(s.n) \cup {None}
  BY DEF Wires
<1>2. CASE soft
  <2>1. q = recoverApiRequestFailure(s, w.kind, w.turn, w.rec)
    BY <1>2 DEF recordRequestFailure
  <2> DEFINE kind == w.kind
             turn == w.turn
             rec == w.rec
  <2>2. Awaits(s.g, w) /\ kind = "continuation" => ~ Told(s.g, "continued", rec)
    BY DEF Awaits
  <2>3. /\ q = recoverApiRequestFailure(s, kind, turn, rec) /\ kind \in {"action", "continuation"}
        /\ turn \in Past(s.n) \cup {None} /\ rec \in Marks(s.n) \cup {None}
    BY <1>1, <2>1
  <2> HIDE DEF kind, turn, rec
  <2> QED
    BY <2>2, <2>3, SoftFits
<1>3. CASE ~ soft
  <2> DEFINE kind == w.kind
             turn == w.turn
             rec == w.rec
  <2>1. q = HardFailure(s, kind, turn, rec)
    BY <1>3 DEF recordRequestFailure
  <2>2. /\ Awaits(s.g, w) /\ kind = "action" => ~ Told(s.g, "reply", turn)
        /\ Awaits(s.g, w) /\ kind = "continuation" => ~ Told(s.g, "continued", rec)
    BY DEF Awaits
  <2>3. /\ kind \in {"action", "continuation"}
        /\ turn \in Past(s.n) \cup {None} /\ rec \in Marks(s.n) \cup {None}
    BY <1>1
  <2> HIDE DEF kind, turn, rec
  <2>4. Answering(K, s) => Settled(s.g) /\ \A x \in K : AnswersOnce(x)
    BY DEF Answering, AnswersOnce
  <2>5. Sound(K, q) /\ SameStory(s, q)
    BY <2>1, <2>3, HardFits
  <2>7. ASSUME Settled(s.g), \A g \in K : AnswersOnce(g),
               kind = "action" => ~ Told(s.g, "reply", turn),
               kind = "continuation" => ~ Told(s.g, "continued", rec)
        PROVE  Answering(K, q)
    BY <2>1, <2>3, <2>7, HardFits
  <2>6. IsPrefix(BeforeLastTurn(s.g.story), s.g.story)
    BY PageFields, GameFields, BeforeLastTurnFacts
  <2> QED
    BY <2>2, <2>4, <2>5, <2>6, <2>7 DEF SameStory
<1> QED
  BY <1>2, <1>3

(* A page without the request, and what came of it.                          *)
LEMMA FailureReached ==
  ASSUME NEW K, NEW q, Holds(K), Sound(K, q), Becomes(q), UNCHANGED disk,
         ~ strayed' /\ Answering(K, Page) => Answering(K, q),
         IsPrefix(BeforeLastTurn(game.story), q.g.story)
  PROVE  Reaches(K) /\ GoesOn
<1>1. Reaches(K)
  BY Reached
<1>2. GoesOn
  BY DEF GoesOn, Becomes
<1> QED
  BY <1>1, <1>2

LEMMA Cancels ==
  ASSUME NEW K, Holds(K), cancelActiveRequest
  PROVE  Reaches(K) /\ GoesOn
<1> DEFINE s == [Page EXCEPT !.w = None]
           turn == IF game.action = None /\ game.rollback # None THEN game.rollback.turn
                                                                 ELSE game.action
           p == HardFailure(s, "action", turn, game.last)
<1>1. /\ Sound(K, Page) /\ Page.g = game /\ Page.n = fresh /\ Page.w = wire
      /\ game \in Games(K, fresh) /\ wire \in Wires(fresh) \cup {None} /\ fresh \in Nat
  BY HoldsMeans
<1>2. wire # None /\ wire \in Wires(fresh) /\ UNCHANGED disk
  BY <1>1 DEF cancelActiveRequest
<1>3. wire.kind \in {"action", "continuation", "hint", "summary"}
  BY <1>2 DEF Wires
<1>4. /\ Sound(K, s) /\ s.g = game /\ s.n = fresh /\ s.w = None
      /\ Answering(K, Page) => Answering(K, s) /\ Awaits(game, wire)
  BY <1>1, WireDropped DEF Answering
<1>5. CASE wire.kind \in {"action", "continuation"}
  <2> DEFINE q == recordRequestFailure(s, wire, FALSE)
  <2>1. Becomes(q)
    BY <1>5 DEF cancelActiveRequest
  <2> HIDE DEF s
  <2>2. /\ Sound(K, q) /\ IsPrefix(BeforeLastTurn(s.g.story), q.g.story)
        /\ Answering(K, s) /\ Awaits(s.g, wire) => Answering(K, q)
    BY <1>2, <1>4, <1>5, FailureRecorded
  <2> HIDE DEF q
  <2> QED
    BY <1>2, <1>4, <2>1, <2>2, FailureReached
<1>6. turn \in Past(fresh) \cup {None} /\ game.last \in Marks(fresh) \cup {None}
  <2>1. /\ game.rollback \in [turn : Past(fresh), game : K] \cup {None}
        /\ game.action \in Past(fresh) \cup {None} /\ game.last \in Marks(fresh) \cup {None}
    BY <1>1, GameFields
  <2> QED
    BY <2>1
<1> DEFINE last == game.last
<1>7. /\ Sound(K, p) /\ SameStory(s, p) /\ FailedOn(p, "action")
      /\ Settled(s.g) /\ (\A g \in K : AnswersOnce(g)) /\ ~ Told(s.g, "reply", turn) =>
           Answering(K, p)
  <2>1. p = HardFailure(s, "action", turn, last) /\ last \in Marks(fresh) \cup {None}
    BY <1>6
  <2> HIDE DEF s, turn, last, p
  <2>2. "action" \in {"action", "continuation"} /\ "action" # "continuation"
    OBVIOUS
  <2> DEFINE kind == "action"
  <2>3. /\ kind \in {"action", "continuation"} /\ kind # "continuation"
        /\ p = HardFailure(s, kind, turn, last)
    BY <2>1
  <2> HIDE DEF kind
  <2>4. Sound(K, p) /\ SameStory(s, p) /\ FailedOn(p, kind)
    BY <1>4, <1>6, <2>1, <2>3, HardFits
  <2>5. ASSUME Settled(s.g), \A g \in K : AnswersOnce(g), ~ Told(s.g, "reply", turn)
        PROVE  Answering(K, p)
    BY <1>4, <1>6, <2>1, <2>3, <2>5, HardFits
  <2> QED
    BY <2>4, <2>5 DEF kind
<1>8. /\ p.n = fresh /\ p.w = None /\ p.g.story = game.story /\ p.g.rolled = game.rolled
      /\ p.g \in Games(K, fresh)
  BY <1>4, <1>7, PageFields DEF SameStory
<1>9. Answering(K, Page) => Settled(game) /\ \A g \in K : AnswersOnce(g)
  BY <1>1 DEF Answering, AnswersOnce
<1>10. CASE wire.kind = "hint"
  <2> DEFINE h == [p.g EXCEPT !.hinting = FALSE, !.phase = "awaiting_player_action"]
             q == Put(p, h)
  <2>1. Becomes(q)
    <3>1. Becomes([p EXCEPT !.g.hinting = FALSE, !.g.phase = "awaiting_player_action"])
      BY <1>10 DEF cancelActiveRequest
    <3>2. p = [g |-> p.g, w |-> p.w, t |-> p.t, n |-> p.n]
      BY <1>7, PageFields
    <3> HIDE DEF p
    <3>3. [p EXCEPT !.g.hinting = FALSE, !.g.phase = "awaiting_player_action"] = q
      BY <3>2 DEF Put
    <3> QED
      BY <3>1, <3>3
  <2> HIDE DEF p
  <2>2. h \in Games(K, fresh)
    <3>1. p.g \in Games(K, fresh)
      BY <1>8
    <3> QED
      BY <3>1, ZenonT(30) DEF Games, Phases
  <2>3. /\ Quiet(p.g, h) /\ h.story = game.story /\ h.rolled = game.rolled
        /\ h.failed = p.g.failed /\ h.phase = "awaiting_player_action"
    BY <1>8 DEF Games, Quiet
  <2> HIDE DEF h
  <2>4. Fits(K, fresh, None, h)
    BY <1>7, <1>8, <2>2, <2>3, PageFields, QuietFits
  <2>5. /\ Sound(K, q) /\ q = [g |-> h, w |-> p.w, t |-> p.t, n |-> p.n]
    BY <1>7, <1>8, <2>4, PutSound
  <2>6. q.g = h /\ q.w = None
    BY <1>8, <2>5
  <2>7. Settled(game) => AnswersOnce(h)
    BY <1>7, <2>3 DEF AnswersOnce, Settled, Told, FailedOn
  <2>8. Answering(K, Page) => Answering(K, q)
    BY <1>9, <2>6, <2>7 DEF Answering, Awaits
  <2> HIDE DEF q
  <2>9. Reaches(K)
    BY <1>2, <2>1, <2>5, <2>8, Reached
  <2>10. game'.story = game.story
    BY <2>1, <2>3, <2>6 DEF Becomes
  <2> QED
    BY <2>9, <2>10, StoryGoesOn
<1>11. CASE wire.kind = "summary"
  <2> DEFINE h == [p.g EXCEPT !.summary = FALSE]
             q == Put(p, h)
  <2>1. Becomes(q)
    <3>1. Becomes([p EXCEPT !.g.summary = FALSE])
      BY <1>11 DEF cancelActiveRequest
    <3>2. p = [g |-> p.g, w |-> p.w, t |-> p.t, n |-> p.n]
      BY <1>7, PageFields
    <3> HIDE DEF p
    <3>3. [p EXCEPT !.g.summary = FALSE] = q
      BY <3>2 DEF Put
    <3> QED
      BY <3>1, <3>3
  <2>2. Awaits(game, wire) => turn = None
    BY <1>2, <1>11 DEF Awaits
  <2>3. Answering(K, Page) => Answering(K, p)
    BY <1>4, <1>7, <1>9, <2>2 DEF Settled
  <2> HIDE DEF p
  <2>4. h \in Games(K, fresh)
    <3>1. p.g \in Games(K, fresh)
      BY <1>8
    <3> QED
      BY <3>1, ZenonT(30) DEF Games
  <2>5. Quiet(p.g, h) /\ Calm(p.g, h)
    BY <1>8 DEF Games, Quiet, Calm
  <2> HIDE DEF h
  <2>6. Kept(K, p, q)
    BY <1>7, <1>8, <2>4, <2>5, KeptQuietly
  <2> HIDE DEF q
  <2>7. Kept(K, Page, q)
    BY <1>1, <1>8, <2>3, <2>6 DEF Kept
  <2> QED
    BY <1>2, <2>1, <2>7, ReachedKept
<1> QED
  BY <1>3, <1>5, <1>10, <1>11
-----------------------------------------------------------------------------
(* A turn begins *)

(* The page whose turn has begun, beside the games of M: those of K and the  *)
(* two snapshots.                                                            *)
Begun(K, M, s) ==
  /\ K \subseteq M /\ Sound(M, s) /\ s.w = None /\ s.n = fresh + 1 /\ s.g.action = fresh
  /\ s.g.story = Append(game.story, <<"turn", fresh>>) /\ s.g.triggered = game.triggered
  /\ ~ Told(s.g, "reply", fresh)
  /\ Answering(K, Page) => Answering(M, s)

LEMMA BeginsTurn ==
  ASSUME NEW K, Holds(K), CanSend
  PROVE  \E M : Begun(K, M, beginTurn(Page))
<1> DEFINE n == fresh
           m == n + 1
           e == <<"turn", n>>
           R == [game EXCEPT !.rollback = None]
           back == [turn |-> n, game |-> R]
           c == [game EXCEPT !.rollback = back]
           U == [c EXCEPT !.undo = None, !.active = None, !.failed = None]
           undo == [committed |-> FALSE, data |-> U]
           d == [c EXCEPT !.undo = undo]
           told == Append(game.story, e)
           b == [d EXCEPT !.action = n, !.story = told]
           s == beginTurn(Page)
           L == K \cup {R}
           M == K \cup {R, U}
<1>1. /\ Sound(K, Page) /\ Page.g = game /\ Page.w = wire /\ Page.t = timer /\ Page.n = n
      /\ game \in Games(K, n) /\ Fits(K, n, wire, game) /\ n \in Nat \ {0} /\ timer \in BOOLEAN
      /\ wire = None /\ game.phase = "awaiting_player_action"
  BY HoldsMeans DEF CanSend
<1>2. \A g \in K : Fits(K, n, None, g)
  BY <1>1 DEF Sound
<1>3. m \in Nat \ {0} /\ n \in Past(m) /\ n \in Nat /\ n <= m /\ n # None /\ n \in Marks(m)
  BY <1>1, FreshIds
<1>4. s = [g |-> b, w |-> None, t |-> timer, n |-> m]
  <2>1. captureRequestRollback(game, n) = c
    BY DEF captureRequestRollback
  <2>2. captureTurnSnapshot(c) = d
    BY DEF captureTurnSnapshot
  <2>3. Tell([d EXCEPT !.action = n], e) = b
    <3>1. d.story = game.story /\ [d EXCEPT !.action = n].story = game.story
      BY <1>1 DEF Games
    <3> HIDE DEF d
    <3>2. Tell([d EXCEPT !.action = n], e) = [d EXCEPT !.action = n, !.story = Append([d EXCEPT !.action = n].story, e)]
      BY DEF Tell
    <3> QED
      BY <3>1, <3>2
  <2> HIDE DEF b, c, d, e
  <2>4. Put(Page, b) = [g |-> b, w |-> None, t |-> timer, n |-> n]
    BY <1>1 DEF Put, Page
  <2>5. bumpRevision(Put(Page, b)) = Put(Page, b)
    BY <2>4 DEF bumpRevision
  <2>6. s = [bumpRevision(Put(Page, b)) EXCEPT !.n = @ + 1]
    BY <1>1, <2>1, <2>2, <2>3 DEF beginTurn, e
  <2> QED
    BY <2>4, <2>5, <2>6
<1>5. R \in Games(K, n) /\ Quiet(game, R) /\ Calm(game, R) /\ R.story = game.story
  <2>0. game \in Games(K, n)
    BY <1>1
  <2>1. R \in Games(K, n)
    BY <2>0, ZenonT(30) DEF Games
  <2>2. Quiet(game, R) /\ Calm(game, R) /\ R.story = game.story
    BY <2>0 DEF Games, Quiet, Calm
  <2> QED
    BY <2>1, <2>2
<1>6. game \in Games(L, m) /\ game.story \in Seq(Events(m)) /\ game.story \in Seq(Events(n))
  BY <1>1, <1>3, GamesGrow, GameFields
<1>7. back \in [turn : Past(m), game : L] /\ back.game = R
  BY <1>3
<1> HIDE DEF R, n, m
<1>8. c \in Games(L, m)
  <2>1. back \in [turn : Past(m), game : L] \cup {None}
    BY <1>7
  <2> HIDE DEF L, back
  <2> QED
    BY <1>6, <2>1, ZenonT(30) DEF Games
<1>9. /\ c.rollback = back /\ c.story = game.story /\ c.rolled = game.rolled /\ c.queue = game.queue
      /\ c.check = game.check /\ c.triggered = game.triggered /\ c.phase = game.phase
      /\ c.failed = game.failed
  BY <1>6 DEF Games
<1> HIDE DEF c
<1>10. U \in Games(L, m)
  <2> HIDE DEF L
  <2> QED
    BY <1>8, ZenonT(30) DEF Games
<1>11. /\ U.rollback = back /\ U.undo = None /\ U.failed = None
       /\ U.story = game.story /\ U.rolled = game.rolled /\ U.queue = game.queue
       /\ U.check = game.check /\ U.triggered = game.triggered /\ U.phase = game.phase
  <2> HIDE DEF L, back
  <2> QED
    BY <1>8, <1>9 DEF Games
<1> HIDE DEF U
<1>12. undo \in [committed : BOOLEAN, data : M] /\ undo.data = U /\ c \in Games(M, m) /\ U \in Games(M, m)
  <2>1. c \in Games(M, m) /\ U \in Games(M, m)
    BY <1>3, <1>8, <1>10, GamesGrow
  <2> QED
    BY <2>1
<1>13. d \in Games(M, m)
  <2>1. undo \in [committed : BOOLEAN, data : M] \cup {None} /\ c \in Games(M, m)
    BY <1>12
  <2> HIDE DEF M, undo
  <2> QED
    BY <2>1, ZenonT(30) DEF Games
<1>14. /\ d.rollback = back /\ d.undo = undo
       /\ d.story = game.story /\ d.rolled = game.rolled /\ d.queue = game.queue
       /\ d.check = game.check /\ d.triggered = game.triggered /\ d.phase = game.phase
       /\ d.failed = game.failed
  <2>1. c \in Games(M, m)
    BY <1>12
  <2> HIDE DEF M, undo, back
  <2> QED
    BY <1>9, <2>1 DEF Games
<1> HIDE DEF d
<1>15. e \in Events(m) /\ e[1] = "turn" /\ e[1] # "continued" /\ e # <<"reply", None>> /\ e # <<"reply", n>>
  BY <1>3 DEF Events
<1>16. told \in Seq(Events(m)) /\ BeforeLastTurn(told) = game.story
  <2> HIDE DEF e
  <2> QED
    BY <1>6, <1>15, Appended, BeforeLastTurnAppended
<1>17. e \notin ToSet(game.story) /\ ~ Told(game, "reply", n)
  BY <1>1, FreshUnused DEF Told, n
<1> HIDE DEF e, told
<1>18. b \in Games(M, m)
  <2>1. n \in Past(m) \cup {None}
    BY <1>3
  <2> HIDE DEF M
  <2> QED
    BY <1>13, <1>16, <2>1, ZenonT(30) DEF Games
<1>19. /\ b.rollback = back /\ b.undo = undo /\ b.action = n
       /\ b.story = told /\ b.rolled = game.rolled /\ b.queue = game.queue
       /\ b.check = game.check /\ b.triggered = game.triggered /\ b.phase = game.phase
       /\ b.failed = game.failed
  <2> HIDE DEF M, undo, back
  <2> QED
    BY <1>13, <1>14 DEF Games
<1> HIDE DEF b
<1>20. IsPrefix(game.story, game.story) /\ IsPrefix(BeforeLastTurn(game.story), game.story)
  BY <1>6, <1>15, PrefixOfSelf, BeforeLastTurnFacts
<1>21. Fits(M, m, None, R)
  <2>1. R \in Games(M, m)
    BY <1>3, <1>5, GamesGrow
  <2>2. Fits(K, n, wire, R)
    BY <1>1, <1>5, QuietFits
  <2> QED
    BY <2>1, <2>2 DEF Fits, Apart
<1>22. \A x : (Called(U, x) => Called(game, x)) /\ (Called(b, x) => Called(game, x))
  BY <1>11, <1>19 DEF Called
<1>23. RolledOnce(U) /\ RolledOnce(b)
  BY <1>1, <1>11, <1>19, <1>22 DEF Fits, RolledOnce
<1>24. TakesBack(U)
  <2> HIDE DEF back
  <2> QED
    BY <1>5, <1>7, <1>11, <1>20 DEF TakesBack
<1>25. TakesBack(b)
  <2> HIDE DEF back, undo
  <2> QED
    BY <1>5, <1>7, <1>11, <1>12, <1>16, <1>19, <1>20 DEF TakesBack
<1>26. Fits(M, m, None, U) /\ Fits(M, m, None, b)
  <2> HIDE DEF M
  <2> QED
    BY <1>12, <1>18, <1>23, <1>24, <1>25 DEF Fits, Apart
<1>27. \A g \in M : Fits(M, m, None, g)
  <2>1. ASSUME NEW g \in K PROVE Fits(M, m, None, g)
    <3>1. Fits(K, n, None, g) /\ g \in Games(M, m)
      BY <1>2, <1>3, GamesGrow DEF Fits
    <3> QED
      BY <3>1 DEF Fits, Apart
  <2> QED
    BY <1>21, <1>26, <2>1
<1>28. AnswersOnce(game) => AnswersOnce(R) /\ AnswersOnce(U) /\ AnswersOnce(b)
  <2>1. AnswersOnce(game) => AnswersOnce(R)
    BY <1>5, CalmAnswers
  <2>2. AnswersOnce(game) => AnswersOnce(U)
    BY <1>1, <1>11 DEF AnswersOnce, Settled, Told
  <2>3. Settled(game) => Settled(b)
    BY <1>6, <1>15, <1>17, <1>19, ToldSettled DEF told
  <2>4. AnswersOnce(game) => AnswersOnce(b)
    BY <1>1, <1>19, <2>3 DEF AnswersOnce
  <2> QED
    BY <2>1, <2>2, <2>4
<1>29. ~ Told(b, "reply", n)
  <2>1. ToSet(b.story) = ToSet(game.story) \cup {e}
    BY <1>6, <1>15, <1>19, Appended DEF told
  <2> QED
    BY <1>15, <1>17, <2>1 DEF Told
<1> HIDE DEF M, s
<1>30. s.g = b /\ s.w = None /\ s.t = timer /\ s.n = m /\ s = [g |-> s.g, w |-> s.w, t |-> s.t, n |-> s.n]
  BY <1>4
<1>31. Sound(M, s)
  BY <1>1, <1>3, <1>26, <1>27, <1>30 DEF Sound
<1>32. Answering(K, Page) => Answering(M, s)
  BY <1>1, <1>28, <1>30 DEF Answering, Awaits, M
<1>33. Begun(K, M, s)
  <2>1. K \subseteq M
    BY DEF M
  <2> QED
    BY <1>19, <1>29, <1>30, <1>31, <1>32, <2>1 DEF Begun, told, e, m, n
<1> QED
  BY <1>33 DEF s

LEMMA TurnReached ==
  ASSUME NEW K, NEW M, NEW s, NEW q, Holds(K), Begun(K, M, s), Kept(M, s, q), Becomes(q),
         UNCHANGED disk
  PROVE  Reaches(K) /\ GoesOn
<1> DEFINE e == <<"turn", fresh>>
<1>1. fresh \in Nat \ {0} /\ s.n = fresh + 1
  BY HoldsMeans DEF Begun
<1>2. q.n \in Nat /\ fresh + 1 <= q.n /\ fresh' = q.n
  BY <1>1, PageFields DEF Kept, Becomes
<1>3. e \in Events(fresh')
  BY <1>1, <1>2 DEF Events, Marks, Past
<1>4. game'.story = Append(game.story, e)
  BY DEF Begun, Kept, Becomes
<1> HIDE DEF e
<1>5. GoesOn
  BY <1>1, <1>2, <1>3, <1>4, StoryGoesOn
<1>6. Reaches(K)
  BY Reached DEF Begun, Kept
<1> QED
  BY <1>5, <1>6

LEMMA Submits ==
  ASSUME NEW K, Holds(K), submitPlayerAction
  PROVE  Reaches(K) /\ GoesOn
<1> DEFINE s == beginTurn(Page)
           checks == nodeChecksForTrigger(game, "action")
           k(c) == markCheckTriggered(s.g, {c.id})
           p(c) == bumpRevision(Put(s, k(c)))
<1>1. /\ CanSend /\ UNCHANGED disk
      /\ \/ Becomes(AskKeeper(s))
         \/ \E c \in ToSet(checks) :
              IF c.secret THEN Becomes(requestContinuation(RollSecret(p(c), c), c.id))
                          ELSE Becomes(Put(p(c), AskCheck(p(c).g, c)))
  BY DEF submitPlayerAction
<1>2. PICK M : Begun(K, M, s)
  BY <1>1, BeginsTurn
<1>3. fresh \in Nat \ {0} /\ fresh # None /\ game.node \in Nodes
  BY HoldsMeans, FreshIds, GameFields
<1> HIDE DEF s
<1>4. /\ Sound(M, s) /\ s.w = None /\ s.n = fresh + 1 /\ s.g \in Games(M, s.n)
      /\ Fits(M, s.n, None, s.g)
  BY <1>2, PageFields DEF Begun
<1>5. CASE Becomes(AskKeeper(s))
  <2> DEFINE q == AskKeeper(s)
  <2>1. s.g.action = fresh /\ s.g.action # None /\ ~ Told(s.g, "reply", s.g.action)
    BY <1>2, <1>3 DEF Begun
  <2>2. /\ Sound(M, q) /\ q.n = s.n + 1 /\ q.g.story = s.g.story
        /\ Settled(s.g) /\ (\A g \in M : AnswersOnce(g)) /\ ~ Told(s.g, "reply", s.g.action) =>
             Answering(M, q)
    BY <1>4, <2>1, KeeperAsked
  <2> HIDE DEF q
  <2>3. Answering(M, s) => Settled(s.g) /\ \A g \in M : AnswersOnce(g)
    BY DEF Answering, AnswersOnce
  <2>4. Kept(M, s, q)
    BY <1>3, <1>4, <2>1, <2>2, <2>3 DEF Kept
  <2>5. Becomes(q)
    BY <1>5 DEF q
  <2> QED
    BY <1>1, <1>2, <2>4, <2>5, TurnReached
<1>6. ASSUME NEW c \in ToSet(checks),
             IF c.secret THEN Becomes(requestContinuation(RollSecret(p(c), c), c.id))
                         ELSE Becomes(Put(p(c), AskCheck(p(c).g, c)))
      PROVE  Reaches(K) /\ GoesOn
  <2> DEFINE x == c.id
             h == [s.g EXCEPT !.triggered = s.g.triggered \cup {x}]
             u == bumpRevision(Put(s, h))
  <2>1. h = k(c)
    BY DEF markCheckTriggered
  <2>2. c \in NodeCheck /\ x \in NodeCheckIds /\ x \notin game.triggered /\ c.secret \in BOOLEAN
        /\ c \in Checks(s.n)
    <3>1. Due(game, checks)
      BY <1>3, FiringDue
    <3> HIDE DEF checks
    <3>2. PICK i \in 1..Len(checks) : checks[i] = c
      BY <3>1, Elements DEF Due
    <3>3. c \in NodeCheck
      BY <3>1, <3>2, Elements DEF Due
    <3> QED
      BY <3>1, <3>2, <3>3, NodeCheckTypes DEF Due, NodeCheck
  <2>3. s.g.triggered \cup {x} \in SUBSET NodeCheckIds /\ x \notin s.g.triggered
    BY <1>2, <1>4, <2>2, GameFields DEF Begun
  <2> HIDE DEF x
  <2>4. /\ h \in Games(M, s.n) /\ Quiet(s.g, h) /\ Calm(s.g, h)
        /\ h.triggered = s.g.triggered \cup {x} /\ h.check = s.g.check /\ h.rolled = s.g.rolled
        /\ h.queue = s.g.queue
    <3> DEFINE g == s.g
               n == s.n
               t == g.triggered \cup {x}
    <3>1. g \in Games(M, n) /\ t \in SUBSET NodeCheckIds /\ g.triggered \subseteq t
      BY <1>4, <2>3
    <3> HIDE DEF g, n, t
    <3>2. [g EXCEPT !.triggered = t] \in Games(M, n)
      BY <3>1, ZenonT(30) DEF Games
    <3> DEFINE j == [g EXCEPT !.triggered = t]
    <3>3. /\ Quiet(g, j) /\ Calm(g, j) /\ j.triggered = t /\ j.check = g.check
          /\ j.rolled = g.rolled /\ j.queue = g.queue
      BY <3>1 DEF Games, Quiet, Calm
    <3> QED
      BY <3>2, <3>3 DEF g, n, t
  <2>5. \A y : Called(h, y) => Called(s.g, y)
    BY <2>4 DEF Called
  <2> HIDE DEF h
  <2>6. /\ Sound(M, Put(s, h)) /\ Put(s, h).g = h /\ Put(s, h).n = s.n /\ Put(s, h).w = None
        /\ Kept(M, s, u)
    BY <1>4, <2>4, KeptQuietly
  <2>7. u = Put(s, h)
    BY <2>6, BumpSound
  <2> HIDE DEF u
  <2>8. Sound(M, u) /\ u.g = h /\ u.n = s.n /\ u.w = None /\ Fits(M, u.n, u.w, h)
    BY <2>6, <2>7, PageFields
  <2>9. Callable(u.n, u.w, u.g, c.id) /\ c \in Checks(u.n)
    <3>1. ~ Called(s.g, x)
      BY <1>4, <2>2, <2>3 DEF Fits, RolledOnce
    <3>2. x \in Marks(u.n)
      BY <2>2 DEF Marks
    <3> QED
      BY <2>2, <2>4, <2>5, <2>8, <3>1, <3>2 DEF Callable, x
  <2>10. CASE c.secret
    <3> DEFINE q == requestContinuation(RollSecret(u, c), c.id)
    <3>1. Becomes(q)
      BY <1>6, <2>1, <2>10 DEF u
    <3>2. Kept(M, u, q)
      BY <2>8, <2>9, KeptWhenSecret
    <3> HIDE DEF q
    <3>3. Kept(M, s, q)
      BY <1>4, <2>6, <3>2, KeptTwice
    <3> QED
      BY <1>1, <1>2, <3>1, <3>3, TurnReached
  <2>11. CASE ~ c.secret
    <3> DEFINE a == AskCheck(u.g, c)
               q == Put(u, a)
    <3>1. Becomes(q)
      BY <1>6, <2>1, <2>11 DEF u
    <3>2. Fits(M, u.n, u.w, a) /\ Calm(u.g, a)
      BY <2>8, <2>9, AskFits
    <3> HIDE DEF a
    <3>3. Kept(M, u, q)
      BY <2>8, <3>2, KeptCalmly
    <3> HIDE DEF q
    <3>4. Kept(M, s, q)
      BY <1>4, <2>6, <3>3, KeptTwice
    <3> QED
      BY <1>1, <1>2, <3>1, <3>4, TurnReached
  <2> QED
    BY <2>2, <2>10, <2>11
<1> QED
  BY <1>1, <1>5, <1>6
-----------------------------------------------------------------------------
(* The keeper's answer *)

Event(w) == IF w.kind = "action" THEN <<"reply", w.turn>> ELSE <<"continued", w.rec>>

LEMMA EventFacts ==
  ASSUME NEW n, NEW w \in Wires(n), w.kind \in {"action", "continuation"}
  PROVE  /\ Event(w) \in Events(n) /\ Event(w)[1] # "turn"
         /\ Event(w)[1] \in {"reply", "continued"}
         /\ \A g : w # None /\ Awaits(g, w) =>
              /\ Event(w) \notin ToSet(g.story) /\ Event(w) # <<"reply", None>>
              /\ Event(w)[1] = "continued" => Event(w)[2] \in ToSet(g.rolled)
<1>1. w.turn \in Marks(n) \cup {None} /\ w.rec \in Marks(n) \cup {None}
  BY DEF Wires, Marks
<1>2. CASE w.kind = "action"
  <2>1. Event(w) = <<"reply", w.turn>>
    BY <1>2 DEF Event
  <2> QED
    BY <1>1, <1>2, <2>1 DEF Events, Awaits, Told
<1>3. CASE w.kind = "continuation"
  <2>1. Event(w) = <<"continued", w.rec>>
    BY <1>3 DEF Event
  <2> QED
    BY <1>1, <1>3, <2>1 DEF Events, Awaits, Told
<1> QED
  BY <1>2, <1>3

(* The answer is written down: the game beside that of before.               *)
Written(g, w, h) ==
  /\ h.story = Append(g.story, Event(w)) /\ h.rolled = g.rolled /\ h.triggered = g.triggered
  /\ h.check = g.check /\ h.queue = g.queue /\ h.active = None /\ h.failed = None

LEMMA Commits ==
  ASSUME NEW K, NEW n, NEW g, NEW w \in Wires(n), NEW outcome, NEW x \in Nodes, NEW h,
         Fits(K, n, None, g), w.kind \in {"action", "continuation"}, w # None,
         h = [commitAiTransaction(g, w, outcome, x) EXCEPT !.active = None]
  PROVE  /\ Fits(K, n, None, h) /\ Written(g, w, h)
         /\ Settled(g) /\ Awaits(g, w) => Settled(h)
<1> DEFINE e == Event(w)
           told == Append(g.story, e)
           undo == IF g.undo = None THEN None ELSE [g.undo EXCEPT !.committed = TRUE]
           proposal == IF outcome = "move" THEN x ELSE None
           ending == outcome = "end"
           k == [g EXCEPT !.active = None, !.story = told, !.undo = undo, !.proposal = proposal,
                          !.ending = ending, !.failed = None]
<1>1. g \in Games(K, n) /\ g.story \in Seq(Events(n)) /\ g.undo \in [committed : BOOLEAN, data : K] \cup {None}
  BY GameFields DEF Fits
<1>2. e \in Events(n) /\ e[1] # "turn"
  BY EventFacts
<1>3. h = k
  BY <1>1 DEF commitAiTransaction, Event
<1> HIDE DEF e
<1>4. told \in Seq(Events(n))
  BY <1>1, <1>2, Appended
<1>5. /\ undo \in [committed : BOOLEAN, data : K] \cup {None}
      /\ undo # None => g.undo # None /\ undo.data = g.undo.data
  BY <1>1
<1>6. proposal \in Nodes \cup {None} /\ ending \in BOOLEAN
  OBVIOUS
<1> HIDE DEF told, undo, proposal, ending
<1>7. h \in Games(K, n)
  <2>1. g \in Games(K, n)
    BY <1>1
  <2> QED
    BY <1>3, <1>4, <1>5, <1>6, <2>1, ZenonT(60) DEF Games
<1>8. /\ h.story = told /\ h.rolled = g.rolled /\ h.triggered = g.triggered /\ h.check = g.check
      /\ h.queue = g.queue /\ h.active = None /\ h.failed = None /\ h.rollback = g.rollback
      /\ h.undo = undo
  BY <1>1, <1>3 DEF Games
<1> HIDE DEF k
<1>9. Fits(K, n, None, h)
  BY <1>2, <1>5, <1>7, <1>8, ToldFits DEF told
<1>10. Settled(g) /\ Awaits(g, w) => Settled(h)
  <2> SUFFICES ASSUME Settled(g), Awaits(g, w) PROVE Settled(h)
    OBVIOUS
  <2>1. /\ e \notin ToSet(g.story) /\ e # <<"reply", None>>
        /\ e[1] = "continued" => e[2] \in ToSet(g.rolled)
    BY EventFacts DEF e
  <2> QED
    BY <1>1, <1>2, <1>8, <2>1, ToldSettled DEF told
<1> QED
  BY <1>8, <1>9, <1>10 DEF Written, told, e

(* A settled game that waits for the player has answered once.               *)
LEMMA SettledWaits ==
  ASSUME NEW g, NEW h, Settled(g), h.story = g.story, ToSet(g.rolled) \subseteq ToSet(h.rolled),
         h.failed = None, h.phase \in Waiting
  PROVE  AnswersOnce(h)
BY DEF Waiting, AnswersOnce, Settled, Told

LEMMA AnswerReached ==
  ASSUME NEW K, NEW q, Holds(K), wire # None, wire.kind \in {"action", "continuation"},
         Sound(K, q), fresh <= q.n, q.g.story = Append(game.story, Event(wire)),
         Becomes(q), UNCHANGED disk, ~ strayed' /\ Answering(K, Page) => Answering(K, q)
  PROVE  Reaches(K) /\ GoesOn
<1> DEFINE e == Event(wire)
<1>1. q.n \in Nat /\ fresh \in Nat /\ fresh' = q.n /\ wire \in Wires(fresh)
  BY HoldsMeans, PageFields DEF Becomes
<1>2. e \in Events(fresh)
  BY <1>1, EventFacts
<1>3. e \in Events(fresh')
  BY <1>1, <1>2, TypesGrow
<1>4. game'.story = Append(game.story, e)
  BY DEF Becomes
<1> HIDE DEF e
<1>5. GoesOn
  BY <1>1, <1>3, <1>4, StoryGoesOn
<1>6. Reaches(K)
  BY Reached
<1> QED
  BY <1>5, <1>6

(* The request is sent once more, for an answer with a consistent place.     *)
LEMMA Repairs ==
  ASSUME NEW K, Holds(K), wire # None, repairLocationProtocol(wire), UNCHANGED disk
  PROVE  Reaches(K) /\ GoesOn
<1> DEFINE v == [wire EXCEPT !.stage = "repair"]
           q == [Page EXCEPT !.w.stage = "repair"]
<1>1. /\ Sound(K, Page) /\ Page.g = game /\ Page.w = wire /\ wire \in Wires(fresh) /\ fresh \in Nat
      /\ Page.n = fresh
  BY HoldsMeans
<1>2. Becomes(q)
  BY DEF repairLocationProtocol
<1>3. /\ v \in Wires(fresh) /\ v.id = wire.id /\ v.kind = wire.kind /\ v.turn = wire.turn
      /\ v.rec = wire.rec
  BY <1>1 DEF Wires
<1> HIDE DEF v
<1>4. q = [g |-> game, w |-> v, t |-> timer, n |-> fresh]
  BY DEF Page, v
<1> HIDE DEF q
<1>5. (\A g : Apart(g, wire) => Apart(g, v)) /\ \A g : Awaits(g, wire) => Awaits(g, v)
  BY <1>3 DEF Apart, Awaits
<1>6. Sound(K, q)
  <2>1. Page.t = timer
    BY DEF Page
  <2> QED
    BY <1>1, <1>3, <1>4, <1>5, <2>1 DEF Sound, Fits
<1>7. Answering(K, Page) => Answering(K, q)
  BY <1>1, <1>4, <1>5 DEF Answering
<1>8. Kept(K, Page, q)
  BY <1>1, <1>4, <1>6, <1>7 DEF Kept
<1> QED
  BY <1>2, <1>8, ReachedKept

(* The answer of w is written down in g, and q is the page that follows.     *)
Committed(K, s, w, g) ==
  /\ Sound(K, s) /\ s.w = None /\ w \in Wires(s.n) /\ w # None /\ Apart(s.g, w)
  /\ Fits(K, s.n, None, g) /\ Written(s.g, w, g)
  /\ Answering(K, s) /\ Awaits(s.g, w) => Settled(g)
Answers(K, s, w, q) ==
  /\ Sound(K, q) /\ s.n <= q.n /\ q.g.story = Append(s.g.story, Event(w))
  /\ Answering(K, s) /\ Awaits(s.g, w) => Answering(K, q)

(* The keeper's check goes by an id nobody has used.                         *)
LEMMA KeeperCallable ==
  ASSUME NEW K, NEW s, NEW w, NEW g, Committed(K, s, w, g)
  PROVE  /\ Callable(s.n, None, g, w.id) /\ w.id \notin ToSet(g.rolled)
         /\ Settled(g) => ~ Told(g, "continued", w.id)
<1>1. w.id \in Past(s.n) /\ s.n \in Nat \ {0}
  BY PageFields DEF Committed, Wires
<1>2. w.id \in Nat /\ w.id \in Marks(s.n) /\ w.id \notin NodeCheckIds
  BY <1>1, FreshIds, ScenarioAssumption DEF Marks
<1>3. ~ Called(s.g, w.id)
  BY DEF Committed, Apart
<1>4. ~ Called(g, w.id) /\ w.id \notin ToSet(g.rolled)
  BY <1>3 DEF Committed, Written, Called
<1> QED
  BY <1>2, <1>4 DEF Callable, Settled

LEMMA AsksNext ==
  ASSUME NEW K, NEW s, NEW w, NEW g, NEW c, NEW q, Committed(K, s, w, g), c \in Checks(s.n),
         c.id = w.id, q = Put(s, AskCheck(g, c))
  PROVE  Answers(K, s, w, q)
<1> DEFINE h == AskCheck(g, c)
<1>1. /\ Fits(K, s.n, None, g) /\ Sound(K, s) /\ s.w = None /\ g \in Games(K, s.n)
      /\ Written(s.g, w, g) /\ s.n \in Nat
  BY PageFields DEF Committed, Fits
<1>2. Callable(s.n, None, g, c.id)
  BY KeeperCallable
<1>3. Fits(K, s.n, None, h)
  BY <1>1, <1>2, AskFits
<1>4. h.story = g.story /\ h.rolled = g.rolled /\ h.failed = g.failed /\ h.phase \in Waiting
  BY <1>1 DEF AskCheck, Games, Waiting, Phases
<1> HIDE DEF h
<1>5. Sound(K, q) /\ q = [g |-> h, w |-> s.w, t |-> s.t, n |-> s.n]
  BY <1>1, <1>3, PutSound DEF h
<1>6. q.g = h /\ q.w = None /\ q.n = s.n
  BY <1>1, <1>5
<1>7. Settled(g) => AnswersOnce(h)
  BY <1>1, <1>4, SettledWaits DEF Written
<1>8. Answering(K, s) /\ Awaits(s.g, w) => Answering(K, q)
  BY <1>6, <1>7 DEF Committed, Answering, Awaits
<1> QED
  BY <1>1, <1>4, <1>5, <1>6, <1>8 DEF Answers, Written

LEMMA RollsNext ==
  ASSUME NEW K, NEW s, NEW w, NEW g, NEW c, NEW q, Committed(K, s, w, g), c \in Checks(s.n),
         c.id = w.id, q = requestContinuation(RollSecret(Put(s, g), c), c.id)
  PROVE  Answers(K, s, w, q)
<1> DEFINE p == Put(s, g)
           x == c.id
           k == [g EXCEPT !.rolled = Append(g.rolled, x)]
           r == RollSecret(p, c)
<1>1. /\ Fits(K, s.n, None, g) /\ Sound(K, s) /\ s.w = None /\ g \in Games(K, s.n)
      /\ Written(s.g, w, g) /\ s.n \in Nat
  BY PageFields DEF Committed, Fits
<1>2. /\ Callable(s.n, None, g, x) /\ x \notin ToSet(g.rolled) /\ x \in Marks(s.n)
      /\ Settled(g) => ~ Told(g, "continued", x)
  BY KeeperCallable DEF Callable
<1>3. Sound(K, p) /\ p = [g |-> g, w |-> s.w, t |-> s.t, n |-> s.n]
  BY <1>1, PutSound
<1>4. p.g = g /\ p.w = None /\ p.n = s.n
  BY <1>1, <1>3
<1> HIDE DEF p
<1>5. Sound(K, r)
  <2>1. Sound(K, p) /\ c \in Checks(p.n) /\ Callable(p.n, p.w, p.g, c.id)
    BY <1>2, <1>3, <1>4
  <2> QED
    BY <2>1, RollSecretSound
<1>6. r = [g |-> k, w |-> None, t |-> s.t, n |-> s.n]
  <2>1. Put(p, k) = [g |-> k, w |-> None, t |-> s.t, n |-> s.n]
    <3> HIDE DEF k
    <3> QED
      BY <1>1, <1>3 DEF Put
  <2>2. r = bumpRevision(Put(p, k))
    BY <1>4 DEF RollSecret
  <2> HIDE DEF k, r
  <2> QED
    BY <2>1, <2>2 DEF bumpRevision
<1>7. r.g = k /\ r.w = None /\ r.n = s.n
  BY <1>6
<1>8. /\ k.story = g.story /\ k.failed = g.failed /\ k.active = None
  BY <1>1 DEF Games, Written
<1>9. ToSet(k.rolled) = ToSet(g.rolled) \cup {x}
  <2>1. g.rolled \in Seq(Marks(s.n)) /\ k.rolled = Append(g.rolled, x)
    BY <1>1, GameFields DEF Games
  <2> HIDE DEF k, x
  <2> QED
    BY <1>2, <2>1, Appended
<1> HIDE DEF k, r, x
<1>10. Settled(g) => Settled(k) /\ ~ Told(k, "continued", x)
  BY <1>2, <1>8, <1>9 DEF Settled, Told
<1>11. /\ Sound(K, q) /\ q.n >= r.n /\ q.g.story = r.g.story
       /\ x \in ToSet(r.g.rolled) /\ ~ Told(r.g, "continued", x) =>
            (NoRequest(r) /\ Settled(r.g) /\ (\A y \in K : AnswersOnce(y)) => Answering(K, q))
  <2>1. q = requestContinuation(r, x) /\ x \in Marks(r.n)
    BY <1>2, <1>7 DEF r, p, x
  <2>2. Sound(K, r)
    BY <1>5
  <2>3. Sound(K, q) /\ q.n >= r.n /\ q.g.story = r.g.story
    BY <2>1, <2>2, ContinuationSound
  <2>4. ASSUME x \in ToSet(r.g.rolled), ~ Told(r.g, "continued", x), NoRequest(r), Settled(r.g),
               \A y \in K : AnswersOnce(y)
        PROVE  Answering(K, q)
    BY <2>1, <2>2, <2>4, ContinuationSound
  <2> QED
    BY <2>3, <2>4
<1>12. NoRequest(r)
  BY <1>7, <1>8 DEF NoRequest
<1>13. Answering(K, s) /\ Awaits(s.g, w) => Answering(K, q)
  <2> SUFFICES ASSUME Answering(K, s), Awaits(s.g, w) PROVE Answering(K, q)
    OBVIOUS
  <2>1. Settled(g)
    BY DEF Committed
  <2>2. \A y \in K : AnswersOnce(y)
    BY DEF Answering
  <2> QED
    BY <1>7, <1>9, <1>10, <1>11, <1>12, <2>1, <2>2
<1>14. q.n \in Nat
  BY <1>11, PageFields
<1> QED
  BY <1>1, <1>7, <1>8, <1>11, <1>13, <1>14 DEF Answers, Written

LEMMA WaitsNext ==
  ASSUME NEW K, NEW s, NEW w, NEW g, NEW h, NEW q, Committed(K, s, w, g), h \in Games(K, s.n),
         Quiet(g, h), h.failed = None, h.phase \in Waiting,
         q = Put(s, h) \/ q = processCheckQueue(Put(s, h))
  PROVE  Answers(K, s, w, q)
<1> DEFINE p == Put(s, h)
<1>1. /\ Fits(K, s.n, None, g) /\ Sound(K, s) /\ s.w = None /\ Written(s.g, w, g) /\ s.n \in Nat
      /\ h.story = g.story /\ h.rolled = g.rolled
  BY PageFields DEF Committed, Quiet
<1>2. Fits(K, s.n, None, h)
  BY <1>1, QuietFits
<1>3. Sound(K, p) /\ p = [g |-> h, w |-> s.w, t |-> s.t, n |-> s.n]
  BY <1>1, <1>2, PutSound
<1>4. p.g = h /\ p.w = None /\ p.n = s.n
  BY <1>1, <1>3
<1>5. Settled(g) => AnswersOnce(h)
  BY <1>1, SettledWaits
<1>6. Answering(K, s) /\ Awaits(s.g, w) => Answering(K, p)
  BY <1>4, <1>5 DEF Committed, Answering, Awaits
<1>7. Answers(K, s, w, p)
  <2> HIDE DEF p
  <2> QED
    BY <1>1, <1>3, <1>4, <1>6 DEF Answers, Written
<1> HIDE DEF p
<1>8. Kept(K, p, processCheckQueue(p))
  BY <1>3, QueueKept
<1>9. q = p \/ q = processCheckQueue(p)
  BY DEF p
<1>10. ASSUME q = processCheckQueue(p) PROVE Answers(K, s, w, q)
  <2>1. Kept(K, p, q)
    BY <1>8, <1>10
  <2>2. q.n \in Nat
    BY <2>1, PageFields DEF Kept
  <2> QED
    BY <1>1, <1>4, <1>7, <2>1, <2>2 DEF Answers, Kept
<1> QED
  BY <1>7, <1>9, <1>10

LEMMA Accepts ==
  ASSUME NEW K, NEW s, NEW w, NEW outcome \in Outcomes, NEW mandatory \in BOOLEAN, NEW x \in Nodes,
         NEW q, Sound(K, s), s.w = None, w \in Wires(s.n), w # None, Apart(s.g, w),
         w.kind \in {"action", "continuation"}, q = Accept(s, w, outcome, x, mandatory)
  PROVE  \/ Answers(K, s, w, q)
         \/ /\ Sound(K, q) /\ q.n = s.n /\ q.g.story = Append(s.g.story, Event(w))
            /\ q.g.phase = "error"
<1> DEFINE done == [commitAiTransaction(s.g, w, outcome, x) EXCEPT !.active = None]
           follows == w.kind = "continuation"
           g == IF follows THEN [done EXCEPT !.last = None] ELSE done
           phase == NextPhase(outcome)
           chain == IF follows THEN 0 ELSE g.chain
           h == [g EXCEPT !.action = None, !.rollback = None, !.phase = phase, !.chain = chain]
           p == Put(s, done)
           kind == w.kind
           turn == w.turn
           rec == w.rec
           ask == KeeperCheck(w, mandatory)
           secret == KeeperCheck(w, TRUE)
<1>1. \/ q = HardFailure(p, kind, turn, rec)
      \/ q = Put(s, AskCheck(g, ask))
      \/ q = requestContinuation(RollSecret(Put(s, g), secret), w.id)
      \/ q = processCheckQueue(Put(s, h))
      \/ q = Put(s, h)
  BY DEF Accept, Outcomes
<1>2. Fits(K, s.n, None, s.g) /\ s.n \in Nat \ {0}
  BY PageFields
<1>3. /\ Fits(K, s.n, None, done) /\ Written(s.g, w, done)
      /\ Settled(s.g) /\ Awaits(s.g, w) => Settled(done)
  <2>1. done = [commitAiTransaction(s.g, w, outcome, x) EXCEPT !.active = None]
    OBVIOUS
  <2> HIDE DEF done
  <2> QED
    BY <1>2, <2>1, Commits
<1> HIDE DEF done
<1>4. done \in Games(K, s.n)
  BY <1>3 DEF Fits
<1>5. g \in Games(K, s.n) /\ Quiet(done, g) /\ Calm(done, g) /\ g.failed = done.failed /\ g.active = done.active
  <2> DEFINE k == [done EXCEPT !.last = None]
  <2>1. k \in Games(K, s.n)
    BY <1>4, ZenonT(30) DEF Games
  <2>2. Quiet(done, k) /\ Calm(done, k) /\ k.failed = done.failed /\ k.active = done.active
    BY <1>4 DEF Games, Quiet, Calm
  <2>3. Quiet(done, done) /\ Calm(done, done)
    BY DEF Quiet, Calm
  <2>4. g = k \/ g = done
    OBVIOUS
  <2> HIDE DEF k, g
  <2> QED
    BY <1>4, <2>1, <2>2, <2>3, <2>4
<1>6. Written(s.g, w, g) /\ (Settled(done) => Settled(g))
  <2>1. g.story = done.story /\ g.rolled = done.rolled /\ g.triggered = done.triggered
        /\ g.check = done.check /\ g.queue = done.queue
    <3> DEFINE k == [done EXCEPT !.last = None]
    <3>1. k.story = done.story /\ k.rolled = done.rolled /\ k.triggered = done.triggered
          /\ k.check = done.check /\ k.queue = done.queue
      BY <1>4 DEF Games
    <3> HIDE DEF k
    <3> QED
      BY <3>1 DEF k
  <2> HIDE DEF g
  <2> QED
    BY <1>3, <1>5, <2>1 DEF Written, Settled, Told
<1> HIDE DEF g
<1>7. Fits(K, s.n, None, g)
  BY <1>3, <1>5, QuietFits
<1>8. Committed(K, s, w, g)
  <2>1. Answering(K, s) => Settled(s.g)
    BY DEF Answering, AnswersOnce
  <2> QED
    BY <1>3, <1>6, <1>7, <2>1 DEF Committed
<1>9. CASE q = HardFailure(p, kind, turn, rec)
  <2>1. Sound(K, p) /\ p = [g |-> done, w |-> s.w, t |-> s.t, n |-> s.n]
    BY <1>3, PutSound
  <2>2. p.g = done /\ p.w = None /\ p.n = s.n
    BY <2>1
  <2>3. kind \in {"action", "continuation"} /\ turn \in Past(p.n) \cup {None} /\ rec \in Marks(p.n) \cup {None}
    BY <2>2 DEF Wires
  <2> HIDE DEF p, kind, turn, rec
  <2>4. Sound(K, q) /\ SameStory(p, q) /\ FailedOn(q, kind)
    BY <1>9, <2>1, <2>2, <2>3, HardFits
  <2> QED
    BY <1>3, <2>2, <2>4 DEF SameStory, FailedOn, Written
<1>10. ask \in Checks(s.n) /\ ask.id = w.id /\ secret \in Checks(s.n) /\ secret.id = w.id
  BY DEF KeeperCheck, Checks, Wires, Marks
<1> HIDE DEF ask, secret
<1>11. CASE q = Put(s, AskCheck(g, ask))
  BY <1>8, <1>10, <1>11, AsksNext
<1>12. CASE q = requestContinuation(RollSecret(Put(s, g), secret), w.id)
  BY <1>8, <1>10, <1>12, RollsNext
<1>13. ASSUME q = processCheckQueue(Put(s, h)) \/ q = Put(s, h)
       PROVE  Answers(K, s, w, q)
  <2>1. phase \in Phases /\ phase \in Waiting
    BY DEF NextPhase, Phases, Waiting
  <2>2. chain \in Nat /\ g \in Games(K, s.n)
    BY <1>5, GameFields
  <2> HIDE DEF phase, chain
  <2>3. h \in Games(K, s.n)
    BY <2>1, <2>2, ZenonT(150) DEF Games
  <2>4. Quiet(g, h) /\ h.failed = g.failed /\ h.phase = phase
    BY <2>2 DEF Games, Quiet
  <2> HIDE DEF h
  <2>5. h.failed = None
    BY <1>6, <2>4 DEF Written
  <2> QED
    BY <1>8, <1>13, <2>1, <2>3, <2>4, <2>5, WaitsNext
<1> QED
  BY <1>1, <1>9, <1>11, <1>12, <1>13

LEMMA AnsweredReaches ==
  ASSUME NEW K, Holds(K), Answered,
         game'.phase = "error" /\ game'.story # game.story /\ Answered => strayed'
  PROVE  Reaches(K) /\ GoesOn
<1> DEFINE w == wire
           s == [Page EXCEPT !.w = None]
           mine == game.active = w.id
<1>1. /\ Sound(K, Page) /\ Page.g = game /\ Page.n = fresh /\ Page.w = wire /\ fresh \in Nat
      /\ game \in Games(K, fresh) /\ wire \in Wires(fresh) \cup {None} /\ Fits(K, fresh, wire, game)
  BY HoldsMeans
<1>2. wire # None /\ wire \in Wires(fresh) /\ wire.kind \in {"action", "continuation"} /\ UNCHANGED disk
  BY <1>1 DEF Answered
<1>3. /\ Sound(K, s) /\ s.g = game /\ s.n = fresh /\ s.w = None
      /\ Answering(K, Page) => Answering(K, s) /\ Awaits(game, wire)
  BY <1>1, WireDropped DEF Answering
<1>4. \/ GivenUp(s, w, mine)
      \/ repairLocationProtocol(w)
      \/ \E outcome \in Outcomes, mandatory \in BOOLEAN, x \in Nodes :
           Becomes(Accept(s, w, outcome, x, mandatory))
  BY DEF Answered
<1> HIDE DEF s, mine
<1>5. CASE GivenUp(s, w, mine)
  <2>1. CASE Becomes(s)
    <3>1. Kept(K, Page, s)
      BY <1>1, <1>3 DEF Kept
    <3> QED
      BY <1>2, <2>1, <3>1, ReachedKept
  <2>2. ASSUME NEW soft \in BOOLEAN, Becomes(recordRequestFailure(s, w, soft))
        PROVE  Reaches(K) /\ GoesOn
    <3> DEFINE q == recordRequestFailure(s, w, soft)
    <3>1. /\ Sound(K, q) /\ IsPrefix(BeforeLastTurn(s.g.story), q.g.story)
          /\ Answering(K, s) /\ Awaits(s.g, w) => Answering(K, q)
      BY <1>2, <1>3, FailureRecorded
    <3>2. Becomes(q)
      BY <2>2
    <3> HIDE DEF q
    <3> QED
      BY <1>2, <1>3, <3>1, <3>2, FailureReached
  <2> QED
    BY <1>5, <2>1, <2>2 DEF GivenUp
<1>6. CASE repairLocationProtocol(w)
  BY <1>2, <1>6, Repairs
<1>7. ASSUME NEW outcome \in Outcomes, NEW mandatory \in BOOLEAN, NEW x \in Nodes,
             Becomes(Accept(s, w, outcome, x, mandatory))
      PROVE  Reaches(K) /\ GoesOn
  <2> DEFINE q == Accept(s, w, outcome, x, mandatory)
  <2>1. Apart(s.g, w)
    BY <1>1, <1>3 DEF Fits
  <2>2. \/ Answers(K, s, w, q)
        \/ /\ Sound(K, q) /\ q.n = s.n /\ q.g.story = Append(s.g.story, Event(w))
           /\ q.g.phase = "error"
    <3>1. q = Accept(s, w, outcome, x, mandatory)
      OBVIOUS
    <3> HIDE DEF q
    <3> QED
      BY <1>2, <1>3, <2>1, <3>1, Accepts
  <2>3. Becomes(q)
    BY <1>7
  <2> HIDE DEF q
  <2>4. Sound(K, q) /\ fresh <= q.n /\ q.g.story = Append(game.story, Event(wire))
    BY <1>1, <1>3, <2>2 DEF Answers
  <2>5. CASE Answers(K, s, w, q)
    <3>1. Answering(K, Page) => Answering(K, q)
      BY <1>3, <2>5 DEF Answers
    <3> QED
      BY <1>2, <2>3, <2>4, <3>1, AnswerReached
  <2>6. CASE q.g.phase = "error"
    <3>1. game' = q.g
      BY <2>3 DEF Becomes
    <3>2. Append(game.story, Event(wire)) # game.story
      <4>1. game.story \in Seq(Events(fresh)) /\ Event(wire) \in Events(fresh)
        BY <1>1, <1>2, GameFields, EventFacts
      <4>2. Len(Append(game.story, Event(wire))) = Len(game.story) + 1 /\ Len(game.story) \in Nat
        BY <4>1, Appended
      <4> QED
        BY <4>2
    <3>3. strayed'
      BY <2>4, <2>6, <3>1, <3>2
    <3> QED
      BY <1>2, <2>3, <2>4, <3>3, AnswerReached
  <2> QED
    BY <2>2, <2>5, <2>6
<1> QED
  BY <1>4, <1>5, <1>6, <1>7
-----------------------------------------------------------------------------
(* The invariant holds *)

LEMMA Begins ==
  ASSUME TracedInit
  PROVE  TurnInv
<1> DEFINE G == NewGame
           D == serializeSave(G)
           K == {G, D}
<1>1. game = G /\ disk = D /\ wire = None /\ timer = TRUE /\ fresh = 1 /\ strayed = FALSE
  BY DEF TracedInit, Init
<1>2. /\ Start \in Nodes /\ 0 \in Nat /\ << >> \in Seq(Checks(1)) /\ << >> \in Seq(Marks(1))
      /\ << >> \in Seq(Events(1)) /\ {} \in SUBSET NodeCheckIds /\ "awaiting_player_action" \in Phases
      /\ MaxIds \in Nat
  BY ScenarioAssumption DEF Phases
<1>3. G \in Games(K, 1)
  <2> HIDE DEF K
  <2> QED
    BY <1>2 DEF Games, NewGame
<1>4. D \in Games(K, 1) /\ Quiet(G, D) /\ Calm(G, D)
  <2> HIDE DEF K, G
  <2>1. [G EXCEPT !.active = None, !.undo = None, !.rollback = None] \in Games(K, 1)
    BY <1>3, ZenonT(30) DEF Games
  <2>2. Quiet(G, D) /\ Calm(G, D)
    BY <1>3 DEF Games, serializeSave, Quiet, Calm
  <2> QED
    BY <2>1, <2>2 DEF serializeSave
<1>5. G.story = << >> /\ G.rolled = << >> /\ G.queue = << >> /\ G.check = None /\ G.failed = None
      /\ G.rollback = None /\ G.undo = None /\ G.phase = "awaiting_player_action"
  BY DEF NewGame
<1> HIDE DEF G, D
<1>6. IsInjective(<< >>) /\ ToSet(<< >>) = {} /\ DOMAIN << >> = {}
  BY DEF IsInjective, ToSet
<1>7. Fits(K, 1, None, G)
  BY <1>3, <1>5, <1>6 DEF Fits, RolledOnce, TakesBack, Apart, Called
<1>8. Fits(K, 1, None, D)
  BY <1>4, <1>7, QuietFits
<1>9. AnswersOnce(G) /\ AnswersOnce(D)
  <2>1. AnswersOnce(G)
    BY <1>5, <1>6 DEF AnswersOnce, Settled, Told
  <2> QED
    BY <1>4, <2>1, CalmAnswers
<1>10. Page = [g |-> G, w |-> None, t |-> TRUE, n |-> 1]
  BY <1>1 DEF Page
<1>11. Sound(K, Page)
  BY <1>7, <1>8, <1>10 DEF Sound
<1>12. Answering(K, Page)
  BY <1>9, <1>10 DEF Answering, Awaits
<1> QED
  BY <1>1, <1>2, <1>11, <1>12 DEF TurnInv

(* Every step keeps the story up to the last turn, but for a game loaded.    *)
LEMMA Moves ==
  ASSUME NEW K, Holds(K), TracedNext
  PROVE  Reaches(K) /\ (loadSlot \/ importSaveObject \/ Reopen \/ GoesOn)
<1>1. /\ wire # None /\ (loadSlot \/ importSaveObject) => strayed'
      /\ game.action # None /\ requestDirectionHint => strayed'
      /\ (game.action # None \/ game.rollback # None) /\ summarizeContext => strayed'
      /\ game'.phase = "error" /\ game'.story # game.story /\ Answered => strayed'
  BY DEF TracedNext
<1>2. Next
  BY DEF TracedNext
<1>3. CASE submitPlayerAction
  BY <1>3, Submits
<1>4. CASE retryInitialRequest
  BY <1>4, RetriesTurn
<1>5. CASE retryContinuation
  BY <1>5, RetriesContinuation
<1>6. CASE discardFailedTurn
  BY <1>6, Discards
<1>7. CASE dismissApiRecovery
  BY <1>7, Dismisses
<1>8. CASE undoLastTurn
  BY <1>8, Undoes
<1>9. ASSUME NEW skip \in BOOLEAN, resolvePendingCheck(skip)
      PROVE  Reaches(K) /\ GoesOn
  BY <1>9, ResolvesCheck
<1>10. CASE queueNodeChecks
  BY <1>10, QueuesNodeChecks
<1>11. CASE Answered
  BY <1>1, <1>11, AnsweredReaches
<1>12. CASE HintEnds
  BY <1>12, HintAnswered
<1>13. CASE SummaryEnds
  BY <1>13, EndsSummary
<1>14. CASE cancelActiveRequest
  BY <1>14, Cancels
<1>15. CASE requestDirectionHint
  BY <1>1, <1>15, AsksForHint
<1>16. CASE summarizeContext
  BY <1>1, <1>16, Summarizes
<1>17. CASE confirmNodeProposal
  BY <1>17, EntersNode
<1>18. CASE rejectNodeProposal
  BY <1>18, RejectsNode
<1>19. CASE \/ confirmEndingProposal \/ rejectEndingProposal \/ ChooseEnding
            \/ continueEpilogue \/ RecoverScene \/ LocalAid
  BY <1>19, EndingsAndRest
<1>20. CASE saveCurrentSlot
  BY <1>20, SavesSlot
<1>21. CASE loadSlot
  BY <1>1, <1>21, LoadsSlot
<1>22. CASE importSaveObject
  BY <1>1, <1>22, ImportsSave
<1>23. CASE Reopen
  BY <1>23, Reopens
<1> QED
  BY <1>2, <1>3, <1>4, <1>5, <1>6, <1>7, <1>8, <1>9, <1>10, <1>11, <1>12, <1>13, <1>14, <1>15,
     <1>16, <1>17, <1>18, <1>19, <1>20, <1>21, <1>22, <1>23 DEF Next, RequestEnds

LEMMA GoesFurther ==
  ASSUME TurnInv, [TracedNext]_allVars
  PROVE  TurnInv' /\ [loadSlot \/ importSaveObject \/ Reopen \/ GoesOn]_vars
<1>1. PICK K : /\ game \in K /\ disk \in K /\ Sound(K, Page) /\ fresh <= MaxIds + 1
               /\ ~ strayed => Answering(K, Page)
  BY DEF TurnInv
<1>2. CASE TracedNext
  <2>1. Reaches(K) /\ (loadSlot \/ importSaveObject \/ Reopen \/ GoesOn)
    BY <1>1, <1>2, Moves DEF Holds
  <2>2. PICK L : /\ game' \in L /\ disk' \in L /\ Sound(L, Page') /\ fresh' <= MaxIds + 1
                 /\ ~ strayed' /\ Answering(K, Page) => Answering(L, Page')
    BY <2>1 DEF Reaches
  <2>3. ~ strayed' => ~ strayed
    BY <1>2 DEF TracedNext
  <2>4. TurnInv'
    BY <1>1, <2>2, <2>3 DEF TurnInv
  <2> QED
    BY <2>1, <2>4
<1>3. CASE UNCHANGED allVars
  <2>1. UNCHANGED vars /\ strayed' = strayed
    BY <1>3 DEF allVars
  <2>2. game' = game /\ disk' = disk /\ fresh' = fresh /\ Page' = Page
    BY <2>1 DEF vars, Page
  <2> QED
    BY <1>1, <2>1, <2>2 DEF TurnInv
<1> QED
  BY <1>2, <1>3

THEOREM TurnsHold == TracedSpec => []TurnInv
<1>1. TracedInit => TurnInv
  BY Begins
<1>2. TurnInv /\ [TracedNext]_allVars => TurnInv'
  BY GoesFurther
<1> QED
  BY <1>1, <1>2, PTL DEF TracedSpec

-----------------------------------------------------------------------------
(* What the invariant says *)

(* state.js, ai-protocol.js: the state object and the request keep their     *)
(* shape.                                                                    *)
THEOREM SoloTurnTypes == TracedSpec => []TypeOK
<1>1. TurnInv => TypeOK
  <2> SUFFICES ASSUME NEW K, game \in K, disk \in K, Sound(K, Page), fresh <= MaxIds + 1
               PROVE  TypeOK
    BY DEF TurnInv
  <2>1. /\ game \in Games(K, fresh) /\ wire \in Wires(fresh) \cup {None} /\ fresh \in Nat \ {0}
        /\ timer \in BOOLEAN
    BY HoldsMeans DEF Holds
  <2>2. Past(fresh) \subseteq Ids /\ Marks(fresh) \subseteq Records /\ fresh \in 1..(MaxIds + 1)
    BY <2>1, ScenarioAssumption DEF Past, Marks, Ids, Records
  <2>3. /\ game.phase \in Phases /\ game.active \in Past(fresh) \cup {None}
        /\ game.check \in Checks(fresh) \cup {None} /\ game.chain \in Nat
        /\ game.triggered \in SUBSET NodeCheckIds
        /\ game.node \in Nodes /\ game.proposal \in Nodes \cup {None} /\ game.ending \in BOOLEAN
        /\ game.action \in Past(fresh) \cup {None} /\ game.last \in Marks(fresh) \cup {None}
        /\ game.rolled \in Seq(Marks(fresh)) /\ game.summary \in BOOLEAN /\ game.hinting \in BOOLEAN
    BY <2>1, GameFields
  <2>4. game.check # None => game.check.id \in Marks(fresh)
    BY <2>3 DEF Checks
  <2>5. ToSet(game.rolled) \subseteq Marks(fresh)
    BY <2>3, Elements
  <2>6. wire # None => wire.id \in Past(fresh) /\ wire.stage \in {"first", "repair"}
    BY <2>1 DEF Wires
  <2> QED
    BY <2>1, <2>2, <2>3, <2>4, <2>5, <2>6 DEF TypeOK
<1> QED
  BY <1>1, TurnsHold, PTL

(* ai-protocol.js, requestPlayerAction, requestContinuation: a turn is       *)
(* answered once and a check continued once, until the game strays.          *)
THEOREM TurnsAnsweredOnce == TracedSpec => []AnsweredOnce
<1>1. TurnInv => AnsweredOnce
  BY DEF TurnInv, AnsweredOnce, Answering, AnswersOnce, Settled
<1> QED
  BY <1>1, TurnsHold, PTL

(* scenario-engine.js, markCheckTriggered: no check is rolled twice.         *)
THEOREM ChecksRolledOnce == TracedSpec => []CheckRolledOnce
<1>1. TurnInv => CheckRolledOnce
  BY HoldsMeans DEF TurnInv, Holds, Fits, RolledOnce, CheckRolledOnce
<1> QED
  BY <1>1, TurnsHold, PTL

(* memory.js, captureTurnSnapshot; ai-protocol.js, captureRequestRollback:   *)
(* the story up to the last turn stays.                                      *)
THEOREM OneTurnTakenBack == TracedSpec => TakesBackOneTurnAtMost
<1>1. TurnInv /\ [TracedNext]_allVars =>
        [loadSlot \/ importSaveObject \/ Reopen
           \/ IsPrefix(BeforeLastTurn(game.story), game'.story)]_vars
  BY GoesFurther DEF GoesOn
<1> QED
  BY <1>1, TurnsHold, PTL DEF TracedSpec, TakesBackOneTurnAtMost
=============================================================================
