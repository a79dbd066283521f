-------------------------- MODULE SoloConsequences --------------------------
(* What a continuation may take from the player after a CoC check            *)
(* (src/coc-consequence-contract.js, src/failure-forward-cost-engine.js):    *)
(* the keeper's own punishments are struck out, the scenario's effects of    *)
(* the check are put in, and every failure_forward route the reply uses is   *)
(* charged once.                                                             *)
(*                                                                           *)
(* A change is [op, id, by, route, foreign]: an operation, the thing it is   *)
(* about (None when the operation has only one), an amount, and of a         *)
(* revealed clue the route and whether it names the record of another check. *)
(* The state and campaign channels have different operations and keep their  *)
(* own order, so one sequence holds both.                                    *)
EXTENDS Integers, Sequences, SequencesExt, FiniteSetsExt

CONSTANTS
    Authored,  \* [checks of nodes -> [success, failure : Seq(changes)]]
    Routes,    \* [<<clue, route>> -> [check, cost]], the failure_forward routes
    None

(* Amounts are modelled as whole numbers; a cost must be one, not negative   *)
(* (failure-forward-cost-engine.js:13, 20).                                  *)
ASSUME ScenarioAssumption ==
    /\ \A c \in DOMAIN Authored : \A effects \in {Authored[c].success, Authored[c].failure} :
          effects \in Seq(ToSet(effects)) /\ \A e \in ToSet(effects) : e.by \in Int
    /\ \A r \in DOMAIN Routes :
          Routes[r].cost \in [tension : Nat, hp : Nat, san : Nat, progress : Nat]

Change(op, id, by) == [op |-> op, id |-> id, by |-> by, route |-> None, foreign |-> FALSE]

effectIdentity(c) == <<c.op, c.id>>

(* A secret check's effects were applied when it was rolled. *)
authoredEffects(record) ==
    IF record.skipped \/ record.secret \/ record.check \notin DOMAIN Authored THEN <<>>
    ELSE IF record.success THEN Authored[record.check].success
    ELSE Authored[record.check].failure

FaultyUnauthorizedPunitive(c) ==
    \/ c.op = "adjustHp" /\ c.by < 0
    \/ c.op \in {"removeItem", "adjustTension", "addThreat"}
    \/ c.op = "adjustSan" /\ c.by > 0

unauthorizedPunitive(c) ==
    \/ c.op \in {"adjustHp", "adjustResource", "updateItemQuantity", "adjustProgress"} /\ c.by < 0
    \/ c.op \in {"adjustSan", "removeItem", "adjustTension", "addThreat"}
    \/ c.op = "advanceClock" /\ c.by > 0

(* The changes that are left when some are struck out. *)
Without(changes, struck) ==
    LET left[i \in 0..Len(changes)] ==
            IF i = 0 THEN <<>>
            ELSE IF changes[i] \in struck THEN left[i - 1] ELSE Append(left[i - 1], changes[i])
    IN  left[Len(changes)]

stripAuthoredDuplicates(changes, effects) ==
    Without(changes, {c \in ToSet(changes) :
                         effectIdentity(c) \in {effectIdentity(e) : e \in ToSet(effects)}})

-----------------------------------------------------------------------------
(* Failure forward *)

By(c) == <<c.id, c.route>>

(* A clue of the scenario revealed by a failure_forward route that is open   *)
(* to the check of the record, and not for the sake of another record.       *)
UsesRoute(c, record) ==
    /\ c.op = "revealClue" /\ ~c.foreign
    /\ By(c) \in DOMAIN Routes
    /\ Routes[By(c)].check \in {None, record.check}

(* The changes that pay for a route of a failed check: the first to use it.  *)
routeEntries(changes, record) ==
    IF record.skipped \/ record.success THEN {}
    ELSE {i \in 1..Len(changes) :
            /\ UsesRoute(changes[i], record)
            /\ \A j \in 1..(i - 1) :
                  UsesRoute(changes[j], record) => By(changes[j]) # By(changes[i])}

(* A fumble makes a cost in tension at least 2. *)
effectiveCost(c, record) ==
    LET cost == Routes[<<c.id, c.route>>].cost
    IN  IF cost.tension > 0 /\ record.fumble THEN [cost EXCEPT !.tension = Max({2, @})] ELSE cost

costMerge(a, b) == [tension |-> a.tension + b.tension, hp |-> a.hp + b.hp,
                    san |-> a.san + b.san, progress |-> a.progress + b.progress]

authoredTotals(changes, record) ==
    LET total[i \in 0..Len(changes)] ==
            IF i = 0 THEN [tension |-> 0, hp |-> 0, san |-> 0, progress |-> 0]
            ELSE IF i \in routeEntries(changes, record)
            THEN costMerge(total[i - 1], effectiveCost(changes[i], record))
            ELSE total[i - 1]
    IN  total[Len(changes)]

(* What the purse can pay; its last hit point is not taken.  The purse is    *)
(* the one before the reply and the scenario's effects of the check.         *)
appliedTotals(total, purse) ==
    [tension  |-> Min({total.tension, Max({0, purse.maxTension - purse.tension})}),
     hp       |-> Min({total.hp, Max({0, purse.hp - 1})}),
     san      |-> Min({total.san, purse.san}),
     progress |-> Min({total.progress, purse.progress, 10})]

costEffects(t) ==
    LET all == <<Change("adjustHp", None, -t.hp), Change("adjustSan", None, -t.san),
                 Change("adjustTension", None, t.tension),
                 Change("adjustProgress", None, -t.progress)>>
    IN  Without(all, {c \in ToSet(all) : c.by = 0})

(* The keeper's changes without punishments, and the scenario's effects. *)
Governed(changes, record) ==
    LET effects == authoredEffects(record)
        new     == stripAuthoredDuplicates(changes, effects)
    IN  Without(new, {c \in ToSet(new) : unauthorizedPunitive(c)}) \o effects

(* The changes a reply to the record of a CoC check commits. *)
cocConsequencePrepareParsed(changes, record, purse) ==
    LET before == Governed(changes, record)
    IN  before \o costEffects(appliedTotals(authoredTotals(before, record), purse))

Amounts(changes, op) ==
    LET those == Without(changes, {c \in ToSet(changes) : c.op # op})
    IN  [i \in DOMAIN those |-> those[i].by]
=============================================================================
