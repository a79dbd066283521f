------------------------------ MODULE CostSweep ------------------------------
(* What a check costs, for every purse an investigator may have, every reply *)
(* of the keeper and every record of a check: each is a question of its own, *)
(* and nothing moves.                                                        *)
EXTENDS SoloSanity

VARIABLE asked   \* [purse, changes, record]

Questions == [purse : Purses, changes : Replies, record : Records]
AskSpec == asked \in Questions /\ [][UNCHANGED asked]_asked

(* What the reply leaves of the purse.                                       *)
After(q) == prepareStateChanges(q.purse, cocConsequencePrepareParsed(q.changes, q.record, q.purse))
NoWorse(p, r) == p.hp >= r.hp /\ p.san >= r.san /\ p.tension <= r.tension /\ p.progress >= r.progress

(* The routes take at most all but one of the hit points there were before   *)
(* the reply (src/failure-forward-cost-engine.js:37), and the last one goes  *)
(* only when the scenario attached a loss of hit points to the check: cap    *)
(* and loss together may then take it, so that the policy of line 46, which  *)
(* the page sends to the keeper, does not hold of the code.  A success the   *)
(* scenario attaches no effect to costs nothing, whatever the keeper writes  *)
(* (src/coc-consequence-contract.js:53-66).                                  *)
CostsAreAuthored(q) ==
    LET effects == authoredEffects(q.record)
        unpaid  == prepareStateChanges(q.purse, Governed(q.changes, q.record))
        hurts   == \E e \in ToSet(effects) : e.op = "adjustHp" /\ e.by < 0
    IN  /\ unpaid.hp - After(q).hp <= Max({0, q.purse.hp - 1})
        /\ q.purse.hp > 0 /\ ~hurts => After(q).hp > 0
        /\ q.record.success /\ effects = <<>> => NoWorse(After(q), q.purse)

(* Writing the same revelation or the scenario's own effect twice does not   *)
(* make it cost more, and no gift of the keeper does                         *)
(* (src/failure-forward-cost-engine.js:29,                                   *)
(* src/coc-consequence-contract.js:68-70).                                   *)
Reveals(changes) == Without(changes, {c \in ToSet(changes) : c.op # "revealClue"})
Gifts(changes)   == {c \in ToSet(changes) : c.op # "revealClue" /\ c.by > 0}
NothingPaidTwice(q) ==
    NoWorse(After([q EXCEPT !.changes = @ \o Reveals(@) \o authoredEffects(q.record)]),
            After([q EXCEPT !.changes = Without(@, Gifts(@))]))

(* A check costs what the scenario wrote, and costs it once                  *)
(* (src/coc-consequence-contract.js:76-89).                                  *)
CostsHold == CostsAreAuthored(asked) /\ NothingPaidTwice(asked)
=============================================================================
