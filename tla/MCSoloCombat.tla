---------------------------- MODULE MCSoloCombat ----------------------------
(* One investigator with armor against a readied firearm and a blade.        *)
EXTENDS SoloCombatProperties

CONSTANTS P, Gun, Blade, Trap, Fall, Clue, Route

MCRoster     == <<P, Gun, Blade>>
MCDuel       == <<P, Gun>>
MCInitiative == [p \in {P, Gun, Blade} |-> IF p = Gun THEN 100 ELSE 50]
MCMaxHp      == [p \in {P, Gun, Blade} |-> IF p = P THEN 4 ELSE 2]
MCArms ==
    [p \in {P, Gun, Blade} |->
        CASE p = P     -> [kind |-> "melee", dice |-> {1, 2}, bonus |-> {0}, armor |-> 1]
          [] p = Gun   -> [kind |-> "firearm", dice |-> {1, 2}, bonus |-> {0}, armor |-> 0]
          [] p = Blade -> [kind |-> "impaling", dice |-> {1, 3}, bonus |-> {-1, 0}, armor |-> 0]]
MCBlows == {-4, -2, 1}

MCAuthored == [c \in {Trap, Fall} |->
    [success |-> <<>>, failure |-> IF c = Trap THEN <<Change("adjustHp", None, -2)>> ELSE <<>>]]
MCRoutes == (<<Clue, Route>> :> [check |-> None, cost |-> [tension |-> 1, hp |-> 2, san |-> 0, progress |-> 0]])
Failed(check, care, reveals) ==
    [check |-> check, success |-> FALSE, skipped |-> FALSE, secret |-> FALSE,
     fumble |-> FALSE, care |-> care, reveals |-> reveals]
MCRecords == {Failed(Trap, FALSE, <<[Change("revealClue", Clue, 0) EXCEPT !.route = Route]>>),
              Failed(Fall, TRUE, <<>>)}
=============================================================================
