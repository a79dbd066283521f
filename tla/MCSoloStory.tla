---------------------------- MODULE MCSoloStory -----------------------------
(* The story of a scenario with one clock of its own and one of the AI, and  *)
(* the investigator's losses, and what checks cost.  The three share no      *)
(* variable; part says which of them this behaviour is about.                *)
EXTENDS CostSweep, SoloStory

CONSTANTS Tide, Cult, Quay, Light, Tracks, Oath, Escape, Leave,
          Stalled, Threatened, Reached, Trap, Fall, Clue, Route

VARIABLE part

(* The mind *)
MCFull == [hp |-> 3, san |-> 10, tension |-> 1, maxTension |-> 2, progress |-> 1]
Effect(op, by) == <<Change(op, None, by)>>
MCAuthored ==
    [c \in {Trap, Fall} |->
        [success |-> IF c = Trap THEN <<>> ELSE Effect("adjustHp", 1),
         failure |-> IF c = Trap THEN Effect("adjustHp", -2) ELSE <<>>]]
MCRoutes ==
    <<Clue, Route>> :> [check |-> None, cost |-> [tension |-> 1, hp |-> 2, san |-> 1, progress |-> 2]]
Reveal == <<[Change("revealClue", Clue, 0) EXCEPT !.route = Route]>>
Foreign == <<[Reveal[1] EXCEPT !.foreign = TRUE]>>
MCReplies == {<<>>, Reveal, Effect("adjustSan", -2), Effect("adjustSan", 3),
              Effect("adjustHp", -2), Effect("adjustHp", 1),
              Effect("adjustTension", 1) \o Foreign \o Reveal}
MCRecords == [check : {Trap, Fall}, success : BOOLEAN, skipped : {FALSE}, secret : {FALSE},
              fumble : BOOLEAN]

(* The story *)
Rule(id, event) == [id |-> id, event |-> event, amount |-> 1, once |-> FALSE, cooldown |-> 0,
                    atLeast |-> 2, kinds |-> {}, flag |-> Oath, clue |-> Tracks, nodes |-> {}]
MCThreatClocks == <<Tide, Cult>>
MCClockMax     == [c \in {Tide, Cult} |-> IF c = Tide THEN 4 ELSE 2]
MCMaxAdvance   == Tide :> 2
MCAdvanceRules ==
    Tide :> <<[Rule(Stalled, "stall") EXCEPT !.cooldown = 2],
              [Rule(Threatened, "semantic") EXCEPT !.kinds = {"THREAT"}, !.amount = 3]>>
MCResolveRules == Tide :> <<[Rule(Reached, "node") EXCEPT !.nodes = {Light}, !.once = TRUE]>>
Gate == [alwaysAvailable |-> FALSE, requiredFlags |-> {}, forbiddenFlags |-> {}, minClues |-> 0,
         requiredClues |-> {}, anyClues |-> {}, nodes |-> {}, clocks |-> <<>>,
         noThreats |-> FALSE, kinds |-> {}]
MCEndings ==
    Escape :> [Gate EXCEPT !.requiredClues = {Tracks}, !.clocks = Tide :> "active",
                           !.noThreats = TRUE, !.kinds = {"DISCOVERY"}]
    @@ Leave :> [Gate EXCEPT !.minClues = 1, !.nodes = {Light}, !.forbiddenFlags = {Oath},
                             !.clocks = Cult :> "resolved"]
Nothing == [sets |-> {}, clears |-> {}, clues |-> {}, tension |-> 0, threat |-> NoOne,
            progress |-> FALSE, advances |-> <<>>, resolves |-> {}, other |-> {}]
MCEffects == {Nothing, [Nothing EXCEPT !.clues = {Tracks}], [Nothing EXCEPT !.sets = {Oath}],
              [Nothing EXCEPT !.tension = 1, !.threat = TRUE],
              [Nothing EXCEPT !.threat = FALSE, !.clears = {Oath}, !.progress = TRUE],
              [Nothing EXCEPT !.advances = [c \in {Tide, Cult} |-> 2], !.other = {"SOCIAL"}],
              [Nothing EXCEPT !.resolves = {Tide, Cult}], [Nothing EXCEPT !.other = {"THREAT"}]}

allVars == <<mindVars, storyVars, asked, part>>
MCInit ==
    /\ Init /\ StoryInit /\ part \in {"mind", "story", "costs"}
    /\ IF part = "costs"
       THEN asked \in Questions /\ asked.purse.progress <= Full.progress
       ELSE asked = [purse |-> Full, changes |-> <<>>, record |-> CHOOSE r \in Records : TRUE]
MCNext == /\ \/ part = "mind" /\ Next /\ UNCHANGED storyVars
             \/ part = "story" /\ StoryNext /\ UNCHANGED mindVars
          /\ UNCHANGED <<part, asked>>
MCSpec == MCInit /\ [][MCNext]_allVars
=============================================================================
