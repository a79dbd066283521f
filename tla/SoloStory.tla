----------------------------- MODULE SoloStory ------------------------------
(* How the story of the single-player page comes to an end: the threat       *)
(* clocks of the scenario and of the AI (src/authored-threat-clock.js, on    *)
(* top of src/scenario-engine.js), the semantic events commits leave behind  *)
(* (src/progress-semantics.js), and the gate every ending passes             *)
(* (src/ending-resolution-gate.js).                                          *)
(*                                                                           *)
(* Ids of semantic events are only compared with the latest event that did   *)
(* not come from a clock: a clock is fresh when it has not been evaluated    *)
(* with that event, and seen says that a rule has fired on it.  The history  *)
(* keeps the last HistoryLimit events, so a kind may be forgotten again.     *)
(* Going back to an earlier turn restores an earlier state (SoloTurn).       *)
EXTENDS Integers, Sequences, SequencesExt, FiniteSetsExt

CONSTANTS
    ThreatClocks,   \* the sequence of the clocks
    AuthoredClocks, \* those of them whose rules the scenario has
    ClockMax,       \* [clocks -> 1..20]
    MaxAdvance,     \* [authored clocks -> 1..3], maxAdvancePerEvaluation
    AdvanceRules,   \* [authored clocks -> sequences of rules]
    ResolveRules,   \* [authored clocks -> sequences of rules]
    Endings,        \* [endings -> their conditions]
    Effects,        \* what replies and secret checks may change
    Nodes, Start,   \* the nodes, and the one the scenario starts in
    TopTension,     \* directorState.maxTension
    NoOne,          \* no proposal, no ending
    HistoryLimit,   \* PROGRESS_SEMANTIC_HISTORY_LIMIT, 80
    MaxTurn, MaxEvents  \* bounds: the turns played, the semantic events

VARIABLES
    tale,    \* campaign and directorState
    clocks,  \* directorState.clocks and their authoredState
    events   \* history: how many semantic events did not come from a clock

storyVars == <<tale, clocks, events>>

Clocks == ToSet(ThreatClocks)

(* A gate only names clocks the scenario has (ending-resolution-gate.js:38). *)
ASSUME GateAssumption == \A e \in DOMAIN Endings : DOMAIN Endings[e].clocks \subseteq Clocks

ASSUME ClockAssumption ==
    /\ ThreatClocks \in Seq(Clocks) /\ AuthoredClocks \subseteq Clocks
    /\ TopTension \in Nat \ {0} /\ HistoryLimit \in Nat \ {0}
    /\ MaxTurn \in Nat /\ MaxEvents \in Nat
    /\ ClockMax \in [Clocks -> Nat \ {0}]
    /\ MaxAdvance \in [AuthoredClocks -> Nat \ {0}]

(* The amounts and the ids of the rules of a clock are what the validation   *)
(* of a scenario lets through (authored-threat-clock.js:25, 35).             *)
ASSUME RuleAssumption ==
    \A c \in AuthoredClocks :
        /\ AdvanceRules[c] \in Seq(ToSet(AdvanceRules[c]))
        /\ ResolveRules[c] \in Seq(ToSet(ResolveRules[c]))
        /\ \A r \in ToSet(AdvanceRules[c]) : r.amount \in Nat \ {0}
        /\ \A r, s \in ToSet(AdvanceRules[c] \o ResolveRules[c]) : r.id = s.id => r = s

(* Replies advance clocks by whole steps (scenario-engine.js:111).           *)
ASSUME EffectAssumption ==
    \A e \in Effects :
        /\ e.tension \in Int /\ e.threat \in BOOLEAN \cup {NoOne} /\ e.progress \in BOOLEAN
        /\ \A c \in DOMAIN e.advances : e.advances[c] \in Nat \ {0}

Rules(c) == IF c \in AuthoredClocks THEN ToSet(AdvanceRules[c] \o ResolveRules[c]) ELSE {}

NewTale ==
    [turn |-> 0, scene |-> 0, progressed |-> 0, evaluated |-> -1, node |-> Start,
     flags |-> {}, clues |-> {}, tension |-> 1, threat |-> FALSE, history |-> <<>>,
     phase |-> "awaiting_player_action", place |-> NoOne, proposal |-> NoOne, ending |-> NoOne]

StoryInit ==
    /\ tale = NewTale
    /\ clocks = [c \in Clocks |->
                    [current |-> 0, triggered |-> FALSE, resolved |-> FALSE, fresh |-> FALSE,
                     fires |-> [id \in {r.id : r \in Rules(c)} |->
                                   [count |-> 0, last |-> -1, seen |-> FALSE]]]]
    /\ events = 0

Active(k) == ~k.triggered /\ ~k.resolved

advanceThreatClockInDirector(c, k, amount) ==
    LET current == Min({k.current + amount, ClockMax[c]})
    IN  [k EXCEPT !.current = current, !.triggered = @ \/ current >= ClockMax[c]]

resolveThreatClockInDirector(k) == [k EXCEPT !.resolved = TRUE]

-----------------------------------------------------------------------------
(* Semantic events *)

(* What changed from one state to another; other: the kinds of the changes   *)
(* to what is not modelled (items, NPCs, leads, hit points, outcomes).       *)
deriveProgressSemantics(t, ks, t2, ks2, other) ==
    LET Some(P(_, _)) == \E c \in Clocks : P(ks[c], ks2[c])
        found ==
            other
            \cup {k \in {"DISCOVERY"} : t2.clues # t.clues}
            \cup {k \in {"ACCESS"} : t2.node # t.node}
            \cup {k \in {"THREAT"} :
                    \/ t2.tension > t.tension \/ (t2.threat /\ ~t.threat)
                    \/ Some(LAMBDA a, b : b.current > a.current \/ (b.triggered /\ ~a.triggered))}
            \cup {k \in {"RESOLUTION"} :
                    \/ t.ending = NoOne /\ t2.ending # NoOne
                    \/ t.threat /\ ~t2.threat
                    \/ Some(LAMBDA a, b : b.resolved /\ ~a.resolved)}
    IN  IF found = {} THEN {"NONE"} ELSE found

(* One more event than the limit pushes the oldest out.                      *)
Retained(history) == IF Len(history) > HistoryLimit THEN Tail(history) ELSE history

(* An event is external unless a clock caused it; a clock that changed       *)
(* nothing leaves none.                                                      *)
recordProgressSemantics(t, kinds, external) ==
    IF kinds = {"NONE"} /\ ~external THEN t
    ELSE [t EXCEPT !.history = Retained(Append(@, [kinds |-> kinds, external |-> external]))]

authoredClockLatestExternalSemantic(t) ==
    LET last == SelectLastInSeq(t.history, LAMBDA event : event.external)
    IN  IF last = 0 THEN {} ELSE t.history[last].kinds

endingGateSemanticKinds(t) ==
    UNION {t.history[i].kinds : i \in DOMAIN t.history} \ {"NONE"}

Renewed(ks) ==
    [c \in Clocks |->
        [current |-> ks[c].current, triggered |-> ks[c].triggered, resolved |-> ks[c].resolved,
         fresh |-> TRUE,
         fires |-> [id \in DOMAIN ks[c].fires |-> [ks[c].fires[id] EXCEPT !.seen = FALSE]]]]

-----------------------------------------------------------------------------
(* The rules of authored clocks *)

ruleCanFire(k, rule, turn) ==
    LET fire == k.fires[rule.id]
    IN  /\ rule.once => fire.count = 0
        /\ rule.cooldown > 0 /\ fire.last >= 0 => turn - fire.last >= rule.cooldown
        /\ ~(rule.event = "semantic" /\ k.fresh /\ fire.seen)

ruleMatches(t, k, rule) ==
    CASE rule.event = "stall"    -> Max({0, t.scene - t.progressed}) >= rule.atLeast
      [] rule.event = "semantic" -> k.fresh /\ rule.kinds \cap authoredClockLatestExternalSemantic(t) # {}
      [] rule.event = "flag"     -> rule.flag \in t.flags
      [] rule.event = "clue"     -> rule.clue \in t.clues
      [] rule.event = "node"     -> t.node \in rule.nodes
      [] rule.event = "tension"  -> t.tension >= rule.atLeast
      [] rule.event = "turn"     -> t.turn >= rule.atLeast

markFire(k, rule, turn) ==
    [k EXCEPT !.fires[rule.id] = [count |-> @.count + 1, last |-> turn,
                                  seen |-> @.seen \/ rule.event = "semantic"]]

Fires(t, k, rule) == ruleCanFire(k, rule, t.turn) /\ ruleMatches(t, k, rule)

(* The first resolving rule that fires. *)
Resolution(t, c, k) ==
    LET first == SelectInSeq(ResolveRules[c], LAMBDA rule : Fires(t, k, rule))
    IN  IF k.resolved \/ first = 0 THEN k
        ELSE markFire(resolveThreatClockInDirector(k), ResolveRules[c][first], t.turn)

FaultyAdvance(t, c, k) ==
    LET Step(acc, rule) ==
            IF acc.budget <= 0 \/ acc.k.triggered \/ ~Fires(t, acc.k, rule) THEN acc
            ELSE [k |-> markFire(advanceThreatClockInDirector(c, acc.k, rule.amount), rule, t.turn),
                  budget |-> acc.budget - rule.amount]
        after[i \in 0..Len(AdvanceRules[c])] ==
            IF i = 0 THEN [k |-> k, budget |-> MaxAdvance[c]]
            ELSE Step(after[i - 1], AdvanceRules[c][i])
    IN  IF Active(k) THEN after[Len(AdvanceRules[c])].k ELSE k

(* The advancing rules share what a clock may move in one evaluation.        *)
Advance(t, c, k) ==
    LET Step(acc, rule) ==
            LET amount == Min({acc.budget, rule.amount})
            IN  IF acc.budget <= 0 \/ acc.k.triggered \/ ~Fires(t, acc.k, rule) THEN acc
                ELSE [k |-> markFire(advanceThreatClockInDirector(c, acc.k, amount), rule, t.turn),
                      budget |-> acc.budget - amount]
        after[i \in 0..Len(AdvanceRules[c])] ==
            IF i = 0 THEN [k |-> k, budget |-> MaxAdvance[c]]
            ELSE Step(after[i - 1], AdvanceRules[c][i])
    IN  IF Active(k) THEN after[Len(AdvanceRules[c])].k ELSE k

(* evaluateAuthoredThreatClocks, once a turn. *)
evaluateAuthoredThreatClocks(t, ks) ==
    IF t.evaluated = t.turn THEN ks
    ELSE [c \in Clocks |->
            IF c \in AuthoredClocks
            THEN [Advance(t, c, Resolution(t, c, ks[c]))
                  EXCEPT !.fresh = @ /\ authoredClockLatestExternalSemantic(t) = {}]
            ELSE ks[c]]

evaluateAuthoredThreatClockResolutions(t, ks) ==
    [c \in Clocks |-> IF c \in AuthoredClocks THEN Resolution(t, c, ks[c]) ELSE ks[c]]

-----------------------------------------------------------------------------
(* The gate of endings *)

endingGateClockMatches(k, required) ==
    CASE required = "resolved"  -> k.resolved
      [] required = "triggered" -> k.triggered
      [] required = "active"    -> Active(k)

(* What a gate asks of the state itself. *)
StateEarns(e, t, ks) ==
    LET g == Endings[e]
    IN  /\ g.requiredFlags \subseteq t.flags
        /\ g.forbiddenFlags \cap t.flags = {}
        /\ Cardinality(t.clues) >= g.minClues
        /\ g.requiredClues \subseteq t.clues
        /\ g.anyClues # {} => g.anyClues \cap t.clues # {}
        /\ g.nodes # {} => t.node \in g.nodes
        /\ \A c \in DOMAIN g.clocks : endingGateClockMatches(ks[c], g.clocks[c])
        /\ g.noThreats => ~t.threat

(* And of what has happened, as far as the history still tells. *)
endingGateEvaluate(e, t, ks) ==
    \/ Endings[e].alwaysAvailable
    \/ StateEarns(e, t, ks) /\ Endings[e].kinds \subseteq endingGateSemanticKinds(t)

-----------------------------------------------------------------------------
(* Actions *)

Idle == tale.phase = "awaiting_player_action"

(* What a handler did becomes the state: its semantic event is recorded      *)
(* (recordNone: even when nothing changed) and the resolving rules are tried.*)
Committed(t, ks, other, recordNone) ==
    LET kinds == deriveProgressSemantics(tale, clocks, t, ks, other)
        told  == recordNone \/ kinds # {"NONE"}
        t2    == IF told THEN recordProgressSemantics(t, kinds, TRUE) ELSE t
        ks2   == IF told THEN Renewed(ks) ELSE ks
        ks3   == evaluateAuthoredThreatClockResolutions(t2, ks2)
        kinds3 == deriveProgressSemantics(t2, ks2, t2, ks3, {})
    IN  /\ events' = events + (IF told THEN 1 ELSE 0)
        /\ events' <= MaxEvents
        /\ clocks' = ks3
        /\ tale' = recordProgressSemantics(t2, kinds3, FALSE)

(* requestPlayerAction, up to the request. *)
submitAction ==
    /\ Idle /\ tale.turn < MaxTurn
    /\ LET t == [tale EXCEPT !.turn = @ + 1, !.scene = @ + 1, !.phase = "requesting_ai"]
           ks == evaluateAuthoredThreatClocks(t, clocks)
       IN  /\ clocks' = ks
           /\ tale' = [recordProgressSemantics(
                          t, deriveProgressSemantics(t, clocks, t, ks, {}), FALSE)
                       EXCEPT !.evaluated = t.turn]
    /\ UNCHANGED events

(* Changes to state, and to the campaign; a new clue is progress.            *)
prepareCampaign(e) ==
    [tale EXCEPT !.flags = (@ \ e.clears) \cup e.sets,
                 !.clues = @ \cup e.clues,
                 !.tension = Max({1, Min({@ + e.tension, TopTension})}),
                 !.threat = IF e.threat = NoOne THEN @ ELSE e.threat,
                 !.progressed = IF e.progress \/ ~(e.clues \subseteq tale.clues)
                                THEN tale.scene ELSE @]

FaultyClockOps(e) ==
    [c \in Clocks |->
        LET k == IF c \in DOMAIN e.advances
                 THEN advanceThreatClockInDirector(c, clocks[c], e.advances[c]) ELSE clocks[c]
        IN  IF c \in e.resolves THEN resolveThreatClockInDirector(k) ELSE k]

(* The AI's changes to clocks; those to authored clocks are left out.        *)
prepareClockOps(e) ==
    [c \in Clocks |->
        LET k == IF c \in DOMAIN e.advances
                 THEN advanceThreatClockInDirector(c, clocks[c], e.advances[c]) ELSE clocks[c]
        IN  IF c \in AuthoredClocks THEN clocks[c]
            ELSE IF c \in e.resolves THEN resolveThreatClockInDirector(k) ELSE k]

(* A reply that asks for a check changes nothing; the roll and the           *)
(* continuation's request are still requesting_ai here.                      *)
commitCheckReply ==
    /\ tale.phase = "requesting_ai"
    /\ Committed([tale EXCEPT !.place = NoOne, !.proposal = NoOne], clocks, {}, TRUE)

(* Any other reply; an ending whose gate is not ready is struck out.         *)
commitAiTransaction ==
    /\ tale.phase = "requesting_ai"
    /\ \E e \in Effects, place \in (Nodes \ {tale.node}) \cup {NoOne},
          proposed \in DOMAIN Endings \cup {NoOne} :
          LET t  == prepareCampaign(e)
              ks == prepareClockOps(e)
              ending == IF proposed # NoOne /\ endingGateEvaluate(proposed, t, ks)
                        THEN proposed ELSE NoOne
              phase  == IF ending # NoOne THEN "awaiting_ending_confirmation"
                        ELSE IF place # NoOne THEN "awaiting_node_confirmation"
                        ELSE "awaiting_player_action"
          IN  Committed([t EXCEPT !.place = place, !.proposal = ending, !.phase = phase],
                        ks, e.other, TRUE)

(* A secret check of an action, or of a node the player has entered.         *)
applySecretCheckOutcome ==
    /\ tale.phase \in {"requesting_ai", "awaiting_player_action"}
    /\ \E e \in Effects :
          /\ e.advances = <<>> /\ e.resolves = {} /\ e.threat = NoOne /\ e.tension = 0
          /\ ~e.progress
          /\ Committed(prepareCampaign(e), clocks, e.other, FALSE)

(* confirmNodeProposal; an ending proposed by the same reply stays open.     *)
enterNode ==
    /\ tale.place # NoOne /\ tale.phase # "requesting_ai"
    /\ Committed([tale EXCEPT !.node = tale.place, !.place = NoOne, !.scene = 0,
                              !.progressed = 0, !.phase = "awaiting_player_action"],
                 clocks, {}, FALSE)

rejectNodeProposal ==
    /\ tale.place # NoOne /\ tale.phase # "requesting_ai"
    /\ tale' = [tale EXCEPT !.place = NoOne, !.phase = "awaiting_player_action"]
    /\ UNCHANGED <<clocks, events>>

(* requestDirectionHint: the turn is over, and the first active clock moves, *)
(* an authored one too.                                                      *)
applyHintCost ==
    /\ Idle /\ tale.turn < MaxTurn
    /\ LET t == [tale EXCEPT !.turn = @ + 1, !.scene = @ + 1]
           active == SelectInSeq(ThreatClocks, LAMBDA c : Active(clocks[c]))
       IN  IF active = 0
           THEN /\ tale' = [t EXCEPT !.tension = Min({@ + 1, TopTension})]
                /\ UNCHANGED clocks
           ELSE /\ clocks' = [clocks EXCEPT ![ThreatClocks[active]] =
                                advanceThreatClockInDirector(ThreatClocks[active], @, 1)]
                /\ tale' = t
    /\ UNCHANGED events

(* The ending and its own semantic event. *)
applyEnding(e) ==
    /\ endingGateEvaluate(e, tale, clocks)
    /\ events < MaxEvents
    /\ tale' = recordProgressSemantics(
                  [tale EXCEPT !.ending = e, !.proposal = NoOne, !.place = NoOne,
                               !.phase = "campaign_ended"], {"RESOLUTION"}, TRUE)
    /\ clocks' = Renewed(clocks)
    /\ events' = events + 1

FaultyConfirm ==
    /\ tale.proposal # NoOne /\ tale.phase # "requesting_ai"
    /\ tale' = recordProgressSemantics(
                  [tale EXCEPT !.ending = tale.proposal, !.proposal = NoOne, !.place = NoOne,
                               !.phase = "campaign_ended"], {"RESOLUTION"}, TRUE)
    /\ clocks' = Renewed(clocks)
    /\ events' = events + 1

confirmEndingProposal ==
    /\ tale.proposal # NoOne /\ tale.phase # "requesting_ai"
    /\ IF endingGateEvaluate(tale.proposal, tale, clocks) THEN applyEnding(tale.proposal)
       ELSE /\ tale' = [tale EXCEPT !.proposal = NoOne, !.phase = "awaiting_player_action"]
            /\ UNCHANGED <<clocks, events>>

rejectEndingProposal ==
    /\ tale.proposal # NoOne /\ tale.phase # "requesting_ai"
    /\ tale' = [tale EXCEPT !.proposal = NoOne, !.phase = "awaiting_player_action"]
    /\ UNCHANGED <<clocks, events>>

(* The player ends the investigation from the list of available endings.     *)
chooseEnding ==
    /\ tale.phase \notin {"requesting_ai", "campaign_ended"}
    /\ \E e \in DOMAIN Endings : applyEnding(e)

(* "continue the epilogue" *)
continueEpilogue ==
    /\ tale.phase = "campaign_ended"
    /\ tale' = [tale EXCEPT !.ending = NoOne, !.phase = "awaiting_player_action"]
    /\ UNCHANGED <<clocks, events>>

StoryNext ==
    \/ submitAction \/ commitCheckReply \/ commitAiTransaction \/ applySecretCheckOutcome
    \/ enterNode \/ rejectNodeProposal \/ applyHintCost
    \/ confirmEndingProposal \/ rejectEndingProposal \/ chooseEnding \/ continueEpilogue

StorySpec == StoryInit /\ [][StoryNext]_storyVars
-----------------------------------------------------------------------------
(* Properties *)

(* Turns, tension and clocks keep their ranges, and a clock has triggered    *)
(* exactly when it is full (src/scenario-engine.js:109-112,                  *)
(* src/authored-threat-clock.js:75).                                         *)
StoryTypeOK ==
    /\ tale.turn \in 0..MaxTurn /\ tale.progressed \in 0..tale.scene
    /\ tale.evaluated <= tale.turn /\ tale.tension \in 1..TopTension
    /\ tale.phase \in {"awaiting_player_action", "requesting_ai", "awaiting_node_confirmation",
                       "awaiting_ending_confirmation", "campaign_ended"}
    /\ \A c \in Clocks : clocks[c].triggered <=> clocks[c].current = ClockMax[c]

(* However many rules fire, and whatever the AI and the hints do besides, a  *)
(* clock of the scenario has moved by no more than maxAdvancePerEvaluation   *)
(* for each turn there was (src/authored-threat-clock.js:58-61).             *)
WithinItsPace ==
    \A c \in AuthoredClocks : clocks[c].current <= MaxAdvance[c] * tale.turn

(* A rule about semantic events answers each event at most once, however     *)
(* many turns pass before the next (src/authored-threat-clock.js:40, 59).    *)
EachEventOnce ==
    \A c \in AuthoredClocks : \A r \in Rules(c) :
        r.event = "semantic" => clocks[c].fires[r.id].count <= events

(* The clocks and the turns agree: the scenario's threats approach at the    *)
(* pace its author wrote, whatever happens how often in a turn               *)
(* (src/authored-threat-clock.js:53-63).                                     *)
ClocksKeepPace == StoryTypeOK /\ WithinItsPace /\ EachEventOnce

(* A clock of the scenario that has triggered or been resolved never moves   *)
(* again, and neither is ever taken back; the AI has no say in it            *)
(* (src/authored-threat-clock.js:1, 61, 86-88).                              *)
SettledStays ==
    [][\A c \in AuthoredClocks :
        /\ ~Active(clocks[c]) => clocks'[c].current = clocks[c].current
        /\ clocks[c].triggered => clocks'[c].triggered
        /\ clocks[c].resolved => clocks'[c].resolved
        /\ clocks'[c].resolved /\ ~clocks[c].resolved =>
              \E r \in ToSet(ResolveRules[c]) :
                  clocks'[c].fires[r.id].count > clocks[c].fires[r.id].count]_storyVars

(* Nothing comes between a campaign and what its ending asked of its state   *)
(* until the epilogue goes on.                                               *)
EndingStands ==
    tale.ending # NoOne =>
        Endings[tale.ending].alwaysAvailable \/ StateEarns(tale.ending, tale, clocks)

(* "Every actual ending commit is re-evaluated at commit time"               *)
(* (src/ending-resolution-gate.js:107): whatever happened between the        *)
(* proposal and its confirmation, an ending is only committed on an open     *)
(* gate, and as long as it stands the state has earned it.  The kinds of     *)
(* events a gate asks for are those remembered at the commit: the ending's   *)
(* own event may push the oldest out (src/progress-semantics.js:64).         *)
EndingEarned ==
    [][/\ tale'.ending \notin {tale.ending, NoOne} =>
             endingGateEvaluate(tale'.ending, tale, clocks)
       /\ EndingStands']_storyVars
=============================================================================
