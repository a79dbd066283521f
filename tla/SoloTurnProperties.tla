------------------------- MODULE SoloTurnProperties -------------------------
(* What the single-player page promises about a turn. *)
EXTENDS SoloTurn, Functions

VARIABLE
    strayed \* history: a game was loaded over a running request, a hint asked for
            \* inside an open turn or a summary while a turn may still be taken
            \* back, or a continuation was told that found the chain full

TracedInit == Init /\ strayed = FALSE
TracedNext ==
    /\ Next
    /\ strayed' = (strayed \/ (wire # None /\ (loadSlot \/ importSaveObject))
                           \/ (game.action # None /\ requestDirectionHint)
                           \/ ((game.action # None \/ game.rollback # None) /\ summarizeContext)
                           \/ (game'.phase = "error" /\ game'.story # game.story /\ Answered))
allVars == <<vars, strayed>>
TracedSpec ==
    /\ TracedInit /\ [][TracedNext]_allVars
    /\ WF_vars(Answered) /\ WF_vars(HintEnds) /\ WF_vars(SummaryEnds)

Ids == 1 .. MaxIds + 1
Records == NodeCheckIds \cup Ids

(* The state object and the request have the shape state.js gives them. *)
TypeOK ==
    /\ game.phase \in Phases
    /\ game.active \in Ids \cup {None}
    /\ game.check # None => game.check.id \in Records
    /\ game.chain \in Nat
    /\ game.triggered \subseteq NodeCheckIds
    /\ game.node \in Nodes /\ game.proposal \in Nodes \cup {None}
    /\ game.action \in Ids \cup {None} /\ game.last \in Records \cup {None}
    /\ ToSet(game.rolled) \subseteq Records
    /\ game.ending \in BOOLEAN /\ game.summary \in BOOLEAN /\ game.hinting \in BOOLEAN
    /\ wire # None => wire.id \in Ids /\ wire.stage \in {"first", "repair"}
    /\ timer \in BOOLEAN /\ fresh \in 1 .. MaxIds + 1

(* A turn is answered once and a check continued once, whatever is retried,  *)
(* cancelled, undone, saved or reopened in between: the answer of a request  *)
(* that was given up never stands beside that of its retry                   *)
(* (ai-protocol.js, requestPlayerAction, requestContinuation).  Games that   *)
(* have strayed are left out, because there the code does answer twice: see  *)
(* the variable, and OldAnswersAreInert for the game loaded over a request.  *)
AnsweredOnce == ~strayed => IsInjective(game.story)

(* A node's check is rolled once in a campaign: entering the node again,     *)
(* acting on the check again, or loading finds it triggered                  *)
(* (scenario-engine.js, markCheckTriggered, queueNodeChecks).                *)
CheckRolledOnce == IsInjective(game.rolled)

(* Undo, a discarded turn and a provider's failure take back the last turn   *)
(* at most: the story up to the last told turn stays (memory.js,             *)
(* captureTurnSnapshot; ai-protocol.js, captureRequestRollback).             *)
LastTurn(story) == {i \in DOMAIN story : story[i][1] = "turn"
                        /\ \A j \in i + 1 .. Len(story) : story[j][1] # "turn"}
BeforeLastTurn(story) ==
    IF LastTurn(story) = {} THEN <<>>
    ELSE SubSeq(story, 1, (CHOOSE i \in LastTurn(story) : TRUE) - 1)
TakesBackOneTurnAtMost ==
    [][\/ loadSlot \/ importSaveObject \/ Reopen
       \/ IsPrefix(BeforeLastTurn(game.story), game'.story)]_vars

(* "Old requests, old answers [...] never overwrite the present state"       *)
(* (README.md:398): what a request brings that is no longer the active one   *)
(* is not told (src/ai-protocol.js:351, 371).                                *)
OldAnswersAreInert ==
    [][wire # None /\ wire.id # game.active /\ Answered => game'.story = game.story]_vars
=============================================================================
