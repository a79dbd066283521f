------------------------------ MODULE SoloTurn ------------------------------
(* The turn of the single-player page: the player's action, the requests to  *)
(* the AI keeper and what each of their ends does, the checks a node or the  *)
(* keeper asks for, the recovery of a failed request, undo, and the save     *)
(* slot.  The page runs one handler at a time; a handler is cut at the       *)
(* awaits of callChatCompletion, so at most one request (wire) is under way. *)
EXTENDS Naturals, Sequences, FiniteSets, SequencesExt

CONSTANTS
    Nodes,      \* the scenario's nodes
    Start,      \* the node the campaign starts in
    NodeChecks, \* [Nodes -> Seq([id, on, mandatory, secret])], in firing order
    MaxChain,   \* MAX_CHECK_CHAIN_DEPTH
    MaxIds,     \* bound: the requests the page makes
    None

NodeCheckIds == UNION {{c.id : c \in ToSet(NodeChecks[n])} : n \in Nodes}

(* A node's checks have ids of their own (case-integrity.js), which no       *)
(* keeper's check has: those go by the id of a request.                      *)
ASSUME ScenarioAssumption ==
    /\ Start \in Nodes
    /\ \A n \in Nodes :
          /\ NodeChecks[n] \in Seq([id : NodeCheckIds, on : {"enter", "action"},
                                   mandatory : BOOLEAN, secret : BOOLEAN])
          /\ \A i, j \in DOMAIN NodeChecks[n] :
                NodeChecks[n][i].id = NodeChecks[n][j].id => i = j
    /\ NodeCheckIds \cap Nat = {} /\ None \notin Nat
    /\ MaxChain \in Nat /\ MaxIds \in Nat

VARIABLES
    game,   \* the page's state object
    wire,   \* the request under way (activeAbortController), or None
    timer,  \* scheduleNodeChecks has set its timeout
    disk,   \* the save slot
    fresh   \* the next request's id

vars == <<game, wire, timer, disk, fresh>>

Phases == {"awaiting_player_action", "requesting_ai", "awaiting_check", "rolling",
           "requesting_ai_continuation", "awaiting_node_confirmation",
           "awaiting_ending_confirmation", "campaign_ended", "error"}

NewGame ==
    [phase |-> "awaiting_player_action", active |-> None,
     check |-> None, queue |-> <<>>, chain |-> 0, triggered |-> {},
     node |-> Start, proposal |-> None, ending |-> FALSE,
     action |-> None, failed |-> None, last |-> None,
     rolled |-> <<>>, story |-> <<>>,
     summary |-> FALSE, hinting |-> FALSE, rollback |-> None, undo |-> None]

(* What a save keeps: the requests' state and the two snapshots stay behind. *)
serializeSave(g) == [g EXCEPT !.active = None, !.undo = None, !.rollback = None]

(* activateScenario: the first node's checks are due. *)
Init ==
    /\ game = NewGame
    /\ wire = None /\ timer = TRUE /\ fresh = 1
    /\ disk = serializeSave(NewGame)

-----------------------------------------------------------------------------
(* A handler turns a page s = [g, w, t, n] (game, wire, timer, fresh) into   *)
(* another one.                                                              *)

Page == [g |-> game, w |-> wire, t |-> timer, n |-> fresh]
Becomes(s) ==
    /\ s.n <= MaxIds + 1
    /\ game' = s.g /\ wire' = s.w /\ timer' = s.t /\ fresh' = s.n
Put(s, g) == [s EXCEPT !.g = g]
Tell(g, what) == [g EXCEPT !.story = Append(@, what)]

(* The request under way was made at an older revision from now on. *)
bumpRevision(s) == IF s.w = None THEN s ELSE [s EXCEPT !.w.stale = TRUE]

(* callChatCompletion sets activeAbortController; only a summary does not    *)
(* also become the game's active request.                                    *)
Request(kind, id, rec, turn) ==
    [id |-> id, kind |-> kind, stage |-> "first", rec |-> rec, turn |-> turn,
     stale |-> FALSE]
Send(s, kind, phase, rec, turn) ==
    [g |-> [s.g EXCEPT !.active = s.n, !.phase = phase],
     w |-> Request(kind, s.n, rec, turn), t |-> s.t, n |-> s.n + 1]
NoRequest(s) == s.w = None /\ s.g.active = None

FaultycaptureRequestRollback(g, turn) ==
    IF g.rollback # None THEN g
    ELSE [g EXCEPT !.rollback = [turn |-> turn, game |-> g]]
captureRequestRollback(g, turn) ==
    [g EXCEPT !.rollback = [turn |-> turn, game |-> [g EXCEPT !.rollback = None]]]
restoreRequestRollback(g) ==
    IF g.rollback = None THEN g
    ELSE [g.rollback.game EXCEPT !.active = None, !.failed = None, !.last = None]
captureTurnSnapshot(g) ==
    [g EXCEPT !.undo = [committed |-> FALSE,
        data |-> [g EXCEPT !.undo = None, !.active = None, !.failed = None]]]

Failure(kind, turn, rec, soft) == [kind |-> kind, turn |-> turn, rec |-> rec, soft |-> soft]
HardFailure(s, kind, turn, rec) ==
    Put(s, [s.g EXCEPT !.active = None, !.phase = "error",
                       !.failed = Failure(kind, turn, rec, FALSE)])
(* A provider's failure is not the player's: the turn is taken back, or the  *)
(* continuation left for a retry, and the game goes on.                      *)
recoverApiRequestFailure(s, kind, turn, rec) ==
    LET g == IF kind = "action" THEN [restoreRequestRollback(s.g) EXCEPT !.action = None]
                                ELSE s.g IN
    bumpRevision(Put(s, [g EXCEPT !.active = None, !.phase = "awaiting_player_action",
                                  !.failed = Failure(kind, turn, rec, TRUE)]))
recordRequestFailure(s, w, soft) ==
    IF soft THEN recoverApiRequestFailure(s, w.kind, w.turn, w.rec)
            ELSE HardFailure(s, w.kind, w.turn, w.rec)

-----------------------------------------------------------------------------
(* Checks: the node's queue, secret ones, and the continuation of a record.  *)

nodeChecksForTrigger(g, on) ==
    LET checks == NodeChecks[g.node]
        firing[i \in 0 .. Len(checks)] ==
            IF i = 0 THEN <<>>
            ELSE IF checks[i].on = on /\ checks[i].id \notin g.triggered
                 THEN Append(firing[i - 1], checks[i]) ELSE firing[i - 1] IN
    firing[Len(checks)]
FaultymarkCheckTriggered(g, ids) == g
markCheckTriggered(g, ids) == [g EXCEPT !.triggered = @ \cup ids]

requestContinuation(s, rec) ==
    IF ~NoRequest(s) THEN s
    ELSE Send(Put(s, [s.g EXCEPT !.last = rec]), "continuation",
              "requesting_ai_continuation", rec, s.g.action)

AskCheck(g, c) == [g EXCEPT !.check = c, !.phase = "awaiting_check"]
(* resolveSecretCheck: the record stands at once, nobody is asked. *)
RollSecret(s, c) == bumpRevision(Put(s, [s.g EXCEPT !.rolled = Append(@, c.id)]))

(* Outside a turn nobody continues a secret check: those at the head of the  *)
(* queue are rolled one after another, while the chain has room.             *)
secretsInARow(g) ==
    IF g.action # None \/ Len(g.queue) > MaxChain THEN 0
    ELSE Max({k \in 0 .. Len(g.queue) :
                (k = 0 \/ k + g.chain <= MaxChain) /\ \A i \in 1 .. k : g.queue[i].secret})
rollInARow(g, k) ==
    [g EXCEPT !.queue = SubSeq(@, k + 1, Len(@)), !.chain = @ + k,
              !.rolled = @ \o [i \in 1 .. k |-> g.queue[i].id]]

processCheckQueue(page) ==
    LET s == Put(page, rollInARow(page.g, secretsInARow(page.g)))
        g == s.g  c == Head(g.queue)
        taken == Put(s, [g EXCEPT !.queue = Tail(@), !.chain = @ + 1]) IN
    IF page.w # None \/ page.g.check # None THEN page
    ELSE IF g.queue = <<>> THEN
           Put(s, [g EXCEPT !.chain = 0,
                            !.phase = IF @ = "awaiting_check" THEN "awaiting_player_action"
                                                              ELSE @])
    ELSE IF Len(g.queue) > MaxChain THEN Put(s, [g EXCEPT !.queue = <<>>])
    ELSE IF g.chain >= MaxChain THEN Put(s, [g EXCEPT !.queue = <<>>, !.chain = @ + 1])
    ELSE IF c.secret THEN requestContinuation(RollSecret(taken, c), c.id)
    ELSE Put(taken, AskCheck(taken.g, c))

(* The timeout of scheduleNodeChecks: the checks of the node the campaign is *)
(* in by then.                                                               *)
queueNodeChecks ==
    /\ timer
    /\ LET s == [Page EXCEPT !.t = FALSE]
           checks == nodeChecksForTrigger(game, "enter")
           marked == markCheckTriggered([game EXCEPT !.queue = @ \o checks],
                                        {c.id : c \in ToSet(checks)}) IN
       Becomes(IF checks = <<>> THEN s
               ELSE processCheckQueue(bumpRevision(Put(s, marked))))
    /\ UNCHANGED disk

enterNode(s, n) ==
    [bumpRevision(Put(s, [s.g EXCEPT !.node = n, !.proposal = None, !.queue = <<>>,
                                     !.chain = 0, !.phase = "awaiting_player_action"]))
     EXCEPT !.t = TRUE]

(* What setPhase allows without force. *)
CanRoll == {"awaiting_check", "rolling"}
CanReturn == Phases \ {"rolling"}

(* A roll needs the phase to allow "rolling"; the record stays even when the *)
(* continuation cannot be asked for because of another request.              *)
resolvePendingCheck(skip) ==
    /\ game.check # None
    /\ IF skip THEN ~game.check.mandatory ELSE game.phase \in CanRoll
    /\ LET g == [game EXCEPT !.rolled = Append(@, game.check.id), !.check = None,
                             !.phase = IF skip THEN @ ELSE "rolling"] IN
       Becomes(requestContinuation(bumpRevision(Put(Page, g)), game.check.id))
    /\ UNCHANGED disk

-----------------------------------------------------------------------------
(* The player's action. *)

AskKeeper(s) == Send(s, "action", "requesting_ai", None, s.g.action)

(* The turn is named by the id its first request would have. *)
beginTurn(s) ==
    LET g == captureTurnSnapshot(captureRequestRollback(s.g, s.n)) IN
    [bumpRevision(Put(s, Tell([g EXCEPT !.action = s.n], <<"turn", s.n>>)))
     EXCEPT !.n = @ + 1]

(* renderChatComposer: the action and the hint need an open composer. *)
CanSend == wire = None /\ ~game.summary /\ game.phase = "awaiting_player_action"

submitPlayerAction ==
    /\ CanSend /\ NoRequest(Page)
    /\ LET s == beginTurn(Page)
           Begun(c) == bumpRevision(Put(s, markCheckTriggered(s.g, {c.id}))) IN
       \/ Becomes(AskKeeper(s))
       \/ \E c \in ToSet(nodeChecksForTrigger(game, "action")) :
            IF c.secret THEN Becomes(requestContinuation(RollSecret(Begun(c), c), c.id))
                        ELSE Becomes(Put(Begun(c), AskCheck(Begun(c).g, c)))
    /\ UNCHANGED disk

retryInitialRequest ==
    /\ NoRequest(Page) /\ ~game.summary
    /\ game.phase = "error" /\ game.failed # None
    /\ game.failed.kind = "action" /\ game.failed.turn # None
    /\ Becomes(AskKeeper(Put(Page, [game EXCEPT !.action = game.failed.turn])))
    /\ UNCHANGED disk

retryContinuation ==
    /\ NoRequest(Page)
    /\ game.failed # None /\ game.failed.kind = "continuation"
    /\ \/ game.phase = "error"
       \/ game.phase = "awaiting_player_action" /\ game.failed.soft
    /\ game.failed.rec \in ToSet(game.rolled)
    /\ Becomes(requestContinuation(Page, game.failed.rec))
    /\ UNCHANGED disk

(* discardFailedTurn and editFailedAction, which only keeps the draft. *)
discardFailedTurn ==
    /\ NoRequest(Page)
    /\ game.phase = "error" /\ game.failed # None
    /\ Becomes(Put(Page, [restoreRequestRollback(game) EXCEPT
                            !.action = None, !.phase = "awaiting_player_action"]))
    /\ UNCHANGED disk

dismissApiRecovery ==
    /\ game.phase = "awaiting_player_action"
    /\ game.failed # None /\ game.failed.soft
    /\ LET c == game.failed.kind = "continuation" IN
       game' = [game EXCEPT !.failed = None,
                            !.last = IF c THEN None ELSE @,
                            !.action = IF c THEN None ELSE @]
    /\ UNCHANGED <<wire, timer, disk, fresh>>

undoLastTurn ==
    /\ NoRequest(Page)
    /\ game.undo # None /\ game.undo.committed
    /\ Becomes(Put(Page, [game.undo.data EXCEPT !.phase = "awaiting_player_action"]))
    /\ UNCHANGED disk

-----------------------------------------------------------------------------
(* The ends of a request. *)

Outcomes == {"told", "move", "end", "check", "secret"}

FaultycommitAiTransaction(g, w, outcome, n) ==
    [g EXCEPT !.story = Append(@, IF w.kind = "action" THEN <<"reply", w.turn>>
                                                       ELSE <<"continued", w.rec>>),
              !.undo = IF @ = None THEN @ ELSE [@ EXCEPT !.committed = TRUE],
              !.proposal = IF outcome = "move" THEN n ELSE None,
              !.ending = outcome = "end"]
commitAiTransaction(g, w, outcome, n) ==
    [g EXCEPT !.story = Append(@, IF w.kind = "action" THEN <<"reply", w.turn>>
                                                       ELSE <<"continued", w.rec>>),
              !.undo = IF @ = None THEN @ ELSE [@ EXCEPT !.committed = TRUE],
              !.proposal = IF outcome = "move" THEN n ELSE None,
              !.ending = outcome = "end",
              !.failed = None]

(* The keeper's own check goes by the id of the request that asked for it. *)
FaultyKeeperCheck(w, mandatory) ==
    [id |-> w.rec, on |-> "ai", mandatory |-> mandatory, secret |-> FALSE]
KeeperCheck(w, mandatory) ==
    [id |-> w.id, on |-> "ai", mandatory |-> mandatory, secret |-> FALSE]

NextPhase(outcome) ==
    CASE outcome = "end" -> "awaiting_ending_confirmation"
      [] outcome = "move" -> "awaiting_node_confirmation"
      [] OTHER -> "awaiting_player_action"

(* The request's answer is accepted: committed, and its request is over. A   *)
(* continuation that finds the chain full throws after it was committed.     *)
Accept(s, w, outcome, n, mandatory) ==
    LET done == [commitAiTransaction(s.g, w, outcome, n) EXCEPT !.active = None]
        follows == w.kind = "continuation"
        g == IF follows THEN [done EXCEPT !.last = None] ELSE done
        over == [g EXCEPT !.action = None, !.rollback = None, !.phase = NextPhase(outcome),
                          !.chain = IF follows THEN 0 ELSE @] IN
    IF outcome \in {"check", "secret"} /\ follows /\ g.chain >= MaxChain
    THEN HardFailure(Put(s, done), w.kind, w.turn, w.rec)
    ELSE CASE outcome = "check" -> Put(s, AskCheck(g, KeeperCheck(w, mandatory)))
           [] outcome = "secret" ->
                requestContinuation(RollSecret(Put(s, g), KeeperCheck(w, TRUE)), w.id)
           [] OTHER -> IF follows /\ outcome = "told" /\ g.queue # <<>>
                       THEN processCheckQueue(Put(s, over)) ELSE Put(s, over)

(* requestStructuredAiJson gives up: after three attempts, on an error that  *)
(* is not tried again, or, when the request is no longer the active one,     *)
(* quietly after the first (STALE_RESPONSE).  The failure of a repair is     *)
(* renamed and so never stale.                                               *)
GivenUp(s, w, mine) ==
    \/ w.stage = "first" /\ ~mine /\ Becomes(s)
    \/ \E soft \in BOOLEAN : Becomes(recordRequestFailure(s, w, soft))

(* An answer with an inconsistent place is sent back, once. *)
repairLocationProtocol(w) == w.stage = "first" /\ Becomes([Page EXCEPT !.w.stage = "repair"])

(* requestPlayerAction and requestContinuation after their await.  Only the  *)
(* first answer is compared with the active request and the revision; what   *)
(* comes of a repair is taken as it is.                                      *)
Answered ==
    /\ wire # None /\ wire.kind \in {"action", "continuation"}
    /\ LET w == wire
           s == [Page EXCEPT !.w = None]
           mine == game.active = w.id
           valid == w.stage = "repair" \/ (mine /\ ~w.stale) IN
       \/ GivenUp(s, w, mine)
       \/ valid /\ repairLocationProtocol(w)
       \/ /\ valid
          /\ \E outcome \in Outcomes, mandatory \in BOOLEAN :
               /\ outcome = "check" \/ mandatory
               /\ \E n \in Nodes \ {game.node} : Becomes(Accept(s, w, outcome, n, mandatory))
    /\ UNCHANGED disk

requestDirectionHint ==
    /\ CanSend /\ NoRequest(Page) /\ ~game.hinting
    /\ Becomes([Send(Page, "hint", "requesting_ai", None, None) EXCEPT !.g.hinting = TRUE])
    /\ UNCHANGED disk

HintEnds ==
    /\ wire # None /\ wire.kind = "hint"
    /\ LET mine == game.active = wire.id
           g == [game EXCEPT !.active = IF mine THEN None ELSE @, !.hinting = FALSE,
                             !.phase = "awaiting_player_action"]
           s == [Page EXCEPT !.w = None] IN
       \/ Becomes(Put(s, g))
       \/ mine /\ ~wire.stale /\ Becomes(Put(s, Tell(g, <<"hint", wire.id>>)))
    /\ UNCHANGED disk

(* summarizeContext, by hand or after a turn: it is no active request. *)
summarizeContext ==
    /\ wire = None /\ ~game.summary
    /\ game.story # <<>>
    /\ Becomes([g |-> [game EXCEPT !.summary = TRUE], t |-> timer, n |-> fresh + 1,
                w |-> Request("summary", fresh, None, None)])
    /\ UNCHANGED disk

SummaryEnds ==
    /\ wire # None /\ wire.kind = "summary"
    /\ Becomes([Page EXCEPT !.w = None, !.g.summary = FALSE])
    /\ UNCHANGED disk

(* The abort's rejection reaches the request's own handler, which records    *)
(* its own failure over that of cancelActiveRequest; a hint's and a          *)
(* summary's handlers leave it.                                              *)
cancelActiveRequest ==
    /\ wire # None
    /\ LET w == wire
           s == [Page EXCEPT !.w = None]
           turn == IF game.action = None /\ game.rollback # None THEN game.rollback.turn
                                                                  ELSE game.action
           cancelled == HardFailure(s, "action", turn, game.last) IN
       CASE w.kind \in {"action", "continuation"} -> Becomes(recordRequestFailure(s, w, FALSE))
         [] w.kind = "hint" ->
              Becomes([cancelled EXCEPT !.g.hinting = FALSE,
                                        !.g.phase = "awaiting_player_action"])
         [] w.kind = "summary" -> Becomes([cancelled EXCEPT !.g.summary = FALSE])
    /\ UNCHANGED disk

-----------------------------------------------------------------------------
(* Proposals, endings, and what needs no request. *)

confirmNodeProposal ==
    /\ game.proposal # None
    /\ Becomes(enterNode(Page, game.proposal))
    /\ UNCHANGED disk

(* The phase is changed without force, after the proposal is gone. *)
rejectNodeProposal ==
    /\ game.proposal # None
    /\ LET g == [game EXCEPT !.proposal = None] IN
       IF game.phase \in CanReturn
       THEN Becomes(bumpRevision(Put(Page, [g EXCEPT !.phase = "awaiting_player_action"])))
       ELSE Becomes(Put(Page, g))
    /\ UNCHANGED disk

applyEnding(s) ==
    bumpRevision(Put(s, [s.g EXCEPT !.ending = FALSE, !.proposal = None,
                                    !.phase = "campaign_ended"]))

(* The conditions of the ending are looked at again when it is confirmed. *)
confirmEndingProposal ==
    /\ game.ending
    /\ \/ Becomes(applyEnding(Page))
       \/ Becomes(bumpRevision(Put(Page, [game EXCEPT !.ending = FALSE,
                                             !.phase = "awaiting_player_action"])))
    /\ UNCHANGED disk

rejectEndingProposal ==
    /\ game.ending
    /\ Becomes(bumpRevision(Put(Page, [game EXCEPT !.ending = FALSE,
                                          !.phase = "awaiting_player_action"])))
    /\ UNCHANGED disk

(* showEndingEvaluationModal: the player ends the investigation, at any time. *)
ChooseEnding ==
    /\ game.phase # "campaign_ended"
    /\ Becomes(applyEnding(Page))
    /\ UNCHANGED disk

continueEpilogue ==
    /\ game.phase = "campaign_ended"
    /\ Becomes(Put(Page, [game EXCEPT !.phase = "awaiting_player_action"]))
    /\ UNCHANGED disk

(* showSceneContinuityModal: back to the confirmed node, at any time. *)
RecoverScene ==
    /\ Becomes(bumpRevision(Put(Page, [game EXCEPT !.failed = None,
                                          !.phase = "awaiting_player_action"])))
    /\ UNCHANGED disk

(* First aid and the dying round ask no request's leave. *)
LocalAid ==
    /\ wire # None /\ ~wire.stale
    /\ Becomes(bumpRevision(Page))
    /\ UNCHANGED disk

-----------------------------------------------------------------------------
(* The save slot. *)

saveCurrentSlot ==
    /\ disk' = serializeSave(game)
    /\ UNCHANGED <<game, wire, timer, fresh>>

(* A request that was under way when the game was saved becomes a failure to *)
(* retry; a roll is forgotten.                                               *)
normalizeLoadedState(d) ==
    LET g == [d EXCEPT !.ending = FALSE]
        Interrupted(kind, rec) ==
            [g EXCEPT !.phase = "error", !.failed = Failure(kind, g.action, rec, FALSE)] IN
    IF g.phase = "requesting_ai_continuation" /\ g.last # None
    THEN Interrupted("continuation", g.last)
    ELSE IF g.phase = "requesting_ai" /\ g.action # None THEN Interrupted("action", None)
    ELSE IF g.phase \in {"requesting_ai", "requesting_ai_continuation", "rolling"}
    THEN [g EXCEPT !.phase = IF g.check # None THEN "awaiting_check"
                                               ELSE "awaiting_player_action"]
    ELSE g

(* The request under way goes on. *)
loadSlot ==
    /\ game' = normalizeLoadedState(disk)
    /\ UNCHANGED <<wire, timer, disk, fresh>>

(* An imported save keeps nothing of what was under way. *)
sanitizeImportedRuntime(d) ==
    [d EXCEPT !.check = None, !.queue = <<>>, !.chain = 0, !.proposal = None,
              !.ending = FALSE, !.action = None, !.failed = None, !.last = None,
              !.summary = FALSE, !.hinting = FALSE, !.phase = "awaiting_player_action"]
importSaveObject ==
    /\ disk' = sanitizeImportedRuntime(disk)
    /\ game' = disk'
    /\ UNCHANGED <<wire, timer, fresh>>

(* The page is closed and opened again. *)
Reopen ==
    /\ game' = normalizeLoadedState(disk)
    /\ wire' = None /\ timer' = FALSE
    /\ UNCHANGED <<disk, fresh>>

-----------------------------------------------------------------------------
RequestEnds == Answered \/ HintEnds \/ SummaryEnds \/ cancelActiveRequest

Next ==
    \/ submitPlayerAction \/ retryInitialRequest \/ retryContinuation
    \/ discardFailedTurn \/ dismissApiRecovery \/ undoLastTurn
    \/ \E skip \in BOOLEAN : resolvePendingCheck(skip)
    \/ queueNodeChecks
    \/ RequestEnds
    \/ requestDirectionHint \/ summarizeContext
    \/ confirmNodeProposal \/ rejectNodeProposal
    \/ confirmEndingProposal \/ rejectEndingProposal \/ ChooseEnding \/ continueEpilogue
    \/ RecoverScene \/ LocalAid
    \/ saveCurrentSlot \/ loadSlot \/ importSaveObject \/ Reopen

(* A request ends: callChatCompletion aborts it after at most 180 seconds,   *)
(* and an attempt is repeated at most twice.                                 *)
Spec == Init /\ [][Next]_vars /\ WF_vars(Answered) /\ WF_vars(HintEnds) /\ WF_vars(SummaryEnds)
=============================================================================
