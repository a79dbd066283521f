----------------------------- MODULE SoloSanity -----------------------------
(* What a CoC investigator of the single-player page loses between combats:  *)
(* sanity checks and their shock (src/san-loss-resolution.js), the window    *)
(* that adds the losses up to indefinite insanity (src/san-loss-window.js),  *)
(* and the hit points, sanity, tension and progress that replies and checks  *)
(* cost (SoloConsequences).                                                  *)
(*                                                                           *)
(* Dice are their results.  Going back to an earlier turn restores an        *)
(* earlier state of all of it (SoloTurn) and is not repeated here.           *)
EXTENDS SoloConsequences

CONSTANTS
    Full,      \* a purse as the campaign starts with it, the maxima of hp and san
    Losses,    \* the losses a sanity check may roll
    Shock,     \* SAN_TEMPORARY_INSANITY_THRESHOLD
    Replies,   \* the sequences of changes a reply may bring
    Records,   \* the check records a continuation may answer
    MaxLoss    \* bound: the loss added up in one window

ASSUME MindAssumption ==
    /\ Full \in [hp : Nat, san : Nat, tension : Nat, maxTension : Nat, progress : 0..100]
    /\ Full.tension \in 1..Full.maxTension
    /\ Losses \subseteq Nat /\ MaxLoss \in Nat
    /\ \A changes \in Replies :
          changes \in Seq(ToSet(changes)) /\ \A c \in ToSet(changes) : c.by \in Int

VARIABLES
    purse,    \* [hp, san, tension, maxTension, progress]
    sanity,   \* [base, cum, triggered, temporary, indefinite, record]
    toll      \* history: what the losses counted in this window really took

mindVars == <<purse, sanity, toll>>

Purses == [hp : 0..Full.hp, san : 0..Full.san, tension : 1..Full.maxTension,
           maxTension : {Full.maxTension}, progress : 0..100]

sanIndefiniteThreshold(base) == Max({1, base \div 5})

Init ==
    /\ purse = Full
    /\ sanity = [base |-> Full.san, cum |-> 0, triggered |-> FALSE,
                 temporary |-> FALSE, indefinite |-> FALSE, record |-> None]
    /\ toll = [taken |-> 0, floored |-> FALSE]

Within(n, low, high) == Max({low, Min({n, high})})

(* The progress that a clue brings by itself is no cost and is left out      *)
(* (src/ai-protocol.js:262).                                                 *)
applyChange(p, c) ==
    CASE c.op = "adjustHp"       -> [p EXCEPT !.hp = Within(@ + c.by, 0, Full.hp)]
      [] c.op = "adjustSan"      -> [p EXCEPT !.san = Within(@ + c.by, 0, Full.san)]
      [] c.op = "adjustTension"  -> [p EXCEPT !.tension = Within(@ + c.by, 1, p.maxTension)]
      [] c.op = "adjustProgress" -> [p EXCEPT !.progress = Within(@ + c.by, 0, 100)]
      [] OTHER                   -> p
prepareStateChanges(p, changes) ==
    LET after[i \in 0..Len(changes)] ==
            IF i = 0 THEN p ELSE applyChange(after[i - 1], changes[i])
    IN  after[Len(changes)]

-----------------------------------------------------------------------------
(* Losses and their window *)

(* A window that is over starts again from what is left. *)
beginSanLossWindow(s, san) == [s EXCEPT !.base = san, !.cum = 0, !.triggered = FALSE]

registerSanLossInWindow(s, loss) ==
    LET crosses == ~s.triggered /\ s.cum + loss >= sanIndefiniteThreshold(s.base)
    IN  IF loss = 0 THEN s
        ELSE [s EXCEPT !.cum = @ + loss,
                       !.triggered = @ \/ crosses, !.indefinite = @ \/ crosses]

FaultyEnsureSanLossResolution(s, shocked) ==
    [registerSanLossInWindow(s, s.record.loss) EXCEPT
        !.temporary = @ \/ (s.record.loss >= Shock /\ shocked)]

(* The shock of a record and its loss are settled once, by marks the record  *)
(* carries.  shocked: the INT check that lets the mind take the blow in.     *)
ensureSanLossResolution(s, shocked) ==
    LET r == IF s.record.resolved THEN s
             ELSE [s EXCEPT !.record.resolved = TRUE,
                            !.temporary = @ \/ (s.record.loss >= Shock /\ shocked)]
    IN  IF r.record.registered THEN r
        ELSE [registerSanLossInWindow(r, r.record.loss) EXCEPT !.record.registered = TRUE]

Becomes(p, s) ==
    /\ s.cum <= MaxLoss
    /\ purse' = p
    /\ sanity' = s

(* The history counts what any step takes from the sanity. *)
Takes ==
    toll' = [taken   |-> toll.taken + Max({0, purse.san - purse'.san}),
             floored |-> toll.floored \/ purse'.san = 0]

(* resolvePendingCheck takes the loss and settles the record in one step.    *)
rollSan ==
    /\ sanity.record = None
    /\ \E loss \in Losses, shocked \in BOOLEAN :
          Becomes([purse EXCEPT !.san = Max({0, @ - loss})],
                  ensureSanLossResolution(
                      [sanity EXCEPT !.record =
                          [loss |-> loss, resolved |-> FALSE, registered |-> FALSE]],
                      shocked))
    /\ Takes

(* The continuation is requested again for the same record. *)
retryContinuation ==
    /\ sanity.record # None
    /\ \E shocked \in BOOLEAN : Becomes(purse, ensureSanLossResolution(sanity, shocked))
    /\ Takes

(* A commit registers what the sanity fell by. *)
commitSanLoss(changes, s) ==
    LET p == prepareStateChanges(purse, changes)
    IN  Becomes(p, registerSanLossInWindow(s, Max({0, purse.san - p.san})))

(* The reply to a plain action. *)
plainReply ==
    /\ sanity.record = None
    /\ \E changes \in Replies : commitSanLoss(changes, sanity)
    /\ Takes

(* The reply to another check, and to the sanity check itself, which has no  *)
(* route and may have effects of its own.                                    *)
checkReply ==
    /\ \E changes \in Replies, record \in Records :
          commitSanLoss(cocConsequencePrepareParsed(changes, record, purse),
                              [sanity EXCEPT !.record = None])
    /\ Takes

(* The player gives the continuation up. *)
abandon ==
    /\ sanity.record # None
    /\ Becomes(purse, [sanity EXCEPT !.record = None])
    /\ UNCHANGED toll

(* A secret check's effects pass the window by. *)
secretCheck ==
    /\ sanity.record = None
    /\ \E loss \in Losses :
          Becomes(prepareStateChanges(purse, <<Change("adjustSan", None, -loss)>>), sanity)
    /\ toll' = [toll EXCEPT !.floored = @ \/ purse'.san = 0]

(* A node of another chapter starts a new window. *)
enterChapter ==
    /\ sanity.record = None
    /\ Becomes(purse, beginSanLossWindow(sanity, purse.san))
    /\ toll' = [taken |-> 0, floored |-> purse.san = 0]

Next == rollSan \/ retryContinuation \/ plainReply \/ checkReply \/ abandon
          \/ secretCheck \/ enterChapter
Spec == Init /\ [][Next]_mindVars

-----------------------------------------------------------------------------
(* Properties *)

(* The fields of character and sanityState keep their ranges                 *)
(* (src/san-loss-resolution.js:26-33, src/ai-protocol.js:249-250).           *)
MindTypeOK ==
    /\ purse \in Purses
    /\ sanity.base \in 0..Full.san /\ sanity.cum \in 0..MaxLoss
    /\ {sanity.triggered, sanity.temporary, sanity.indefinite} \subseteq BOOLEAN

(* The window is triggered exactly when the losses added up have reached a   *)
(* fifth of what it started with, and whoever it triggered for is insane     *)
(* until somebody cures it, which nothing on the page does                   *)
(* (src/san-loss-window.js:43-44).                                           *)
WindowAgrees ==
    /\ sanity.triggered <=> sanity.cum >= sanIndefiniteThreshold(sanity.base)
    /\ sanity.triggered => sanity.indefinite

(* Every loss the window has to count is counted once, however often the     *)
(* continuation is retried; only a mind that had less left than it lost      *)
(* makes the sum larger (src/san-loss-window.js:42-43 and 66-70).            *)
EachLossOnce ==
    /\ toll.taken <= sanity.cum
    /\ ~toll.floored => toll.taken = sanity.cum

(* Every loss of sanity is counted once and weighs as it should: shown       *)
(* values stay in range, the window agrees with what was lost in it          *)
(* (src/san-loss-window.js:39-46, 66-70).                                    *)
LossesCounted == MindTypeOK /\ WindowAgrees /\ EachLossOnce
=============================================================================
