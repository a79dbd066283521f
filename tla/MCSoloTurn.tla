----------------------------- MODULE MCSoloTurn -----------------------------
EXTENDS SoloTurnProperties

CONSTANTS Hall, Cellar, Draft, Gloom, Search, Smell, Dread

Check(id, on, mandatory, secret) ==
    [id |-> id, on |-> on, mandatory |-> mandatory, secret |-> secret]

(* The hall has a secret and a public check for who enters and one on an     *)
(* action; the cellar's public check comes before its secret one.            *)
MCNodeChecks ==
    Hall :> <<Check(Gloom, "enter", TRUE, TRUE), Check(Draft, "enter", FALSE, FALSE),
              Check(Search, "action", FALSE, FALSE)>>
    @@ Cellar :> <<Check(Smell, "enter", TRUE, FALSE), Check(Dread, "enter", TRUE, TRUE)>>
=============================================================================
