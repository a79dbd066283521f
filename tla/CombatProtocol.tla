---------------------------- MODULE CombatProtocol ----------------------------
(***************************************************************************)
(* What a combat session promises the clients that follow it, whoever      *)
(* fights: an attack is answered before anything else happens, a hit is    *)
(* settled before anything else happens, and a manual end may drop an      *)
(* unanswered attack but never a hit.                                      *)
(***************************************************************************)
VARIABLE step

Steps == {"none", "choosing", "answering", "settling", "over"}

Init == step = "none"

Start  == step \in {"none", "over"} /\ step' = "choosing"
Attack == step = "choosing" /\ step' = "answering"
Answer == step = "answering" /\ step' \in {"choosing", "settling"}
Settle == step = "settling" /\ step' \in {"choosing", "over"}
Stop   == step \in {"choosing", "answering"} /\ step' = "over"
Leave  == step # "none" /\ step' = "none"

Next == Start \/ Attack \/ Answer \/ Settle \/ Stop \/ Leave

Spec == Init /\ [][Next]_step
=============================================================================
