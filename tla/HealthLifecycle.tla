--------------------------- MODULE HealthLifecycle ---------------------------
(***************************************************************************)
(* What the health rules promise about one investigator, whatever the      *)
(* numbers: the only ways between being up, dying, stabilized and dead.    *)
(* Nobody is revived, nobody stops dying except by First Aid or death, and *)
(* stabilization is only ever granted to the dying.                        *)
(***************************************************************************)
VARIABLE condition

Conditions == {"up", "dying", "stabilized", "dead"}

Init == condition = "up"

Collapse ==
  /\ condition \in {"up", "stabilized"}
  /\ condition' = "dying"

Stabilize ==
  /\ condition = "dying"
  /\ condition' = "stabilized"

Recover ==
  /\ condition = "stabilized"
  /\ condition' = "up"

Die ==
  /\ condition # "dead"
  /\ condition' = "dead"

Next == Collapse \/ Stabilize \/ Recover \/ Die

Spec == Init /\ [][Next]_condition
=============================================================================
