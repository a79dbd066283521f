------------------------------- MODULE MCCombat -------------------------------
(* Rosters, profiles and restricted behaviours for checking the combat.      *)
EXTENDS CombatProperties, TLC

CONSTANTS host, guest, ann, bob, ghoul, hound

MCOwner == [c \in Characters |-> IF c = ann THEN host ELSE guest]
MCMaxHp == [c \in Characters |-> 4]
MCStartHps == {MCMaxHp}
MCCon == [c \in Characters |-> 50]
MCOpponentHp == [o \in Opponents |-> 3]
MCHalf == [p \in Fighters |-> 50]
\* Two fighters share a DEX, so that ties occur.
MCDex == [p \in Fighters |-> IF p = ghoul THEN 60 ELSE 50]
MCResponses == [p \in Fighters |-> CombatResponses]
MCFightBackOnly == [p \in Fighters |-> IF p \in Characters THEN CombatResponses ELSE {"fight_back"}]
MCAllowance == [p \in Fighters |-> 1]
\* Claws hit for 2 to 4 of the 4 hit points of a character; unarmed attacks
\* for 0 to 2 net of the hide.
MCWeapon == [p \in Fighters |->
  [count |-> 1, faces |-> 3, modifier |-> IF p \in Opponents THEN 1 ELSE 0,
   addsBonus |-> p \in Characters]]
MCDamageBonus == [p \in Fighters |-> FlatBonus(0)]
MCArmor == [p \in Fighters |-> IF p \in Opponents THEN 1 ELSE 0]

\* A game of both characters is combat alone; a game of one is also checked,
\* healed and removed in between, and ends after fewer commits.
CONSTANT SoloEnd
Solo == Cardinality(roster) = 1
Starting == \E player \in Players, chosen \in SUBSET Characters, hp \in StartHps :
              Initialize(player, chosen, hp)
MCNext == /\ Solo => revision < SoloEnd
          /\ \/ Starting
             \/ CombatStep
             \/ Solo /\ (GameStep \/ HealthStep)
MCSpec == Init /\ [][MCNext]_vars

\* Combat alone, without the trusted health operations.
CombatOnly == Init /\ [][Starting \/ CombatStep]_vars
=============================================================================
