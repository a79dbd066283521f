---------------------------- MODULE MCServerRules ----------------------------
(* The rules of the game server that need no combat around them: the health  *)
(* of one investigator, and the tables of exchanges and blows.  They share   *)
(* no variable; part says which of them this behaviour walks through.        *)
EXTENDS CharacterHealth, RulesSweep, TLC

VARIABLE part

allVars == <<vars, sweepVars, part>>

Profile(count, faces, modifier, addsBonus) ==
  [count |-> count, faces |-> faces, modifier |-> modifier, addsBonus |-> addsBonus]
MCWeapons == {Profile(1, 3, 0, TRUE), Profile(1, 6, 2, TRUE), Profile(2, 4, -3, TRUE),
              Profile(1, 8, 1, FALSE)}

KeySymmetry == Permutations(Keys)

\* The part that does not move stays on one of its states.
AnyBody  == body = [maxHp |-> 1, con |-> 0] /\ health = NewHealth(0)
AnyEntry == /\ SweepInit /\ table = "blows"
            /\ siz = 1 /\ armor = 0 /\ weapon = Profile(1, 3, 0, TRUE)

MCInit == \/ part = "health" /\ Init /\ AnyEntry
          \/ part = "tables" /\ SweepInit /\ AnyBody
MCNext == /\ \/ part = "health" /\ Next /\ UNCHANGED sweepVars
             \/ part = "tables" /\ SweepNext /\ UNCHANGED vars
          /\ UNCHANGED part
MCSpec == MCInit /\ [][MCNext]_allVars
=============================================================================
