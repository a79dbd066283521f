CONSTANTS
  Keys = {k1, k2, k3}
  HistoryLimit = 2
  DyingCheckLimit = 2
  TreatmentLimit = 2
  MaxHps = {1, 2, 5}
  Cons = {0, 40, 100}
  Damages = {1, 2, 3, 5}
  Targets = {50}
  Rolls = {1, 40, 41, 100}
  SkillTargets = {1, 49, 50, 100}
  MaxStr = 300
  Sizes = {1, 90}
  Weapons <- MCWeapons
  Armors = {0, 3}
SPECIFICATION MCSpec
SYMMETRY KeySymmetry
INVARIANTS
  Consistent
  RulesAgree
PROPERTIES
  OnlyTheOldestEventIsForgotten
  HigherRollsNeverHelp
CHECK_DEADLOCK FALSE
