CONSTANTS
  host = host
  guest = guest
  ann = ann
  bob = bob
  ghoul = ghoul
  hound = hound
  Server = Server
  NoExchange = NoExchange
  Players = {host}
  Host = host
  Characters = {ann}
  Opponents = {ghoul}
  Owner <- MCOwner
  MaxHp <- MCMaxHp
  StartHps <- MCStartHps
  Con <- MCCon
  OpponentHp <- MCOpponentHp
  Dex <- MCDex
  Fighting <- MCHalf
  Dodge <- MCHalf
  Responses <- MCFightBackOnly
  Allowance <- MCAllowance
  Weapon <- MCWeapon
  DamageBonus <- MCDamageBonus
  Armor <- MCArmor
  Rolls = {5, 40, 100}
  Blows = {}
  EventKeys = {}
  AidTargets = {}
  HistoryLimit = 80
  DyingCheckLimit = 40
  TreatmentLimit = 60
  ExchangeHistoryLimit = 3
  MaxRevision = 13
  SoloEnd = 13
SPECIFICATION CombatOnly
INVARIANTS
  SomebodyToFight
CHECK_DEADLOCK FALSE
