CONSTANTS
  host = host
  guest = guest
  ann = ann
  bob = bob
  ghoul = ghoul
  hound = hound
  Server = Server
  NoExchange = NoExchange
  Players = {host, guest}
  Host = host
  Characters = {ann, bob}
  Opponents = {ghoul}
  Owner <- MCOwner
  MaxHp <- MCMaxHp
  StartHps <- MCStartHps
  Con <- MCCon
  OpponentHp <- MCOpponentHp
  Dex <- MCDex
  Fighting <- MCHalf
  Dodge <- MCHalf
  Responses <- MCFightBackOnly
  Allowance <- MCAllowance
  Weapon <- MCWeapon
  DamageBonus <- MCDamageBonus
  Armor <- MCArmor
  Rolls = {5, 40, 100}
  Blows = {2, 4}
  EventKeys = {k1, k2}
  AidTargets = {50}
  HistoryLimit = 2
  DyingCheckLimit = 2
  TreatmentLimit = 2
  ExchangeHistoryLimit = 4
  MaxRevision = 11
  SoloEnd = 9
SPECIFICATION MCSpec
INVARIANTS
  TypeOK
  EveryoneActsOncePerRound
  PendingExchangeIsCurrent
  ExchangesAddUp
  ChargedOnlyWhenSettled
  OutForAReason
  DyingCheckedEveryRound
PROPERTIES
  FollowsProtocol
  FollowsLifecycle
CHECK_DEADLOCK FALSE
