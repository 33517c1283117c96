SPECIFICATION DeploymentSpec
CONSTANTS
  UnitRow <- MCUnitRow
  OfficerRow <- MCOfficerRow
  ItemRow <- MCItemRow
  SkillRow <- MCSkillRow
  BlueprintRow <- MCBlueprintRow
  TowerRow <- MCTowerRow
  TowerPrice <- MCTowerPrice
  TechRow <- MCTechRow
  DeviceRow <- MCDeviceRow
  Openings <- MCOpenings
  Cards <- MCCards
  Declined = 1
  Salvage = 1
  Income <- MCIncome
  RepeatStep = 4
  MainSpots = 5
  FlankSpots = 1
  Standing <- MCStanding
  Earned <- MCEarned
  Damage = {1}
  MaxTaken <- MCMaxTaken
  MaxRound = 3
INVARIANTS
  DeployTypeOK
  PredictedIsSettled
PROPERTIES
  SeamsHold
CHECK_DEADLOCK FALSE
