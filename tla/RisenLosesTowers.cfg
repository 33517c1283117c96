SPECIFICATION FightSpec
CONSTANTS
  Unit <- MCUnit
  Team <- MCTeam
  Deployed = {"rhino", "worm", "phoenix", "ember"}
  Reassembled = {"rhino"}
  Pilot = {"phoenix", "ember"}
  Surfacer = {"worm"}
  Maker = {"worm"}
  Important = {"worm"}
  CostTicks = 2
  AppearTicks = 1
  LifeTicks = 2
  Shelled = {1}
  MaxShots = 1
  MaxCalls = 1
INVARIANT
  StandersKeepTowers
