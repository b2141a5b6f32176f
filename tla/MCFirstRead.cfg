SPECIFICATION InputsSpec
CONSTANTS
  Pins = {1, 2}
  Order <- MCOrder
  Configs <- MCConfigs
  Numbers = {2, 258}
  ChannelCap = 2
  TriggerLists <- MCTriggerLists
  Horizon = 1
  MaxBacks = 1
INVARIANT FirstReadIsQuiet
