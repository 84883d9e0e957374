CONSTANTS
  cfg1 = cfg1
  cfg2 = cfg2
  other = other
  Config = {cfg1, cfg2, other}
  Name = {"dev1", "dev2"}
  NameOf <- MCNameOf
  Supported = {cfg1, cfg2}
  Collector = {c1, c2}
  Getter = {g1}
  NoDevice = NoDevice
SPECIFICATION FairSpec
INVARIANTS
  CollectAllComplete
PROPERTIES
  RegistryCallsReturn
