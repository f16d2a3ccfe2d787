\* One device with two channels and fair processes, beside set, release and
\* map, which writes without a baseline.
CONSTANTS
  Chan = {1, 2}
  Dev = {"d1"}
  DevOf <- OneDevice
  Mapped = {1}
  Explicit = {}
  Fragile = {2}
  MaxDuty = 3
  DaemonDuty = {2}
  BmcDuty = {1}
  ManualDuty = {2}
  Cli = {"cli"}
  Unit = "unit"
  CliJob = {"set", "release", "map"}
  None = None
  Nobody = Nobody
SPECIFICATION FairSpec
INVARIANTS PersistBeforeWrite 
PROPERTIES OwnershipEndsRestored UnitSettles StopHonoured
