\* A manual set may park a channel at duty 0 before the daemon starts.
CONSTANTS
  Chan = {1, 2}
  Dev = {"d1"}
  DevOf <- OneDevice
  Mapped = {1}
  Explicit = {}
  Fragile = {}
  MaxDuty = 3
  DaemonDuty = {2}
  BmcDuty = {1}
  ManualDuty = {0, 2}
  Cli = {"cli"}
  Unit = "unit"
  CliJob = {"set"}
  None = None
  Nobody = Nobody
SPECIFICATION Spec
PROPERTY EmergencyDrivesOwned
