\* Daemon and stop-post alone: can a restart latch the failsafe duty?
CONSTANTS
  Chan = {1, 2}
  Dev = {"d1"}
  DevOf <- OneDevice
  Mapped = {1}
  Explicit = {}
  Fragile = {}
  MaxDuty = 3
  DaemonDuty = {2}
  BmcDuty = {1}
  ManualDuty = {2}
  Cli = {"cli"}
  Unit = "unit"
  CliJob = {}
  None = None
  Nobody = Nobody
SPECIFICATION Spec
INVARIANT BaselineIsFactory
