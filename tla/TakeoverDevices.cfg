\* Two devices with a channel each, the second of which the BMC may disable;
\* set, release and failsafe beside the unit; the configuration is edited at
\* any time.
CONSTANTS
  Chan = {1, 2}
  Dev = {"d1", "d2"}
  DevOf <- TwoDevices
  Mapped = {1}
  Explicit = {}
  Fragile = {2}
  MaxDuty = 3
  DaemonDuty = {2}
  BmcDuty = {1}
  ManualDuty = {2}
  Cli = {"cli"}
  Unit = "unit"
  CliJob = {"set", "release", "failsafe"}
  None = None
  Nobody = Nobody
SPECIFICATION Spec
INVARIANTS Exclusive 
