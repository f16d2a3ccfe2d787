SPECIFICATION ESpec
CONSTANTS
  Chan = {1, 2}
  Dev = {d1, d2}
  DevOf <- OneDevice
  DriveDuty = {255}
  BmcDuty = {51}
  FailDuty = 255
  Fragile = {1}
  Proc = {daemon, cli}
  unit = daemon
  CfgDev = d1
  WriteChannels = {1, 2}
  ManualJob = {"set", "release"}
  None = None
  Nobody = Nobody
INVARIANTS TypeOK KeptIsBmcs OldRefused 
PROPERTIES OwnershipEnds  
