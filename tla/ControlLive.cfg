\* Two zones and one fan, fair ticks; the curves and the duty floor start at 0.
CONSTANTS
  Zone = {"hot", "slow"}
  Source = {"gpu", "outlet"}
  ZoneOf <- LiveZoneOf
  Fan = {"f1"}
  MinTemp = 1
  MaxTemp = 3
  RawDuty <- LiveRawDuty
  Hysteresis <- LiveHysteresis
  Critical <- LiveCritical
  MinDuty = 0
  FailsafeDuty = 5
  FullDuty = 5
  DownSlew = 1
  SourceFailLimit = 2
  RecoverTicks = 3
  NoReading = NoReading
  NoDuty = NoDuty
SPECIFICATION FairSpec
INVARIANTS TypeOK CoversDemand HoldsDecision
PROPERTIES ImplementsPolicy Recovers Converges
