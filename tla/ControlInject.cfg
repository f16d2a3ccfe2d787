\* The failsafe rules against a log of three ticks, with one fed sensor.
CONSTANTS
  Zone = {"hot"}
  Source = {"gpu", "cpu"}
  ZoneOf <- HistZoneOf
  Fan = {"f1"}
  MinTemp = 1
  MaxTemp = 2
  RawDuty <- HistRawDuty
  Hysteresis <- HistHysteresis
  Critical <- HistCritical
  MinDuty = 1
  FailsafeDuty = 4
  FullDuty = 4
  DownSlew = 1
  SourceFailLimit = 2
  RecoverTicks = 2
  NoReading = NoReading
  NoDuty = NoDuty
  Window = 3
  Sensor = {"gpu0"}
  Echo = {"gpu"}
  SensorOf <- HistSensorOf
  FailsafeInject = 2
SPECIFICATION ISpec
INVARIANTS TroubleForcesFailsafe 
PROPERTIES FailsafeHasCause RecoveryEarned 
