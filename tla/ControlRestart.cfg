\* As ControlInject with a log of two ticks: what a restart does to a stalled fan.
CONSTANTS
  Zone = {"hot"}
  Source = {"gpu", "cpu"}
  ZoneOf <- HistZoneOf
  Fan = {"f1"}
  MinTemp = 1
  MaxTemp = 2
  RawDuty <- HistRawDuty
  Hysteresis <- HistHysteresis
  Critical <- HistCritical
  MinDuty = 1
  FailsafeDuty = 4
  FullDuty = 4
  DownSlew = 1
  SourceFailLimit = 1
  RecoverTicks = 2
  NoReading = NoReading
  NoDuty = NoDuty
  Window = 2
  Sensor = {"gpu0"}
  Echo = {"gpu"}
  SensorOf <- HistSensorOf
  FailsafeInject = 2
SPECIFICATION ISpec
PROPERTY StalledNeverStepsDown
