SPECIFICATION SSpec
CONSTANTS
  Proc = {daemon, cli}
  Base = {pwm, flash}
  PwmBase = pwm
  Nobody = Nobody
  None = None
  unit = daemon
  Reads = 2
  ReadTimeout = 1
  TickSeconds = 2
  WatchdogSec = 5
  RestartSec = 1
  StartLimit = 6
  LockWait = 2
  CliWait = 1
  InjectTime = 1
INVARIANTS AccessLands WindowRestored  CoolsInTime
