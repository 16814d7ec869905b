SPECIFICATION Spec
CONSTANTS
  Source = {pihole, syslog}
  Syslog = syslog
  Reader = {r1}
  Check = check
  EnvLimits <- MCEnvLimits
  SavedLimits <- MCLenient
  None = None
  MaxTime = 1
  MaxFailures = 3
INVARIANT
  OneAlarmPerOutage
