SPECIFICATION Spec
CONSTANTS
  Source = {pihole, syslog}
  Syslog = syslog
  Reader = {r1}
  Check = check
  EnvLimits <- MCEnvLimits
  SavedLimits <- MCLenient
  None = None
  MaxTime = 2
  MaxFailures = 2
INVARIANTS
  HealthTypeOK
  FailuresCounted
  OutageAlarmed
PROPERTY
  SilenceShows
