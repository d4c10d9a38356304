SPECIFICATION ExtensionSpec
CONSTANTS
  SessionId = {s, late}
  SafeId = {s}
  AppIdentity = {app}
  Detail = {text}
  Diagnostics = {0, 1}
  Reported = {"Available", "ConnectionFailed"}
  MaxChanges = 2
  MaxStarts = 3
  MaxPreferences = 1
INVARIANTS TypeOK ViewIsSnapshot QuietIsCurrent IdleIsTrue
PROPERTIES DisabledIsSilent IndicatorFollows
