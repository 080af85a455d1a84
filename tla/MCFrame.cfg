SPECIFICATION Spec
CONSTANTS
  Servers <- MCServers
  Infos <- MCInfos
  Settings <- MCSettings
  MaxSettings = 3
  NoisyInfos <- MCNoisy
  DstSize = 128
CHECK_DEADLOCK FALSE
INVARIANTS
  RoundTrip
  ParamsSurvive
  CrcIncremental
  BitErrorsRejected
