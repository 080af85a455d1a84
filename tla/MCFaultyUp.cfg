SPECIFICATION Spec
CONSTANTS
  r1 = r1
  r2 = r2
  Reqs = {r1}
  UaInfos <- MCUaInfos
  AareForms <- AareFormKinds
  Faults <- UpFaults
  MaxWire = 2
  RrChoices <- JustFalse
  Accepts <- JustTrue
  UserInfo <- JustFalse
  AppOps <- SendingOps
  IoChoices <- AllIo
  PduSizes <- NoPdu
INVARIANTS
  LinkAgreement
  ResetInFlight
PROPERTIES
  DiscardsOnlyOldFrames
