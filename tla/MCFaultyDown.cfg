SPECIFICATION FairSpec
CONSTANTS
  r1 = r1
  r2 = r2
  Reqs = {r1}
  UaInfos <- MCUaInfos
  AareForms = {"wrapped"}
  Faults <- DownFaults
  MaxWire = 2
  RrChoices <- JustTrue
  Accepts <- JustTrue
  UserInfo <- JustFalse
  AppOps <- ReceivingOps
  IoChoices <- BothIo
  PduSizes <- NoPdu
INVARIANTS
  LinkAgreement
PROPERTIES
  CallsReturn
