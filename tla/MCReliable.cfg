SPECIFICATION FairSpec
CONSTANTS
  r1 = r1
  r2 = r2
  Reqs <- MCReqs
  UaInfos <- MCUaParams
  AareForms <- AareFormKinds
  Faults = {}
  MaxWire = 3
  RrChoices <- Bools
  Accepts <- Bools
  UserInfo <- Bools
  AppOps <- Disciplined
  IoChoices <- BothIo
  PduSizes <- MCPdu
INVARIANTS
  TypeOK
  LinkAgreement
  AnswerMatches
  QuietBetweenCalls
PROPERTIES
  ImplementsRpc
  AgreedLinkAnswers
