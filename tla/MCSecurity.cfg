SPECIFICATION Spec
CONSTANTS
  client = client
  meter = meter
  Ends = {client, meter}
  Width = 2
  Rounds = 4
  T <- MCT
  TPrime <- MCTPrime
  FK <- MCFK
  CK <- MCCK
  SubRot <- MCSubRot
  RCON <- MCRCON
  Title <- MCTitle
  Master <- MCMaster
  Label <- MCLabel
  Installed <- MCInstalled
  Texts <- MCTexts
  Requests <- MCRequests
  Counters = {1, 2}
  Suites = {2, 5}
  MaxGmac = 15
  MaxSent = 2
  MaxDerived = 2
INVARIANTS
  TypeOK
  TextRecovered
  TagBinds
  EndsAgree
  ContentsReachReceiver
  FreshKeystream
