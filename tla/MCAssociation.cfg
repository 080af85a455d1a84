SPECIFICATION Spec
CONSTANTS
  Requests <- MCRequests
  Answers <- MCAnswers
  Segments = {1, 2, 3, 11, 12, 13, 15, 17, 20, 30, 64, 100}
  Answered <- MCAnswered
CHECK_DEADLOCK FALSE
INVARIANTS
  AarqUnderstood
  AareUnderstood
  SegmentRejected
  AbstractionAgrees
