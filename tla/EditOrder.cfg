SPECIFICATION ReportSpec
CONSTANTS
  Edits = {e1, e2}
  Requests = {r1, r2}
  MaxPermits = 1
  MaxReceived = 3
  Nobody = Nobody
INVARIANTS
  TurnExclusive
  NeverWedged
  NoLostWakeup
  ReadsFollowEarlierEdits
  LineNamesHolder
  StallIsAnnounced
  OneLinePerPosition
PROPERTIES
  ImplementsSequence
  EditsSettle
  RequestsAnswered
