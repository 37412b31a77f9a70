SPECIFICATION FairSpec
CONSTANTS
  None = None
  Producers = {p1, p2, p3}
  Uris = {a, b}
  Open = {b}
  MaxReloads = 1
CHECK_DEADLOCK FALSE
INVARIANTS
  MailboxAgrees
  ReceiptsAreHonest
  NoticesSurvive
PROPERTIES
  ImplementsLatestWins
  EverySetSettles
