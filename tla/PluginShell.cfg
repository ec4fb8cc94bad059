SPECIFICATION FairSpec
CONSTANTS
  Ids = {i1, i2}
  Tasks = {t1, t2}
  NoId = NoId
  NoTask = NoTask
  MaxAsked = 2
  Cancellation = TRUE
  HostReusesIds = FALSE
INVARIANTS AnsweredOnce TableHoldsNoFinished CancelReaches ShutdownQuiet
PROPERTIES NothingAfterClose ShutdownCompletes CancelledEnds EofCloses
CHECK_DEADLOCK FALSE
