SPECIFICATION FairSpec
CONSTANTS
  e1 = e1
  w1 = w1
  w2 = w2
  Event = {e1}
  Hook = {w1, w2}
  Task = {1, 2, 3}
  NoEvent = NoEvent
  NoHook = NoHook
  Matches <- MatchesBoth
  DefaultPending = 9
  MaxRetryCount = 2
  Threshold = 2
  Concurrency = 1
  Env = {"manual", "admin", "crash", "storeFail"}
  UserHook = {w1}
  EnvCap = 1
INVARIANTS TypeOK PendingCovers RetryCap AnsweredOnce
PROPERTIES Reached DisabledByFailures
CHECK_DEADLOCK FALSE
