CONSTANTS Clients = {"signal", "user"}
          MaxPosts = 5
          MaxStarts = 2
          QueueModulus = 16
          MaxSignals = 2
          MaxUserPosts = 2
CHECK_DEADLOCK FALSE
SPECIFICATION AppFairSpec
INVARIANTS QueueSizeAccounts
PROPERTIES ExitNotifiedOnce StopEndsRun RunEnds TermStops
