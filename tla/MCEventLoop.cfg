CONSTANTS c1 = c1
          c2 = c2
          Clients = {c1, c2}
          Owner = owner
          MaxPosts <- OneCallsTwice
          MaxStarts = 2
          QueueModulus = 16
          Loop = loop
          MaxUses = 3
          MaxPeriods = 1
          MaxRuns = 1
SPECIFICATION FairTimersSpec
CHECK_DEADLOCK FALSE
INVARIANTS QueueSizeAccounts
PROPERTIES InvokedInOrder CallsReturn StoppedIsSilent TimerRings
