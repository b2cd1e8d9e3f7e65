CONSTANTS Pool = {p1, p2, p3}
          Clients = {c1, c2}
          MaxPosts = 1
          MaxStarts = 2
          SpuriousCAS = TRUE
          SpawnMayFail = TRUE
          QueueModulus = 16
SPECIFICATION FairSpec
CHECK_DEADLOCK FALSE
INVARIANTS QueueSizeAccounts StartIsBarrier StopIsBarrier
PROPERTIES CallsReturn
