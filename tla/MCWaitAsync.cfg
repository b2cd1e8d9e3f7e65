CONSTANTS Calls = {w1, w2, w3, w4}
          Timed = {w1, w2}
          WithResult = {w2, w3}
SPECIFICATION WaitFairSpec
CHECK_DEADLOCK FALSE
INVARIANTS EndlessIsSynchronous
PROPERTIES ReturnIsHonest TimedWaitReturns
