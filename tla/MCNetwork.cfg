CONSTANTS Conns = {k1, k2}
          Workers = {"w1", "w2"}
          MaxStarts = 2
CHECK_DEADLOCK FALSE
SPECIFICATION FairSpec
INVARIANTS TableIsLive StopNotifiesAll OneThreadIsSafe
PROPERTIES ConnectAnswered StopReturns
