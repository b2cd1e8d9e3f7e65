CONSTANTS Requests = {r1, r2}
          Conns = {k1, k2}
          Workers = 2
          Transport = "proxy"
          TimeoutMs = 5000
          TimeoutConnectMs = 1000
SPECIFICATION FairSpec
CHECK_DEADLOCK FALSE
INVARIANTS ConnectionExclusive
PROPERTIES StopReturnsUnlessBlocked RequestAnswered
