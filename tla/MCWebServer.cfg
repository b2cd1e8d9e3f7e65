CONSTANTS Conns = {k1, k2}
          Workers = 2
          TimeoutRequest = 5
          TimeoutContent = 300
SPECIFICATION FairSpec
INVARIANTS ConnectionsAreLive StopIsBarrier
PROPERTIES PeerCannotStall
