CONSTANTS Threads = {loop, creator, other}
          LoopThread = loop
          Creator = creator
          Sinks = {s1, s2}
          Looped = {s1}
          NoSink = NoSink
          NoThread = NoThread
          MaxEvents = 2
          MaxSlots = 4
SPECIFICATION Spec
CHECK_DEADLOCK FALSE
INVARIANTS NotifiedOnce
