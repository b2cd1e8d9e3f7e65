CONSTANTS Protocols = {"raw", "dstream", "msg"}
          PayloadBytes = {1, 2}
          MaxLength = 3
          MaxMessages = 2
          Delimiter <- CRLFCRLF
          Base = 2
          MaxValue = 15
          MsgMaxSize = 2
SPECIFICATION Spec
CHECK_DEADLOCK FALSE
INVARIANTS UnitsAreMessages NothingStuck
