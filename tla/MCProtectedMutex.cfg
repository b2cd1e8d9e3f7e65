CONSTANTS Users = {t1, t2, t3, t4}
          Misusers = {t3, t4}
          Nobody = Nobody
SPECIFICATION MutexSpec
CHECK_DEADLOCK FALSE
INVARIANTS UnlockOnlyByOwner
PROPERTIES ImplementsLock
