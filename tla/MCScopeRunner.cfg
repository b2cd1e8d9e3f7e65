CONSTANT Threads = {t1, t2, t3, t4}
SPECIFICATION RunnerFairSpec
INVARIANTS StopExcludesScopes
PROPERTIES StopReturns
