-------------------------- MODULE EventPoolProofs --------------------------
(***************************************************************************)
(* Proofs about EventPool, for any finite, non-empty set of threads, any   *)
(* clients and any bounds, and about WaitAsync, with which its users wait. *)
(***************************************************************************)
EXTENDS EventPool, WaitAsync, FiniteSetTheorems, FunctionTheorems, TLAPS

\* The threads that have not entered run() are finitely many.
LEMMA PendingFinite ==
    /\ IsFiniteSet(Pending)
    /\ Cardinality(Pending) \in Nat
    /\ Cardinality(Pending) = 0 <=> Pending = {}
<1>1. Pending \subseteq Pool
  BY DEF Pending
<1>2. IsFiniteSet(Pending)
  BY <1>1, PoolAssumption, FS_Subset
<1>3. QED
  BY <1>2, FS_CardinalityType, FS_EmptySet

\* How the set of pending threads moves when one thread goes on.
LEMMA PendingAfterGoto ==
    ASSUME threads \in [Pool -> ThreadPCs], NEW t \in Pool,
           NEW l \in ThreadPCs, Goto(t, l)
    PROVE  /\ threads' \in [Pool -> ThreadPCs]
           /\ threads'[t] = l
           /\ \A u \in Pool \ {t} : threads'[u] = threads[u]
           /\ threads[t] \in {"none", "new", "listed"} /\ l \in {"new", "listed"}
                 => Pending' = Pending
           /\ threads[t] \in {"run", "notify"} /\ l \in {"notify", "exited"}
                 => Pending' = Pending
           /\ l = "run" => Pending' = Pending \ {t}
BY DEF Goto, Pending, ThreadPCs

\* A pool that was not started satisfies the invariant.
LEMMA InitIInv == Init => IInv
BY DEF Init, InitBase, IInv, Active, ThreadPCs, NoJob

\* Every operation of the owner, of a thread and of a client preserves it.
LEMMA NextIInv == IInv /\ [Next]_vars => IInv'
<1> SUFFICES ASSUME IInv, [Next]_vars PROVE IInv'
  OBVIOUS
<1>1. CASE UNCHANGED vars
  BY <1>1 DEF vars, baseVars, poolVars, ownerVars, IInv, Active, Pending
<1>2. CASE StartLoop
  <2>1. Pending' = Pool /\ \A t \in Pool : threads[t] = "none"
    BY <1>2 DEF StartLoop, IInv, Active, Pending
  <2>2. QED
    BY <1>2, <2>1 DEF StartLoop, IInv, Active
<1>3. CASE Spawn
  <2>1. PICK t \in Pool : /\ threads[t] = "none"
                          /\ Goto(t, "new")
                          /\ owner' \in {"starting", "idle"}
    BY <1>3 DEF Spawn
  <2>2. /\ Pending' = Pending /\ threads' \in [Pool -> ThreadPCs]
        /\ threads'[t] = "new" /\ \A u \in Pool \ {t} : threads'[u] = threads[u]
    BY <2>1, PendingAfterGoto DEF IInv, ThreadPCs
  <2>3. isRunning /\ isRunning' /\ Active /\ Active'
    BY <1>3 DEF Spawn, baseVars, IInv, Active
  <2>4. threadIds' = {u \in Pool : threads'[u] \in {"listed", "run", "notify", "exited"}}
    BY <1>3, <2>1, <2>2 DEF Spawn, IInv
  <2>5. QED
    BY <1>3, <2>1, <2>2, <2>3, <2>4 DEF Spawn, IInv
<1>4. CASE SpawnFails \/ StopLoop
  <2>1. /\ Active /\ Active' /\ owner' = "stopping"
        /\ UNCHANGED poolVars
    BY <1>4 DEF SpawnFails, StopLoop, stop_loop, Active
  <2>2. QED
    BY <2>1 DEF IInv, poolVars, Pending
<1>5. CASE StopReset
  <2>1. \A t \in Pool : threads[t] # "run"
    BY <1>5 DEF StopReset
  <2>2. QED
    BY <1>5, <2>1 DEF StopReset, reset, IInv, Active, ThreadPCs
<1>6. ASSUME NEW t \in Pool, ThreadNext(t) PROVE IInv'
  <2>1. CASE ListId(t)
    <3>1. /\ Pending' = Pending /\ threads' \in [Pool -> ThreadPCs]
          /\ threads'[t] = "listed" /\ \A u \in Pool \ {t} : threads'[u] = threads[u]
      BY <2>1, PendingAfterGoto DEF ListId, IInv, ThreadPCs
    <3>2. threadIds' = {u \in Pool : threads'[u] \in {"listed", "run", "notify", "exited"}}
      BY <2>1, <3>1 DEF ListId, IInv
    <3>3. Active /\ Active'
      BY <2>1 DEF ListId, IInv, Active, baseVars, ownerVars
    <3>4. QED
      BY <2>1, <3>1, <3>2, <3>3 DEF ListId, IInv, baseVars, ownerVars
  <2>2. CASE EnterRun(t)
    <3>1. /\ Pending' = Pending \ {t} /\ threads' \in [Pool -> ThreadPCs]
          /\ threads'[t] = "run" /\ \A u \in Pool \ {t} : threads'[u] = threads[u]
      BY <2>2, PendingAfterGoto DEF EnterRun, IInv, ThreadPCs
    <3>2. threadIds' = {u \in Pool : threads'[u] \in {"listed", "run", "notify", "exited"}}
      BY <2>2, <3>1 DEF EnterRun, IInv
    <3>3. Active /\ Active' /\ t \in Pending
      BY <2>2 DEF EnterRun, IInv, Active, Pending, baseVars, ownerVars
    <3>4. Cardinality(Pending') = Cardinality(Pending) - 1
      BY <3>1, <3>3, PendingFinite, FS_RemoveElement
    <3>5. waiting' = Cardinality(Pending')
      BY <2>2, <3>3, <3>4 DEF EnterRun, IInv
    <3>6. QED
      BY <2>2, <3>1, <3>2, <3>3, <3>5 DEF EnterRun, IInv, baseVars, ownerVars
  <2>3. CASE Take(t)
    BY <2>3 DEF Take, IInv, Active, Pending, ownerVars
  <2>4. CASE Started(t)
    <3>1. threads[t] = "run"
      BY <2>4 DEF Started, IInv, StartJob, NoJob
    <3>2. Active /\ Pending = {}
      BY <2>4, <3>1, PendingFinite DEF Started, IInv
    <3>3. QED
      BY <2>4, <3>1, <3>2 DEF Started, IInv, Active, Pending, baseVars, ownerVars
  <2>5. CASE StartGivesUp(t) \/ Finish(t)
    <3>1. /\ job' = [job EXCEPT ![t] = NoJob]
          /\ UNCHANGED <<isRunning, isRun, waiting, threads, threadIds, owner>>
      BY <2>5 DEF StartGivesUp, Finish, baseVars, ownerVars
    <3>2. QED
      BY <3>1 DEF IInv, Active, Pending
  <2>6. CASE RunReturn(t) \/ NotifyStop(t)
    <3>1. PICK l \in {"notify", "exited"} :
             /\ Goto(t, l) /\ threads[t] \in {"run", "notify"} /\ job[t] = NoJob
             /\ UNCHANGED <<isRunning, isRun, waiting, threadIds, job, owner>>
      BY <2>6 DEF RunReturn, NotifyStop, IInv, baseVars, ownerVars
    <3>2. /\ Pending' = Pending /\ threads' \in [Pool -> ThreadPCs]
          /\ threads'[t] = l /\ \A u \in Pool \ {t} : threads'[u] = threads[u]
      BY <3>1, PendingAfterGoto DEF IInv, ThreadPCs
    <3>3. threadIds' = {u \in Pool : threads'[u] \in {"listed", "run", "notify", "exited"}}
      BY <3>1, <3>2 DEF IInv
    <3>4. Active /\ Active'
      BY <3>1 DEF IInv, Active
    <3>5. QED
      BY <3>1, <3>2, <3>3, <3>4 DEF IInv
  <2>7. QED
    BY <1>6, <2>1, <2>2, <2>3, <2>4, <2>5, <2>6 DEF ThreadNext
<1>7. ASSUME NEW c \in Clients, Register(c) \/ Enqueue(c) PROVE IInv'
  BY <1>7 DEF Register, Enqueue, IInv, Active, Pending, poolVars, ownerVars
<1>8. QED
  BY <1>1, <1>2, <1>3, <1>4, <1>5, <1>6, <1>7 DEF Next, OwnerNext

\* The invariant holds in every reachable state, for any pool size.
THEOREM Invariance == Spec => []IInv
BY InitIInv, NextIInv, PTL DEF Spec

\* is_run() and the start notification mean that all threads of the pool have
\* registered their ids and entered run(): the countdown of _waiting_threads
\* is a barrier.
THEOREM StartBarrier == Spec => []StartIsBarrier
<1>1. IInv => StartIsBarrier
  BY DEF IInv, StartIsBarrier, Pending, ThreadPCs
<1>2. QED
  BY <1>1, Invariance, PTL

\* stop() returns only when no thread of the pool and no callback is left.
THEOREM StopBarrier == Spec => []StopIsBarrier
<1>1. IInv => StopIsBarrier
  BY DEF IInv, StopIsBarrier, Active
<1>2. QED
  BY <1>1, Invariance, PTL

\* is_this_loop() holds in every thread that executes a callback.
THEOREM CallbackInLoop == Spec => []CallbackThreadListed
<1>1. IInv => CallbackThreadListed
  BY DEF IInv, CallbackThreadListed
<1>2. QED
  BY <1>1, Invariance, PTL

(***************************************************************************)
(* Arithmetic modulo the width of _queue_size                              *)
(***************************************************************************)

\* The quotient and the remainder of a division.
LEMMA Division ==
    ASSUME NEW x \in Int
    PROVE  /\ x % QueueModulus \in 0 .. QueueModulus - 1
           /\ x \div QueueModulus \in Int
           /\ x = ((x \div QueueModulus) * QueueModulus) + (x % QueueModulus)
BY QueueModulusAssumption

\* A positive multiple of the modulus is not below the modulus.
LEMMA MultipleBound ==
    ASSUME NEW k \in Int, k >= 1
    PROVE  k * QueueModulus >= QueueModulus
BY QueueModulusAssumption

\* The remainder is unique.
LEMMA RemainderUnique ==
    ASSUME NEW k \in Int, NEW r \in 0 .. QueueModulus - 1,
           NEW l \in Int, NEW s \in 0 .. QueueModulus - 1,
           k * QueueModulus + r = l * QueueModulus + s
    PROVE  r = s
<1>1. (k - l) * QueueModulus = s - r /\ (l - k) * QueueModulus = r - s
  BY QueueModulusAssumption
<1>2. CASE k - l >= 1
  BY <1>1, <1>2, MultipleBound, QueueModulusAssumption
<1>3. CASE l - k >= 1
  BY <1>1, <1>3, MultipleBound, QueueModulusAssumption
<1>4. CASE k = l
  BY <1>1, <1>4, QueueModulusAssumption
<1>5. QED
  BY <1>2, <1>3, <1>4

\* Counting on a wrapped counter wraps like counting on the number itself.
LEMMA CountWraps ==
    ASSUME NEW x \in Int, NEW n \in Int
    PROVE  ((x % QueueModulus) + n) % QueueModulus = (x + n) % QueueModulus
<1> DEFINE y == (x % QueueModulus) + n
           z == x + n
<1>1. y \in Int /\ z \in Int
  BY Division, QueueModulusAssumption
<1>2. /\ y = ((y \div QueueModulus) * QueueModulus) + (y % QueueModulus)
      /\ y % QueueModulus \in 0 .. QueueModulus - 1 /\ y \div QueueModulus \in Int
  BY <1>1, Division
<1>3. /\ z = ((z \div QueueModulus) * QueueModulus) + (z % QueueModulus)
      /\ z % QueueModulus \in 0 .. QueueModulus - 1 /\ z \div QueueModulus \in Int
  BY <1>1, Division
<1>4. /\ x = ((x \div QueueModulus) * QueueModulus) + (x % QueueModulus)
      /\ x % QueueModulus \in 0 .. QueueModulus - 1 /\ x \div QueueModulus \in Int
  BY Division
<1>5. (((x \div QueueModulus) + (y \div QueueModulus)) * QueueModulus) + (y % QueueModulus)
        = ((z \div QueueModulus) * QueueModulus) + (z % QueueModulus)
  BY <1>2, <1>3, <1>4, QueueModulusAssumption
<1>6. QED
  BY <1>2, <1>3, <1>4, <1>5, RemainderUnique

(***************************************************************************)
(* The handlers of the io_service that _queue_size counts                  *)
(***************************************************************************)
QueueType == Seq(Jobs \cup {StartJob})

\* The counted handlers are finitely many; a fresh io_service has none.
LEMMA CountedFinite ==
    ASSUME NEW q \in QueueType
    PROVE  /\ IsFiniteSet(Counted(q)) /\ Cardinality(Counted(q)) \in Nat
           /\ q = <<>> => Cardinality(Counted(q)) = 0
<1>1. Counted(q) \subseteq 1 .. Len(q) /\ Len(q) \in Nat
  BY DEF Counted, QueueType
<1>2. IsFiniteSet(Counted(q))
  <2>1. IsFiniteSet(1 .. Len(q))
    BY <1>1, FS_Interval
  <2>2. QED
    BY <1>1, <2>1, FS_Subset
<1>3. q = <<>> => Counted(q) = {}
  BY <1>1
<1>4. QED
  BY <1>2, <1>3, FS_CardinalityType, FS_EmptySet

\* A handler posted to the io_service is one more, the start lambda none.
LEMMA CountedAppend ==
    ASSUME NEW q \in QueueType, NEW j \in Jobs \cup {StartJob}
    PROVE  /\ Append(q, j) \in QueueType
           /\ Len(Append(q, j)) = Len(q) + 1
           /\ Counted(Append(q, j)) = Counted(q) \cup
                 (IF j = StartJob THEN {} ELSE {Len(q) + 1})
           /\ Cardinality(Counted(Append(q, j))) =
                 Cardinality(Counted(q)) + (IF j = StartJob THEN 0 ELSE 1)
<1> DEFINE r == Append(q, j)
<1>1. /\ r \in QueueType /\ Len(r) = Len(q) + 1 /\ Len(q) \in Nat
      /\ r[Len(q) + 1] = j /\ \A i \in 1 .. Len(q) : r[i] = q[i]
  BY DEF QueueType
<1> HIDE DEF r
<1>2. Counted(r) = Counted(q) \cup (IF j = StartJob THEN {} ELSE {Len(q) + 1})
  BY <1>1 DEF Counted
<1>3. Len(q) + 1 \notin Counted(q)
  BY <1>1 DEF Counted
<1>4. Cardinality(Counted(r)) = Cardinality(Counted(q)) + (IF j = StartJob THEN 0 ELSE 1)
  <2>1. IsFiniteSet(Counted(q)) /\ Cardinality(Counted(q)) \in Nat
    BY CountedFinite
  <2>2. Cardinality(Counted(q) \cup {Len(q) + 1}) = Cardinality(Counted(q)) + 1
    BY <1>3, <2>1, FS_AddElement
  <2>3. CASE j = StartJob
    <3>1. Counted(r) = Counted(q)
      BY <1>2, <2>3
    <3>2. QED
      BY <2>1, <2>3, <3>1
  <2>4. CASE j # StartJob
    BY <1>2, <2>2, <2>4
  <2>5. QED
    BY <2>3, <2>4
<1>5. QED
  BY <1>1, <1>2, <1>4 DEF r

\* A handler that a thread takes is one less, the start lambda none.
LEMMA CountedTail ==
    ASSUME NEW q \in QueueType, q # <<>>
    PROVE  /\ Head(q) \in Jobs \cup {StartJob} /\ Head(q) = q[1]
           /\ Tail(q) \in QueueType /\ Len(Tail(q)) = Len(q) - 1 /\ Len(q) \in Nat \ {0}
           /\ \A i \in 1 .. Len(Tail(q)) : Tail(q)[i] = q[i + 1]
           /\ Cardinality(Counted(q)) =
                 Cardinality(Counted(Tail(q))) + (IF Head(q) = StartJob THEN 0 ELSE 1)
<1> DEFINE r == Tail(q)
           f == [i \in Counted(r) |-> i + 1]
<1>1. /\ r \in QueueType /\ Len(r) = Len(q) - 1 /\ Len(q) \in Nat \ {0}
      /\ \A i \in 1 .. Len(r) : r[i] = q[i + 1]
      /\ Head(q) \in Jobs \cup {StartJob} /\ Head(q) = q[1]
  BY DEF QueueType
<1> HIDE DEF r
<1>2. \A i \in Counted(q) \ {1} : i - 1 \in Counted(r) /\ f[i - 1] = i
  BY <1>1 DEF Counted
<1>3. f \in Bijection(Counted(r), Counted(q) \ {1})
  <2>1. \A i \in Counted(r) : f[i] \in Counted(q) \ {1}
    BY <1>1 DEF Counted
  <2>2. \A i, j \in Counted(r) : f[i] = f[j] => i = j
    BY <1>1 DEF Counted
  <2>3. QED
    BY <1>2, <2>1, <2>2, Fun_IsBij
<1>4. Cardinality(Counted(q) \ {1}) = Cardinality(Counted(r))
  BY <1>1, <1>3, CountedFinite, FS_Bijection DEF ExistsBijection
<1>5. 1 \in Counted(q) <=> Head(q) # StartJob
  BY <1>1 DEF Counted
<1>6. Cardinality(Counted(q)) = Cardinality(Counted(r)) + (IF Head(q) = StartJob THEN 0 ELSE 1)
  <2>1. IsFiniteSet(Counted(q)) /\ Cardinality(Counted(q)) \in Nat
    BY CountedFinite
  <2>2. Cardinality(Counted(q) \ {1}) = IF 1 \in Counted(q) THEN Cardinality(Counted(q)) - 1
                                        ELSE Cardinality(Counted(q))
    BY <2>1, FS_RemoveElement
  <2>3. QED
    BY <1>4, <1>5, <2>1, <2>2
<1>7. QED
  BY <1>1, <1>6 DEF r

(***************************************************************************)
(* The accounting of _queue_size                                           *)
(***************************************************************************)
Outstanding == Cardinality(posting) + Cardinality(Busy)
                 + Cardinality(Counted(service.q)) - wiped

\* What the accounting adds up is finite.
LEMMA SummandsFinite ==
    ASSUME TypeOK
    PROVE  /\ IsFiniteSet(posting) /\ Cardinality(posting) \in 0 .. Cardinality(Clients)
           /\ IsFiniteSet(Busy) /\ Cardinality(Busy) \in Nat
           /\ service.q \in QueueType /\ Cardinality(Counted(service.q)) \in Nat
           /\ wiped \in Nat /\ queueSize \in Int /\ Outstanding \in Int
<1>1. posting \subseteq Clients /\ Busy \subseteq Pool
  BY DEF TypeOK, Busy
<1>2. /\ IsFiniteSet(posting) /\ IsFiniteSet(Busy)
      /\ Cardinality(posting) <= Cardinality(Clients)
  BY <1>1, ClientsAssumption, PoolAssumption, FS_Subset
<1>3. /\ Cardinality(posting) \in Nat /\ Cardinality(Busy) \in Nat
      /\ Cardinality(Clients) \in Nat
  BY <1>2, ClientsAssumption, FS_CardinalityType
<1>4. service.q \in QueueType
  BY DEF TypeOK, QueueType
<1>5. Cardinality(Counted(service.q)) \in Nat
  BY <1>4, CountedFinite
<1>6. wiped \in Nat /\ queueSize \in Int
  BY <1>3, QueueModulusAssumption DEF TypeOK
<1>7. QED
  BY <1>2, <1>3, <1>4, <1>5, <1>6 DEF Outstanding

\* A step keeps the accounting when the counter moves by as much as what is
\* outstanding does.
LEMMA AccountsStep ==
    ASSUME TypeOK, QueueSizeAccounts, NEW n \in Int,
           Outstanding' = Outstanding + n,
           CountQueue(n) \/ (n = 0 /\ UNCHANGED queueSize)
    PROVE  QueueSizeAccounts'
<1>1. Outstanding \in Int /\ queueSize = Outstanding % QueueModulus
  BY SummandsFinite DEF QueueSizeAccounts, Outstanding
<1>2. queueSize' = (Outstanding + n) % QueueModulus
  <2>1. CASE CountQueue(n)
    BY <1>1, <2>1, CountWraps DEF CountQueue
  <2>2. CASE n = 0 /\ UNCHANGED queueSize
    BY <1>1, <2>2
  <2>3. QED
    BY <2>1, <2>2
<1>3. QED
  BY <1>2 DEF QueueSizeAccounts, Outstanding

\* The counter has its type after every step that counts.
LEMMA CountType ==
    ASSUME NEW n \in Int, queueSize \in Int, CountQueue(n)
    PROVE  queueSize' \in 0 .. QueueModulus - 1
<1>1. queueSize + n \in Int
  OBVIOUS
<1>2. QED
  BY <1>1, Division DEF CountQueue

\* The kinds of callbacks are told apart.
LEMMA JobsDiffer == StartJob \notin Jobs /\ NoJob \notin Jobs /\ StartJob # NoJob
BY PoolBoundsAssumption DEF Jobs, StartJob, NoJob

\* Every step moves the counter by as much as what is outstanding moves.
LEMMA AccountsNext ==
    ASSUME AccountsIInv, [Next]_vars
    PROVE  QueueSizeAccounts'
<1> USE DEF AccountsIInv
<1>1. /\ Cardinality(posting) \in Nat /\ Cardinality(Busy) \in Nat /\ wiped \in Nat
      /\ Cardinality(Counted(service.q)) \in Nat /\ service.q \in QueueType
      /\ IsFiniteSet(posting) /\ IsFiniteSet(Busy) /\ Outstanding \in Int
  BY SummandsFinite
<1>2. ASSUME UNCHANGED <<queueSize, posting, wiped>>, service'.q = service.q, Busy' = Busy
      PROVE  QueueSizeAccounts'
  BY <1>2 DEF QueueSizeAccounts
<1>3. CASE UNCHANGED vars
  BY <1>2, <1>3 DEF vars, baseVars, poolVars, clientVars, Busy
<1>4. CASE StartLoop
  <2>1. service'.q = Append(service.q, StartJob)
    BY <1>4 DEF StartLoop, Posted, TypeOK
  <2>2. Cardinality(Counted(service'.q)) = Cardinality(Counted(service.q))
    BY <1>1, <2>1, CountedAppend
  <2>3. UNCHANGED <<queueSize, posting, wiped>> /\ Busy' = Busy
    BY <1>4 DEF StartLoop, clientVars, Busy
  <2>4. QED
    BY <2>2, <2>3 DEF QueueSizeAccounts
<1>5. CASE Spawn
  BY <1>2, <1>5 DEF Spawn, baseVars, clientVars, Busy
<1>6. CASE SpawnFails \/ StopLoop
  <2>1. UNCHANGED <<queueSize, posting, wiped, job>> /\ service'.q = service.q
    BY <1>6 DEF SpawnFails, StopLoop, stop_loop, poolVars, clientVars, TypeOK
  <2>2. QED
    BY <1>2, <2>1 DEF Busy
<1>7. CASE StopReset
  <2>1. \A t \in Pool : job[t] = NoJob
    BY <1>7 DEF StopReset, IInv
  <2>2. Busy' = {} /\ Cardinality(Busy') = 0
    BY <1>7, <2>1, JobsDiffer, FS_EmptySet DEF StopReset, Busy
  <2>3. service'.q = <<>> /\ Cardinality(Counted(service'.q)) = 0
    <3>1. service'.q = <<>> /\ <<>> \in QueueType
      BY <1>7 DEF StopReset, reset, FreshService, QueueType
    <3>2. QED
      BY <3>1, CountedFinite
  <2>4. queueSize' = 0 /\ wiped' = Cardinality(posting) /\ posting' = posting
    BY <1>7 DEF StopReset, reset, clientVars
  <2>5. Cardinality(posting') + Cardinality(Busy') + Cardinality(Counted(service'.q)) - wiped' = 0
    BY <1>1, <2>2, <2>3, <2>4
  <2>6. 0 % QueueModulus = 0
    BY QueueModulusAssumption
  <2>7. QED
    BY <2>4, <2>5, <2>6 DEF QueueSizeAccounts
<1>8. ASSUME NEW t \in Pool, ThreadNext(t) PROVE QueueSizeAccounts'
  <2>1. CASE ListId(t) \/ EnterRun(t) \/ RunReturn(t) \/ NotifyStop(t)
    BY <1>2, <2>1 DEF ListId, EnterRun, RunReturn, NotifyStop, baseVars, clientVars, Busy
  <2>2. CASE Take(t)
    <3>1. /\ service.q # <<>> /\ service'.q = Tail(service.q) /\ job[t] = NoJob
          /\ job' = [job EXCEPT ![t] = Head(service.q)]
          /\ UNCHANGED <<queueSize, posting, wiped>>
      BY <2>2 DEF Take, CanTake, Taken, clientVars, TypeOK
    <3>2. /\ Head(service.q) \in Jobs \cup {StartJob}
          /\ service'.q \in QueueType
          /\ Cardinality(Counted(service.q)) = Cardinality(Counted(service'.q))
                + (IF Head(service.q) = StartJob THEN 0 ELSE 1)
      BY <1>1, <3>1, CountedTail
    <3>3. t \notin Busy
      BY <3>1, JobsDiffer DEF Busy
    <3>4. Busy' = IF Head(service.q) = StartJob THEN Busy ELSE Busy \cup {t}
      <4>1. job \in [Pool -> Jobs \cup {StartJob, NoJob}]
        BY DEF TypeOK
      <4>2. QED
        BY <3>1, <3>2, <3>3, <4>1, JobsDiffer DEF Busy
    <3>5. Cardinality(Busy') = Cardinality(Busy) + (IF Head(service.q) = StartJob THEN 0 ELSE 1)
      <4>1. Cardinality(Busy \cup {t}) = Cardinality(Busy) + 1
        BY <1>1, <3>3, FS_AddElement
      <4>2. QED
        BY <1>1, <3>4, <4>1
    <3>6. Cardinality(Counted(service'.q)) \in Nat
      BY <3>2, CountedFinite
    <3>7. Outstanding' = Outstanding
      BY <1>1, <3>1, <3>2, <3>5, <3>6 DEF Outstanding
    <3>8. QED
      BY <3>1, <3>7 DEF QueueSizeAccounts, Outstanding
  <2>3. CASE Started(t) \/ StartGivesUp(t)
    <3>1. /\ job[t] = StartJob /\ job' = [job EXCEPT ![t] = NoJob]
          /\ UNCHANGED <<queueSize, posting, wiped, service>>
      BY <2>3 DEF Started, StartGivesUp, baseVars, clientVars
    <3>2. Busy' = Busy
      <4>1. job \in [Pool -> Jobs \cup {StartJob, NoJob}]
        BY DEF TypeOK
      <4>2. QED
        BY <3>1, <4>1, JobsDiffer DEF Busy
    <3>3. QED
      BY <1>2, <3>1, <3>2
  <2>4. CASE Finish(t)
    <3>1. /\ CountQueue(-1) /\ job[t] \in Jobs /\ job' = [job EXCEPT ![t] = NoJob]
          /\ UNCHANGED <<posting, wiped, service>>
      BY <2>4 DEF Finish, clientVars
    <3>2. t \in Busy /\ Busy' = Busy \ {t}
      <4>1. job \in [Pool -> Jobs \cup {StartJob, NoJob}]
        BY DEF TypeOK
      <4>2. QED
        BY <3>1, <4>1, JobsDiffer DEF Busy
    <3>3. Cardinality(Busy') = Cardinality(Busy) - 1
      BY <1>1, <3>2, FS_RemoveElement
    <3>4. Outstanding' = Outstanding + (-1)
      BY <1>1, <3>1, <3>3 DEF Outstanding
    <3>5. QED
      BY <3>1, <3>4, AccountsStep
  <2>5. QED
    BY <1>8, <2>1, <2>2, <2>3, <2>4 DEF ThreadNext
<1>9. ASSUME NEW c \in Clients, Register(c) PROVE QueueSizeAccounts'
  <2>1. /\ CountQueue(1) /\ c \notin posting /\ posting' = posting \cup {c}
        /\ UNCHANGED <<wiped, service, job>>
    BY <1>9 DEF Register, poolVars
  <2>2. Cardinality(posting') = Cardinality(posting) + 1
    BY <1>1, <2>1, FS_AddElement
  <2>3. Busy' = Busy
    BY <2>1 DEF Busy
  <2>4. Outstanding' = Outstanding + 1
    BY <1>1, <2>1, <2>2, <2>3 DEF Outstanding
  <2>5. QED
    BY <2>1, <2>4, AccountsStep
<1>10. ASSUME NEW c \in Clients, Enqueue(c) PROVE QueueSizeAccounts'
  <2>1. /\ c \in posting /\ posting' = posting \ {c}
        /\ service'.q = Append(service.q, <<c, posts[c]>>)
        /\ UNCHANGED <<wiped, queueSize, job>>
    BY <1>10 DEF Enqueue, Posted, poolVars, TypeOK
  <2>2. <<c, posts[c]>> \in Jobs
    BY <2>1, PoolBoundsAssumption DEF TypeOK, Jobs
  <2>3. Cardinality(Counted(service'.q)) = Cardinality(Counted(service.q)) + 1
    BY <1>1, <2>1, <2>2, CountedAppend, JobsDiffer
  <2>4. Cardinality(posting') = Cardinality(posting) - 1
    BY <1>1, <2>1, FS_RemoveElement
  <2>5. Busy' = Busy
    BY <2>1 DEF Busy
  <2>6. Outstanding' = Outstanding
    BY <1>1, <2>1, <2>3, <2>4, <2>5 DEF Outstanding
  <2>7. QED
    BY <2>1, <2>6 DEF QueueSizeAccounts, Outstanding
<1>11. QED
  BY <1>3, <1>4, <1>5, <1>6, <1>7, <1>8, <1>9, <1>10 DEF Next, OwnerNext

\* The start lambda is posted only when none is left of an earlier start().
LEMMA StartOnceNext ==
    ASSUME AccountsIInv, [Next]_vars
    PROVE  StartOnce'
<1> USE DEF AccountsIInv
<1>1. service.q \in QueueType /\ Len(service.q) \in Nat
  BY SummandsFinite DEF QueueType
<1>2. ASSUME Len(service'.q) = Len(service.q), Counted(service'.q) = Counted(service.q),
             Starting' \subseteq Starting, Active => Active', UNCHANGED started,
             ~Active' => waiting' = waiting
      PROVE  StartOnce'
  BY <1>2 DEF StartOnce
<1>3. CASE UNCHANGED vars
  BY <1>2, <1>3 DEF vars, baseVars, poolVars, ownerVars, Starting, Active
<1>4. CASE StartLoop
  <2>1. service'.q = Append(service.q, StartJob)
    BY <1>4 DEF StartLoop, Posted, TypeOK
  <2>2. /\ Counted(service'.q) = Counted(service.q)
        /\ Len(service'.q) = Len(service.q) + 1
    BY <1>1, <2>1, CountedAppend
  <2>3. /\ ~Active /\ Active' /\ started' = started /\ job' = job
    BY <1>4 DEF StartLoop, Active
  <2>4. /\ Counted(service.q) = 1 .. Len(service.q) /\ started = 0
        /\ \A t \in Pool : job[t] = NoJob
    BY <2>3 DEF StartOnce, IInv
  <2>5. Starting' = {}
    BY <2>3, <2>4, JobsDiffer DEF Starting
  <2>6. \A i \in (1 .. Len(service'.q)) \ Counted(service'.q) : i = Len(service.q) + 1
    BY <1>1, <2>2, <2>4
  <2>7. QED
    BY <2>3, <2>4, <2>5, <2>6 DEF StartOnce
<1>5. CASE Spawn
  <2>1. /\ Active' /\ UNCHANGED <<service, job, started, waiting>>
    BY <1>5 DEF Spawn, IInv, baseVars, Active
  <2>2. QED
    BY <1>2, <2>1 DEF Starting
<1>6. CASE SpawnFails \/ StopLoop
  <2>1. /\ Active' /\ UNCHANGED <<started, job>> /\ service'.q = service.q
    BY <1>6 DEF SpawnFails, StopLoop, stop_loop, poolVars, Active, TypeOK
  <2>2. QED
    BY <1>2, <2>1 DEF Starting
<1>7. CASE StopReset
  <2>1. \A t \in Pool : job'[t] = NoJob
    BY <1>7 DEF StopReset, IInv
  <2>2. service'.q = <<>> /\ started' = 0 /\ waiting' = 0
    BY <1>7 DEF StopReset, reset, FreshService
  <2>3. Starting' = {} /\ Counted(service'.q) = {} /\ 1 .. Len(service'.q) = {}
    BY <2>1, <2>2, JobsDiffer DEF Starting, Counted
  <2>4. QED
    BY <2>2, <2>3 DEF StartOnce
<1>8. ASSUME NEW t \in Pool, ThreadNext(t) PROVE StartOnce'
  <2>1. CASE ListId(t) \/ EnterRun(t) \/ RunReturn(t) \/ NotifyStop(t)
    <3>1. Active /\ Active'
      BY <2>1 DEF ListId, EnterRun, RunReturn, NotifyStop, baseVars, ownerVars, IInv, Active
    <3>2. UNCHANGED <<service, job, started>>
      BY <2>1 DEF ListId, EnterRun, RunReturn, NotifyStop, baseVars
    <3>3. QED
      BY <1>2, <3>1, <3>2 DEF Starting
  <2>2. CASE Take(t)
    <3>1. /\ service.q # <<>> /\ service'.q = Tail(service.q) /\ job[t] = NoJob
          /\ job' = [job EXCEPT ![t] = Head(service.q)]
          /\ UNCHANGED started /\ Active'
      BY <2>2 DEF Take, CanTake, Taken, TypeOK, Active, IInv, ownerVars
    <3>2. /\ Head(service.q) = service.q[1]
          /\ Len(service'.q) = Len(service.q) - 1 /\ Len(service.q) \in Nat \ {0}
          /\ \A i \in 1 .. Len(service'.q) : service'.q[i] = service.q[i + 1]
      BY <1>1, <3>1, CountedTail
    <3>3. \A i \in (1 .. Len(service'.q)) \ Counted(service'.q) :
             i + 1 \in (1 .. Len(service.q)) \ Counted(service.q)
      BY <3>2 DEF Counted
    <3>4. Starting' = IF Head(service.q) = StartJob THEN Starting \cup {t} ELSE Starting
      <4>1. job \in [Pool -> Jobs \cup {StartJob, NoJob}]
        BY DEF TypeOK
      <4>2. QED
        BY <3>1, <4>1, JobsDiffer DEF Starting
    <3>5. CASE Head(service.q) = StartJob
      <4>1. 1 \in (1 .. Len(service.q)) \ Counted(service.q)
        BY <3>2, <3>5 DEF Counted
      <4>2. Starting = {} /\ started = 0
        BY <4>1 DEF StartOnce
      <4>3. \A i \in (1 .. Len(service'.q)) \ Counted(service'.q) : FALSE
        BY <3>2, <3>3, <4>1 DEF StartOnce
      <4>4. Counted(service'.q) = 1 .. Len(service'.q)
        BY <4>3 DEF Counted
      <4>5. QED
        BY <3>1, <3>4, <3>5, <4>2, <4>4 DEF StartOnce
    <3>6. CASE Head(service.q) # StartJob
      <4>1. \A i, j \in (1 .. Len(service'.q)) \ Counted(service'.q) : i = j
        BY <3>3, <3>2 DEF StartOnce
      <4>2. Counted(service'.q) # 1 .. Len(service'.q)
               => Counted(service.q) # 1 .. Len(service.q)
        <5>1. SUFFICES ASSUME Counted(service'.q) # 1 .. Len(service'.q)
                       PROVE  Counted(service.q) # 1 .. Len(service.q)
          OBVIOUS
        <5>2. PICK i \in (1 .. Len(service'.q)) \ Counted(service'.q) : TRUE
          BY <5>1 DEF Counted
        <5>3. QED
          BY <3>3, <5>2
      <4>3. QED
        BY <3>1, <3>4, <3>6, <4>1, <4>2 DEF StartOnce
    <3>7. QED
      BY <3>5, <3>6
  <2>3. CASE Started(t) \/ StartGivesUp(t)
    <3>1. /\ job[t] = StartJob /\ job' = [job EXCEPT ![t] = NoJob]
          /\ UNCHANGED <<service, waiting>> /\ Active' /\ started' \in {started, started + 1}
      BY <2>3, JobsDiffer DEF Started, StartGivesUp, IInv, Active, baseVars, ownerVars
    <3>2. t \in Starting
      BY <3>1 DEF Starting
    <3>3. Starting' = {}
      <4>1. job \in [Pool -> Jobs \cup {StartJob, NoJob}]
        BY DEF TypeOK
      <4>2. \A u \in Pool : job[u] = StartJob => u = t
        BY <3>2 DEF StartOnce, Starting
      <4>3. QED
        BY <3>1, <4>1, <4>2, JobsDiffer DEF Starting
    <3>4. Counted(service'.q) = 1 .. Len(service'.q)
      BY <3>1, <3>2 DEF StartOnce
    <3>5. QED
      BY <3>1, <3>3, <3>4 DEF StartOnce
  <2>4. CASE Finish(t)
    <3>1. /\ job' = [job EXCEPT ![t] = NoJob] /\ job[t] \in Jobs
          /\ UNCHANGED <<service, started, waiting, owner, isRunning>>
      BY <2>4 DEF Finish, ownerVars
    <3>2. Starting' \subseteq Starting
      <4>1. job \in [Pool -> Jobs \cup {StartJob, NoJob}]
        BY DEF TypeOK
      <4>2. QED
        BY <3>1, <4>1, JobsDiffer DEF Starting
    <3>3. QED
      BY <1>2, <3>1, <3>2 DEF Active
  <2>5. QED
    BY <1>8, <2>1, <2>2, <2>3, <2>4 DEF ThreadNext
<1>9. ASSUME NEW c \in Clients, Register(c) PROVE StartOnce'
  BY <1>2, <1>9 DEF Register, poolVars, ownerVars, Starting, Active
<1>10. ASSUME NEW c \in Clients, Enqueue(c) PROVE StartOnce'
  <2>1. /\ service'.q = Append(service.q, <<c, posts[c]>>) /\ c \in posting
        /\ UNCHANGED <<isRunning, owner, started, job, waiting>>
    BY <1>10 DEF Enqueue, Posted, poolVars, ownerVars, TypeOK
  <2>2. <<c, posts[c]>> \in Jobs
    BY <2>1, PoolBoundsAssumption DEF TypeOK, Jobs
  <2>3. /\ Counted(service'.q) = Counted(service.q) \cup {Len(service.q) + 1}
        /\ Len(service'.q) = Len(service.q) + 1
    BY <1>1, <2>1, <2>2, CountedAppend, JobsDiffer
  <2>4. /\ (1 .. Len(service'.q)) \ Counted(service'.q)
              = (1 .. Len(service.q)) \ Counted(service.q)
        /\ Counted(service'.q) = 1 .. Len(service'.q) <=> Counted(service.q) = 1 .. Len(service.q)
    BY <1>1, <2>3 DEF Counted
  <2>5. Starting' = Starting /\ (Active' <=> Active)
    BY <2>1 DEF Starting, Active
  <2>6. QED
    BY <2>1, <2>4, <2>5 DEF StartOnce
<1>11. QED
  BY <1>3, <1>4, <1>5, <1>6, <1>7, <1>8, <1>9, <1>10 DEF Next, OwnerNext

\* Every step preserves the types; started stays at most one by StartOnce.
LEMMA TypeNext ==
    ASSUME AccountsIInv, [Next]_vars
    PROVE  TypeOK' /\ \A c \in posting' : posts'[c] # 0
<1> USE DEF AccountsIInv
<1> DEFINE Numbered == \A c \in posting : posts[c] # 0
<1>1. /\ service.q \in QueueType /\ queueSize \in Int
      /\ Cardinality(posting) \in 0 .. Cardinality(Clients)
      /\ Cardinality(Clients) \in Nat
  BY SummandsFinite, ClientsAssumption, FS_CardinalityType
<1>2. waiting' \in 0 .. Cardinality(Pool) /\ Cardinality(Pool) \in Nat
  <2>1. IInv'
    BY NextIInv
  <2>2. StartOnce'
    BY StartOnceNext
  <2>3. Pending' \subseteq Pool
    BY DEF Pending
  <2>4. /\ Cardinality(Pending') \in Nat /\ Cardinality(Pool) \in Nat
        /\ Cardinality(Pending') <= Cardinality(Pool)
    BY <2>3, PoolAssumption, FS_Subset, FS_CardinalityType
  <2>5. waiting' = Cardinality(Pending') \/ waiting' = 0
    BY <2>1, <2>2 DEF IInv, StartOnce
  <2>6. QED
    BY <2>4, <2>5
<1>3. threads' \in [Pool -> ThreadPCs] /\ threadIds' \subseteq Pool
  BY NextIInv DEF IInv
<1>4. CASE UNCHANGED vars
  BY <1>4 DEF vars, baseVars, poolVars, ownerVars, clientVars, TypeOK
<1>5. CASE StartLoop
  <2>1. Append(service.q, StartJob) \in QueueType
    BY <1>1, CountedAppend
  <2>2. service' \in [q : Seq(Jobs \cup {StartJob}), timers : {{}},
                      stopped : BOOLEAN, work : BOOLEAN]
    BY <1>5, <2>1 DEF StartLoop, Posted, TypeOK, QueueType
  <2>3. starts' \in 0 .. MaxStarts
    BY <1>5, PoolBoundsAssumption DEF StartLoop, TypeOK
  <2>4. QED
    BY <1>2, <1>3, <1>5, <2>2, <2>3 DEF StartLoop, clientVars, TypeOK
<1>6. CASE Spawn
  <2>1. owner' \in {"idle", "starting"}
    BY <1>6 DEF Spawn
  <2>2. QED
    BY <1>2, <1>3, <1>6, <2>1 DEF Spawn, baseVars, clientVars, TypeOK
<1>7. CASE SpawnFails \/ StopLoop
  <2>1. service' \in [q : Seq(Jobs \cup {StartJob}), timers : {{}},
                      stopped : BOOLEAN, work : BOOLEAN]
    BY <1>7 DEF SpawnFails, StopLoop, stop_loop, TypeOK
  <2>2. QED
    BY <1>7, <2>1 DEF SpawnFails, StopLoop, stop_loop, poolVars, clientVars, TypeOK
<1>8. CASE StopReset
  <2>1. service' \in [q : Seq(Jobs \cup {StartJob}), timers : {{}},
                      stopped : BOOLEAN, work : BOOLEAN]
    BY <1>8 DEF StopReset, reset, FreshService
  <2>2. queueSize' \in 0 .. QueueModulus - 1 /\ wiped' \in 0 .. Cardinality(Clients)
    BY <1>1, <1>8, QueueModulusAssumption DEF StopReset, reset
  <2>3. isRunning' = FALSE /\ isRun' = FALSE /\ owner' = "idle" /\ started' = 0
    BY <1>8 DEF StopReset, reset
  <2>4. UNCHANGED <<job, starts, posting, posts>>
    BY <1>8 DEF StopReset, clientVars
  <2>5. /\ job' \in [Pool -> Jobs \cup {StartJob, NoJob}] /\ starts' \in 0 .. MaxStarts
        /\ posting' \subseteq Clients /\ posts' \in [Clients -> 0 .. MaxPosts]
        /\ Numbered'
    BY <2>4 DEF TypeOK
  <2>6. isRunning' \in BOOLEAN /\ isRun' \in BOOLEAN
    BY <2>3, Zenon
  <2>7. owner' \in {"idle", "starting", "stopping"} /\ started' \in 0 .. 1
    BY <2>3
  <2>8. QED
    BY <1>2, <1>3, <2>1, <2>2, <2>5, <2>6, <2>7 DEF TypeOK
<1>9. ASSUME NEW t \in Pool, ThreadNext(t) PROVE TypeOK' /\ Numbered'
  <2>1. CASE ListId(t) \/ EnterRun(t) \/ RunReturn(t) \/ NotifyStop(t)
    <3>1. UNCHANGED <<baseVars, isRun, job, ownerVars, clientVars, started, wiped>>
      BY <2>1 DEF ListId, EnterRun, RunReturn, NotifyStop
    <3>2. QED
      BY <1>2, <1>3, <3>1 DEF baseVars, ownerVars, clientVars, TypeOK
  <2>2. CASE Take(t)
    <3>1. service.q # <<>>
      BY <2>2 DEF Take, CanTake
    <3>2. Tail(service.q) \in QueueType /\ Head(service.q) \in Jobs \cup {StartJob}
      BY <1>1, <3>1, CountedTail
    <3>3. service' \in [q : Seq(Jobs \cup {StartJob}), timers : {{}},
                        stopped : BOOLEAN, work : BOOLEAN]
      BY <2>2, <3>2 DEF Take, Taken, TypeOK, QueueType
    <3>4. job' \in [Pool -> Jobs \cup {StartJob, NoJob}]
      BY <2>2, <3>2 DEF Take, TypeOK
    <3>5. QED
      BY <2>2, <3>3, <3>4 DEF Take, ownerVars, clientVars, TypeOK
  <2>3. CASE Started(t)
    <3>1. started = 0
      BY <2>3 DEF Started, StartOnce, Starting
    <3>2. started' \in 0 .. 1
      BY <2>3, <3>1 DEF Started
    <3>3. job' \in [Pool -> Jobs \cup {StartJob, NoJob}]
      BY <2>3 DEF Started, TypeOK
    <3>4. QED
      BY <2>3, <3>2, <3>3 DEF Started, baseVars, ownerVars, clientVars, TypeOK
  <2>4. CASE StartGivesUp(t)
    <3>1. job' \in [Pool -> Jobs \cup {StartJob, NoJob}]
      BY <2>4 DEF StartGivesUp, TypeOK
    <3>2. QED
      BY <2>4, <3>1 DEF StartGivesUp, baseVars, ownerVars, clientVars, TypeOK
  <2>5. CASE Finish(t)
    <3>1. job' \in [Pool -> Jobs \cup {StartJob, NoJob}]
      BY <2>5 DEF Finish, TypeOK
    <3>2. queueSize' \in 0 .. QueueModulus - 1
      BY <1>1, <2>5, CountType DEF Finish
    <3>3. QED
      BY <2>5, <3>1, <3>2 DEF Finish, ownerVars, clientVars, TypeOK
  <2>6. QED
    BY <1>9, <2>1, <2>2, <2>3, <2>4, <2>5 DEF ThreadNext
<1>10. ASSUME NEW c \in Clients, Register(c) PROVE TypeOK' /\ Numbered'
  <2>1. queueSize' \in 0 .. QueueModulus - 1
    BY <1>1, <1>10, CountType DEF Register
  <2>2. /\ posts' \in [Clients -> 0 .. MaxPosts] /\ posts'[c] # 0
        /\ \A d \in Clients \ {c} : posts'[d] = posts[d]
    BY <1>10, PoolBoundsAssumption DEF Register, TypeOK
  <2>3. QED
    BY <1>10, <2>1, <2>2 DEF Register, poolVars, ownerVars, TypeOK
<1>11. ASSUME NEW c \in Clients, Enqueue(c) PROVE TypeOK' /\ Numbered'
  <2>1. <<c, posts[c]>> \in Jobs
    BY <1>11, PoolBoundsAssumption DEF Enqueue, TypeOK, Jobs
  <2>2. Append(service.q, <<c, posts[c]>>) \in QueueType
    BY <1>1, <2>1, CountedAppend
  <2>3. service' \in [q : Seq(Jobs \cup {StartJob}), timers : {{}},
                      stopped : BOOLEAN, work : BOOLEAN]
    BY <1>11, <2>2 DEF Enqueue, Posted, TypeOK, QueueType
  <2>4. QED
    BY <1>11, <2>3 DEF Enqueue, poolVars, ownerVars, TypeOK
<1>12. QED
  BY <1>4, <1>5, <1>6, <1>7, <1>8, <1>9, <1>10, <1>11 DEF Next, OwnerNext

\* The invariant of the accounting holds in a pool that was not started.
LEMMA InitAccounts == Init => AccountsIInv
<1> SUFFICES ASSUME Init PROVE AccountsIInv
  OBVIOUS
<1>1. /\ Cardinality(Clients) \in Nat /\ Cardinality(Pool) \in Nat
  BY ClientsAssumption, PoolAssumption, FS_CardinalityType
<1>2. TypeOK
  <2>1. service \in [q : Seq(Jobs \cup {StartJob}), timers : {{}},
                     stopped : BOOLEAN, work : BOOLEAN]
    BY DEF Init, InitBase, FreshService
  <2>2. queueSize \in 0 .. QueueModulus - 1 /\ starts \in 0 .. MaxStarts /\ started \in 0 .. 1
    BY QueueModulusAssumption, PoolBoundsAssumption DEF Init, InitBase
  <2>3. waiting \in 0 .. Cardinality(Pool) /\ wiped \in 0 .. Cardinality(Clients)
    BY <1>1 DEF Init
  <2>4. isRunning \in BOOLEAN /\ isRun \in BOOLEAN /\ owner \in {"idle", "starting", "stopping"}
    BY DEF Init, InitBase
  <2>5. /\ threads \in [Pool -> ThreadPCs] /\ threadIds \subseteq Pool
        /\ job \in [Pool -> Jobs \cup {StartJob, NoJob}]
    BY DEF Init, ThreadPCs
  <2>6. posting \subseteq Clients /\ posts \in [Clients -> 0 .. MaxPosts]
    BY PoolBoundsAssumption DEF Init
  <2>7. QED
    BY <2>1, <2>2, <2>3, <2>4, <2>5, <2>6 DEF TypeOK
<1>3. service.q = <<>> /\ Counted(service.q) = {} /\ Busy = {} /\ Starting = {} /\ posting = {}
  BY JobsDiffer DEF Init, InitBase, FreshService, Counted, Busy, Starting
<1>4. StartOnce
  BY <1>3 DEF Init, StartOnce
<1>5. QueueSizeAccounts
  <2>1. queueSize = 0 /\ wiped = 0 /\ Cardinality({}) = 0
    BY FS_EmptySet DEF Init, InitBase
  <2>2. 0 % QueueModulus = 0
    BY QueueModulusAssumption
  <2>3. /\ Cardinality(posting) = 0 /\ Cardinality(Busy) = 0
        /\ Cardinality(Counted(service.q)) = 0
    BY <1>3, <2>1
  <2>4. Cardinality(posting) + Cardinality(Busy) + Cardinality(Counted(service.q)) - wiped = 0
    BY <2>1, <2>3
  <2>5. QED
    BY <2>1, <2>2, <2>4 DEF QueueSizeAccounts
<1>6. QED
  BY <1>2, <1>3, <1>4, <1>5, InitIInv DEF AccountsIInv

\* The types and the accounting hold in every reachable state.
THEOREM AccountsInvariance == Spec => []AccountsIInv
<1>1. AccountsIInv /\ [Next]_vars => AccountsIInv'
  BY NextIInv, TypeNext, StartOnceNext, AccountsNext DEF AccountsIInv
<1>2. QED
  BY <1>1, InitAccounts, PTL DEF Spec

\* Every variable of the pool has its type; in particular the start observers
\* are notified at most once between a start() and the reset() of its stop().
THEOREM TypeCorrect == Spec => []TypeOK
<1>1. AccountsIInv => TypeOK
  BY DEF AccountsIInv
<1>2. QED
  BY <1>1, AccountsInvariance, PTL

\* _queue_size is the number of posted callbacks that are still to end, modulo
\* the width of the counter and less the ones whose increment a reset() erased,
\* however many threads post and however many execute callbacks at once.
THEOREM QueueAccounting == Spec => []QueueSizeAccounts
<1>1. AccountsIInv => QueueSizeAccounts
  BY DEF AccountsIInv
<1>2. QED
  BY <1>1, AccountsInvariance, PTL

(***************************************************************************)
(* wait_async and wait_async_result, with which wait() of a loop or a pool *)
(* waits for a callback, for any number of calls.                          *)
(***************************************************************************)

(***************************************************************************)
(* The inductive invariant, in parts: what each call's fields say of each  *)
(* other.                                                                  *)
(***************************************************************************)

\* The caller's shared_ptr exists, and the wrapper's.
CallerHolds(c) == /\ call[c].caller # "returned"
                  /\ ~(call[c].caller = "half" /\ c \in WithResult)
WorkerHolds(c) == call[c].worker \in {"running", "ended", "locked", "writing",
                                      "setting", "unlocking"}

\* use_count() counts exactly these two; a call without a timeout has none.
RefsCount(c) ==
    call[c].refs = IF c \notin Timed THEN 0
                   ELSE (IF CallerHolds(c) THEN 1 ELSE 0) + (IF WorkerHolds(c) THEN 1 ELSE 0)

\* Nothing is posted before the call, and everything afterwards.
PostedOnce(c) == call[c].caller = "idle" <=> call[c].worker = "none"

\* What the wrapper has written says how far it has come and how its callback
\* ended.
WrittenByWrapper(c) ==
    /\ call[c].worker \in {"none", "queued", "running"} =>
          call[c].outcome = "initial" /\ call[c].promise = "unset" /\ ~call[c].threw
    /\ call[c].outcome = "set" => ~call[c].threw
    /\ call[c].promise # "unset" => call[c].worker \in {"unlocking", "done"}
    /\ call[c].promise = "exception" => call[c].threw
    /\ call[c].promise = "value" => call[c].outcome = "set"
    /\ call[c].worker = "writing" => ~call[c].threw
    /\ call[c].worker = "setting" => call[c].threw \/ call[c].outcome = "set"

\* Without a timeout the promise alone orders the two: the wrapper is through
\* once it is set, and the caller leaves only then.
OrderedByPromise(c) == c \notin Timed =>
    /\ call[c].worker \notin {"ended", "locked", "unlocking"}
    /\ call[c].caller \notin {"locking", "locked"}
    /\ call[c].promise # "unset" <=> call[c].worker = "done"
    /\ call[c].caller \in {"leaving", "half", "returned"} => call[c].worker = "done"
    /\ call[c].caller \notin {"leaving", "half", "returned"} =>
          call[c].alive = {"promise", "outcome"}
    /\ ~call[c].dangling

CallInv(c) == /\ RefsCount(c) /\ PostedOnce(c)
              /\ WrittenByWrapper(c) /\ OrderedByPromise(c)

WaitInv == WaitTypeOK /\ \A c \in Calls : CallInv(c)

\* A step that gives one call a new state keeps the types and leaves the other
\* calls alone.
LEMMA OneCallSteps ==
    ASSUME WaitTypeOK, NEW c \in Calls, NEW r \in CallState,
           call' = [call EXCEPT ![c] = r]
    PROVE  /\ WaitTypeOK' /\ call'[c] = r
           /\ \A d \in Calls : d # c => call'[d] = call[d]
BY DEF WaitTypeOK

\* Before the first call is made the invariant holds.
LEMMA WaitInitInv == WaitInit => WaitInv
BY DEF WaitInit, WaitInv, WaitTypeOK, CallState, CallInv, RefsCount, CallerHolds, WorkerHolds,
       PostedOnce, WrittenByWrapper, OrderedByPromise

\* Every step of a caller or of a wrapper preserves the invariant.
LEMMA WaitNextInv == WaitInv /\ [WaitNext]_call => WaitInv'
<1> SUFFICES ASSUME WaitInv, [WaitNext]_call PROVE WaitInv'
  OBVIOUS
<1>1. CASE UNCHANGED call
  BY <1>1 DEF WaitInv, WaitTypeOK, CallInv, RefsCount, CallerHolds, WorkerHolds,
              PostedOnce, WrittenByWrapper, OrderedByPromise
<1>2. CASE WaitNext
  <2>1. PICK c \in Calls :
          \/ Begin(c) \/ CallerNext(c) \/ WrapperNext(c)
          \/ WorkerEnters(c) \/ WorkerSkips(c)
          \/ CallbackEnds(c) \/ EndlessResultEnds(c) \/ EndlessEnds(c)
    BY <1>2 DEF WaitNext
  <2>2. call[c] \in CallState /\ CallInv(c) /\ call \in [Calls -> CallState]
    BY DEF WaitInv, WaitTypeOK
  <2>3. ASSUME NEW r \in CallState, call' = [call EXCEPT ![c] = r], CallInv(c)'
        PROVE  WaitInv'
    <3>1. WaitTypeOK' /\ \A d \in Calls : d # c => call'[d] = call[d]
      BY <2>3, OneCallSteps DEF WaitInv
    <3>2. ASSUME NEW d \in Calls, d # c PROVE CallInv(d)'
      BY <3>1, <3>2 DEF WaitInv, CallInv, RefsCount, CallerHolds, WorkerHolds,
                        PostedOnce, WrittenByWrapper, OrderedByPromise
    <3>3. QED
      BY <2>3, <3>1, <3>2 DEF WaitInv
  <2>4. CASE Begin(c)
    <3>1. call'[c] \in CallState /\ call' = [call EXCEPT ![c] = call'[c]]
      BY <2>4, <2>2 DEF Begin, CallState
    <3>2. CallInv(c)'
      BY <2>4, <2>2
         DEF Begin, CallState, CallInv, RefsCount, CallerHolds, WorkerHolds, PostedOnce,
             WrittenByWrapper, OrderedByPromise
    <3>3. QED
      BY <2>3, <3>1, <3>2
  <2>5. CASE Ready(c)
    <3> DEFINE r == [call[c] EXCEPT !.caller = IF c \in Timed /\ call[c].promise = "value"
                                               THEN "locking" ELSE "leaving",
                                    !.ret = CASE call[c].promise = "exception" -> "throw"
                                              [] call[c].promise = "value" /\ c \in Timed -> @
                                              [] OTHER -> call[c].outcome]
    <3>1. call' = [call EXCEPT ![c] = r]
      <4>1. CASE call[c].promise = "exception"
        BY <4>1, <2>5 DEF Ready, WaitInv, WaitTypeOK, CallState
      <4>2. CASE call[c].promise # "exception" /\ c \in Timed
        BY <4>2, <2>5 DEF Ready, WaitInv, WaitTypeOK, CallState
      <4>3. CASE call[c].promise # "exception" /\ c \notin Timed
        BY <4>3, <2>5 DEF Ready, WaitInv, WaitTypeOK, CallState
      <4>4. QED
        BY <4>1, <4>2, <4>3
    <3>2. r \in CallState
      BY <2>5, <2>2 DEF Ready, CallState, CallInv, WrittenByWrapper, OrderedByPromise
    <3>3. CallInv(c)'
      <4>1. call'[c] = r
        BY <3>1 DEF WaitInv, WaitTypeOK
      <4>2. QED
        BY <4>1, <2>5, <2>2
           DEF Ready, CallState, CallInv, RefsCount, CallerHolds, WorkerHolds,
               PostedOnce, WrittenByWrapper, OrderedByPromise
    <3>4. QED
      BY <3>1, <3>2, <3>3, <2>3
  <2>6. CASE Timeout(c)
    <3>1. call'[c] \in CallState /\ call' = [call EXCEPT ![c] = call'[c]]
      BY <2>6, <2>2 DEF Timeout, CallState
    <3>2. CallInv(c)'
      BY <2>6, <2>2
         DEF Timeout, CallState, CallInv, RefsCount, CallerHolds, WorkerHolds, PostedOnce,
             WrittenByWrapper, OrderedByPromise
    <3>3. QED
      BY <2>3, <3>1, <3>2
  <2>7. CASE CallerLocks(c)
    <3>1. call'[c] \in CallState /\ call' = [call EXCEPT ![c] = call'[c]]
      BY <2>7, <2>2 DEF CallerLocks, CallState
    <3>2. CallInv(c)'
      BY <2>7, <2>2
         DEF CallerLocks, CallState, CallInv, RefsCount, CallerHolds, WorkerHolds, PostedOnce,
             WrittenByWrapper, OrderedByPromise
    <3>3. QED
      BY <2>3, <3>1, <3>2
  <2>8. CASE CallerUnlocks(c)
    <3> DEFINE r == [call[c] EXCEPT !.caller = "leaving", !.guard = "free"]
    <3>1. call' = [call EXCEPT ![c] = r]
      BY <2>8 DEF CallerUnlocks, WaitInv, WaitTypeOK, CallState
    <3>2. r \in CallState
      BY <2>8, <2>2 DEF CallerUnlocks, CallState, CallInv, WrittenByWrapper, OrderedByPromise
    <3>3. CallInv(c)'
      <4>1. call'[c] = r
        BY <3>1 DEF WaitInv, WaitTypeOK
      <4>2. QED
        BY <4>1, <2>8, <2>2
           DEF CallerUnlocks, CallState, CallInv, RefsCount, CallerHolds, WorkerHolds,
               PostedOnce, WrittenByWrapper, OrderedByPromise
    <3>4. QED
      BY <3>1, <3>2, <3>3, <2>3
  <2>9. CASE LeaveFirst(c)
    <3> DEFINE r == [call[c] EXCEPT !.caller = "half",
                                    !.refs = IF c \in Timed \cap WithResult THEN @ - 1 ELSE @,
                                    !.alive = IF c \in WithResult THEN @ ELSE @ \ {"promise"}]
    <3>1. call' = [call EXCEPT ![c] = r]
      BY <2>9 DEF LeaveFirst, WaitInv, WaitTypeOK, CallState
    <3>2. r \in CallState
      <4>1. (IF c \in Timed \cap WithResult THEN call[c].refs - 1 ELSE call[c].refs) \in 0 .. 2
        BY <2>9, <2>2 DEF LeaveFirst, CallInv, RefsCount, CallerHolds, WorkerHolds
      <4>2. QED
        BY <4>1, <2>2 DEF CallState
    <3>3. CallInv(c)'
      <4>1. call'[c] = r
        BY <3>1 DEF WaitInv, WaitTypeOK
      <4>2. QED
        BY <4>1, <2>9, <2>2
           DEF LeaveFirst, CallState, CallInv, RefsCount, CallerHolds, WorkerHolds,
               PostedOnce, WrittenByWrapper, OrderedByPromise
    <3>4. QED
      BY <3>1, <3>2, <3>3, <2>3
  <2>10. CASE LeaveLast(c)
    <3> DEFINE r == [call[c] EXCEPT !.caller = "returned",
                                    !.refs = IF c \in Timed \ WithResult THEN @ - 1 ELSE @,
                                    !.alive = {}]
    <3>1. call' = [call EXCEPT ![c] = r]
      BY <2>10 DEF LeaveLast, WaitInv, WaitTypeOK, CallState
    <3>2. r \in CallState
      <4>1. (IF c \in Timed \ WithResult THEN call[c].refs - 1 ELSE call[c].refs) \in 0 .. 2
        BY <2>10, <2>2 DEF LeaveLast, CallInv, RefsCount, CallerHolds, WorkerHolds
      <4>2. QED
        BY <4>1, <2>2 DEF CallState
    <3>3. CallInv(c)'
      <4>1. call'[c] = r
        BY <3>1 DEF WaitInv, WaitTypeOK
      <4>2. QED
        BY <4>1, <2>10, <2>2
           DEF LeaveLast, CallState, CallInv, RefsCount, CallerHolds, WorkerHolds,
               PostedOnce, WrittenByWrapper, OrderedByPromise
    <3>4. QED
      BY <3>1, <3>2, <3>3, <2>3
  <2>11. CASE WorkerEnters(c)
    <3> DEFINE r == [call[c] EXCEPT !.worker = "running",
                                    !.refs = IF c \in Timed THEN @ + 1 ELSE @]
    <3>1. call' = [call EXCEPT ![c] = r]
      BY <2>11 DEF WorkerEnters, WaitInv, WaitTypeOK, CallState
    <3>2. r \in CallState
      <4>1. (IF c \in Timed THEN call[c].refs + 1 ELSE call[c].refs) \in 0 .. 2
        BY <2>11, <2>2 DEF WorkerEnters, CallInv, RefsCount, CallerHolds, WorkerHolds
      <4>2. QED
        BY <4>1, <2>2 DEF CallState
    <3>3. CallInv(c)'
      <4>1. call'[c] = r
        BY <3>1 DEF WaitInv, WaitTypeOK
      <4>2. QED
        BY <4>1, <2>11, <2>2
           DEF WorkerEnters, CallState, CallInv, RefsCount, CallerHolds, WorkerHolds,
               PostedOnce, WrittenByWrapper, OrderedByPromise
    <3>4. QED
      BY <3>1, <3>2, <3>3, <2>3
  <2>12. CASE WorkerSkips(c)
    <3>1. call'[c] \in CallState /\ call' = [call EXCEPT ![c] = call'[c]]
      BY <2>12, <2>2 DEF WorkerSkips, CallState
    <3>2. CallInv(c)'
      BY <2>12, <2>2
         DEF WorkerSkips, CallState, CallInv, RefsCount, CallerHolds, WorkerHolds, PostedOnce,
             WrittenByWrapper, OrderedByPromise
    <3>3. QED
      BY <2>3, <3>1, <3>2
  <2>13. CASE CallbackEnds(c)
    <3>1. call'[c] \in CallState /\ call' = [call EXCEPT ![c] = call'[c]]
      BY <2>13, <2>2 DEF CallbackEnds, CallState
    <3>2. CallInv(c)'
      BY <2>13, <2>2
         DEF CallbackEnds, CallState, CallInv, RefsCount, CallerHolds, WorkerHolds, PostedOnce,
             WrittenByWrapper, OrderedByPromise
    <3>3. QED
      BY <2>3, <3>1, <3>2
  <2>14. CASE EndlessResultEnds(c)
    <3>1. call'[c] \in CallState /\ call' = [call EXCEPT ![c] = call'[c]]
      BY <2>14, <2>2 DEF EndlessResultEnds, CallState
    <3>2. CallInv(c)'
      BY <2>14, <2>2
         DEF EndlessResultEnds, CallState, CallInv, RefsCount, CallerHolds, WorkerHolds, PostedOnce,
             WrittenByWrapper, OrderedByPromise
    <3>3. QED
      BY <2>3, <3>1, <3>2
  <2>15. CASE EndlessEnds(c)
    <3>1. call'[c] \in CallState /\ call' = [call EXCEPT ![c] = call'[c]]
      BY <2>15, <2>2 DEF EndlessEnds, CallState
    <3>2. CallInv(c)'
      BY <2>15, <2>2
         DEF EndlessEnds, CallState, CallInv, RefsCount, CallerHolds, WorkerHolds, PostedOnce,
             WrittenByWrapper, OrderedByPromise
    <3>3. QED
      BY <2>3, <3>1, <3>2
  <2>16. CASE WorkerLocks(c)
    <3>1. call'[c] \in CallState /\ call' = [call EXCEPT ![c] = call'[c]]
      BY <2>16, <2>2 DEF WorkerLocks, CallState
    <3>2. CallInv(c)'
      BY <2>16, <2>2
         DEF WorkerLocks, CallState, CallInv, RefsCount, CallerHolds, WorkerHolds, PostedOnce,
             WrittenByWrapper, OrderedByPromise
    <3>3. QED
      BY <2>3, <3>1, <3>2
  <2>17. CASE WorkerSeesCaller(c)
    <3>1. call'[c] \in CallState /\ call' = [call EXCEPT ![c] = call'[c]]
      BY <2>17, <2>2 DEF WorkerSeesCaller, CallState
    <3>2. CallInv(c)'
      BY <2>17, <2>2
         DEF WorkerSeesCaller, CallState, CallInv, RefsCount, CallerHolds, WorkerHolds, PostedOnce,
             WrittenByWrapper, OrderedByPromise
    <3>3. QED
      BY <2>3, <3>1, <3>2
  <2>18. CASE WorkerSeesNoCaller(c)
    <3>1. call'[c] \in CallState /\ call' = [call EXCEPT ![c] = call'[c]]
      BY <2>18, <2>2 DEF WorkerSeesNoCaller, CallState
    <3>2. CallInv(c)'
      BY <2>18, <2>2
         DEF WorkerSeesNoCaller, CallState, CallInv, RefsCount, CallerHolds, WorkerHolds, PostedOnce,
             WrittenByWrapper, OrderedByPromise
    <3>3. QED
      BY <2>3, <3>1, <3>2
  <2>19. CASE WorkerWrites(c)
    <3> DEFINE r == [call[c] EXCEPT !.worker = "setting", !.outcome = "set",
                                    !.dangling = @ \/ "outcome" \notin call[c].alive]
    <3>1. call' = [call EXCEPT ![c] = r]
      BY <2>19 DEF WorkerWrites, WaitInv, WaitTypeOK, CallState
    <3>2. r \in CallState
      BY <2>19, <2>2 DEF WorkerWrites, CallState, CallInv, WrittenByWrapper, OrderedByPromise
    <3>3. CallInv(c)'
      <4>1. call'[c] = r
        BY <3>1 DEF WaitInv, WaitTypeOK
      <4>2. QED
        BY <4>1, <2>19, <2>2
           DEF WorkerWrites, CallState, CallInv, RefsCount, CallerHolds, WorkerHolds,
               PostedOnce, WrittenByWrapper, OrderedByPromise
    <3>4. QED
      BY <3>1, <3>2, <3>3, <2>3
  <2>20. CASE WorkerSets(c)
    <3>1. call'[c] \in CallState /\ call' = [call EXCEPT ![c] = call'[c]]
      <4> DEFINE w == IF c \in Timed THEN "unlocking" ELSE "done"
                 p == IF call[c].threw THEN "exception" ELSE "value"
                 d == call[c].dangling \/ "promise" \notin call[c].alive
                 r == [call[c] EXCEPT !.worker = w, !.promise = p, !.dangling = d]
      <4>1. d \in BOOLEAN
        BY Zenon
      <4>2. w \in {"unlocking", "done"} /\ p \in {"exception", "value"}
        OBVIOUS
      <4>3. call' = [call EXCEPT ![c] = r]
        BY <2>20, <2>2 DEF WorkerSets, CallState
      <4> HIDE DEF w, p, d
      <4>4. r \in CallState
        <5> DEFINE s == [call[c] EXCEPT !.worker = w]
                   t == [s EXCEPT !.promise = p]
        <5>1. s \in CallState
          BY <2>2, <4>2 DEF CallState
        <5> HIDE DEF s
        <5>2. t \in CallState
          BY <5>1, <4>2 DEF CallState
        <5> HIDE DEF t
        <5>3. [t EXCEPT !.dangling = d] \in CallState
          BY <5>2, <4>1 DEF CallState
        <5>4. QED
          BY <2>2, <5>3 DEF s, t, CallState
      <4>5. QED
        BY <2>2, <4>3, <4>4
    <3>2. CallInv(c)'
      BY <2>20, <2>2
         DEF WorkerSets, CallState, CallInv, RefsCount, CallerHolds, WorkerHolds, PostedOnce,
             WrittenByWrapper, OrderedByPromise
    <3>3. QED
      BY <2>3, <3>1, <3>2
  <2>21. CASE WorkerUnlocks(c)
    <3>1. call'[c] \in CallState /\ call' = [call EXCEPT ![c] = call'[c]]
      BY <2>21, <2>2 DEF WorkerUnlocks, CallState
    <3>2. CallInv(c)'
      BY <2>21, <2>2
         DEF WorkerUnlocks, CallState, CallInv, RefsCount, CallerHolds, WorkerHolds, PostedOnce,
             WrittenByWrapper, OrderedByPromise
    <3>3. QED
      BY <2>3, <3>1, <3>2
  <2>22. QED
    BY <2>1, <2>4, <2>5, <2>6, <2>7, <2>8, <2>9, <2>10, <2>11, <2>12, <2>13, <2>14,
       <2>15, <2>16, <2>17, <2>18, <2>19, <2>20, <2>21
       DEF CallerNext, WrapperNext
<1>3. QED
  BY <1>1, <1>2

\* The invariant holds in every reachable state.
THEOREM WaitInvariance == WaitSpec => []WaitInv
BY WaitInitInv, WaitNextInv, PTL DEF WaitSpec

\* Every field of a call stays in its range: in particular the mutex never has
\* more than two owners, nor fewer than none.
THEOREM WaitTypeCorrect == WaitSpec => []WaitTypeOK
<1>1. WaitInv => WaitTypeOK
  BY DEF WaitInv
<1>2. QED
  BY <1>1, WaitInvariance, PTL

\* A wait without a timeout returns only after its wrapper is through, and the
\* wrapper has used no local of the caller that was gone: event_loop::wait and
\* wait_result are synchronous calls whatever else shares the loop.
THEOREM EndlessWaits == WaitSpec => []EndlessIsSynchronous
<1>1. WaitInv => EndlessIsSynchronous
  BY DEF WaitInv, CallInv, OrderedByPromise, EndlessIsSynchronous
<1>2. QED
  BY <1>1, WaitInvariance, PTL

\* A wait returns what its callback produced, or, with a timeout only, the
\* initial outcome, which it does not when it has seen the promise fulfilled.
THEOREM HonestReturns == WaitSpec => ReturnIsHonest
<1> DEFINE Called(c) == call[c].worker \notin {"none", "queued", "running"}
           Honest(c) == call[c].ret = "none" =>
              /\ call'[c].ret = "set" => Called(c) /\ ~call[c].threw
              /\ call'[c].ret = "throw" => Called(c) /\ call[c].threw
              /\ call'[c].ret = "initial" => call[c].promise # "value"
<1>1. ASSUME WaitInv, WaitNext, NEW c \in Calls PROVE Honest(c)
  <2> USE <1>1 DEF WaitInv, CallInv, WaitTypeOK, CallState, WrittenByWrapper
  <2>1. CASE Ready(c)
    BY <2>1 DEF Ready
  <2>2. CASE CallerLocks(c)
    BY <2>2 DEF CallerLocks
  <2>3. CASE ~Ready(c) /\ ~CallerLocks(c)
    <3> SUFFICES call'[c].ret = call[c].ret
      OBVIOUS
    <3>1. PICK d \in Calls :
            \/ Begin(d) \/ CallerNext(d) \/ WrapperNext(d)
            \/ WorkerEnters(d) \/ WorkerSkips(d)
            \/ CallbackEnds(d) \/ EndlessResultEnds(d) \/ EndlessEnds(d)
      BY <1>1 DEF WaitNext
    <3>2. CASE Begin(d) \/ WorkerEnters(d) \/ WorkerSkips(d)
      BY <3>2 DEF Begin, WorkerEnters, WorkerSkips
    <3>3. CASE CallbackEnds(d) \/ EndlessResultEnds(d) \/ EndlessEnds(d)
      <4>1. CASE CallbackEnds(d)
        BY <4>1 DEF CallbackEnds
      <4>2. CASE EndlessResultEnds(d)
        BY <4>2 DEF EndlessResultEnds
      <4>3. CASE EndlessEnds(d)
        BY <4>3 DEF EndlessEnds
      <4>4. QED
        BY <3>3, <4>1, <4>2, <4>3
    <3>4. CASE CallerNext(d)
      <4>1. CASE Ready(d) \/ CallerLocks(d)
        BY <4>1, <2>3 DEF Ready, CallerLocks
      <4>2. CASE Timeout(d) \/ CallerUnlocks(d) \/ LeaveFirst(d) \/ LeaveLast(d)
        BY <4>2 DEF Timeout, CallerUnlocks, LeaveFirst, LeaveLast
      <4>3. QED
        BY <3>4, <4>1, <4>2 DEF CallerNext
    <3>5. CASE WrapperNext(d)
      BY <3>5 DEF WrapperNext, WorkerLocks, WorkerSeesCaller, WorkerSeesNoCaller,
                  WorkerWrites, WorkerSets, WorkerUnlocks
    <3>6. QED
      BY <3>1, <3>2, <3>3, <3>4, <3>5
  <2>4. QED
    BY <2>1, <2>2, <2>3
<1>2. WaitInv /\ [WaitNext]_call => [\A c \in Calls : Honest(c)]_call
  BY <1>1
<1>3. QED
  BY <1>2, WaitInvariance, PTL DEF WaitSpec, ReturnIsHonest
=============================================================================
