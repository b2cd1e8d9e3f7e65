------------------------- MODULE ApplicationProofs -------------------------
(***************************************************************************)
(* Proofs about MainLoop, and about Application, which runs it, for any    *)
(* finite set of clients and any bounds.                                   *)
(***************************************************************************)
EXTENDS Application, FiniteSetTheorems, TLAPS

(***************************************************************************)
(* The inductive invariant of the main loop, in parts                      *)
(***************************************************************************)
QueueJob == Jobs \cup {StartJob}

ServiceType == [q : Seq(QueueJob), timers : {{}}, stopped : BOOLEAN, work : BOOLEAN]

\* What is posted is a job, and a loop that is stopped was stopped by a callback.
LoopTypes ==
    /\ TypeOK
    /\ service \in ServiceType
    /\ \A c \in Clients : pc[c] = "enqueue" => call[c] \in Jobs
    /\ main = "stopping" => current.kind = "stop"

\* A loop that is running is in run() of the service it posts to.
Running ==
    /\ isRunning => main = "run" /\ ~onOld /\ service.work /\ ~service.stopped
    /\ service.stopped => main = "stopping"

LoopInv == LoopTypes /\ Running /\ QueueSizeAccounts

(***************************************************************************)
(* The inductive invariant of the application, in parts                    *)
(***************************************************************************)
AppTypes ==
    /\ app \in {"created", "ready", "init", "loop", "ended", "join", "notify", "exited", "crashed"}
    /\ sig \in SignalSteps
    /\ initiated \in BOOLEAN /\ terminating \in BOOLEAN
    /\ slot \in SignalData /\ pending \subseteq {"term", "usr"} /\ sent \in Nat
    /\ failing \in {"no", "caught"}
    /\ exitCode \in BOOLEAN /\ exitSub \in BOOLEAN /\ controlSub \in BOOLEAN
    /\ exitCalls \in {0, 1}
    /\ stopper \in Clients \cup {"none", "asked", "earlier"}

\* The main loop is in start() only in "loop", and a signal thread exists exactly
\* in a run.
Phases ==
    /\ app \notin {"loop", "crashed"} => main = "out" /\ ~isRunning
    /\ app \in {"created", "ready", "exited"} => sig = "none"
    /\ InRun => sig # "none"

\* The exit callbacks in a queue.
ExitIn(q) == {i \in 1 .. Len(q) : q[i].kind = "exit"}

\* There is one exit callback at most, which the signal thread has posted and waits
\* for; and the exit observers have not been notified while there is one.
ExitPosted ==
    /\ \A c \in Clients : pc[c] = "enqueue" /\ call[c].kind = "exit" =>
          c = Signal /\ sig = "exitPost"
    /\ pc[Signal] = "enqueue" => sig \in {"control", "exitPost", "stopPost"}
    /\ ExitIn(service.q) # {} => sig = "exitWait" /\ exitCalls = 0 /\ current.kind # "exit"
    /\ \A i, j \in ExitIn(service.q) : i = j
    /\ current.kind = "exit" => sig = "exitWait" /\ exitCalls = 0
    /\ exitCalls # 0 => sig \in {"none", "exitWait", "stop", "stopPost", "ended"}

\* The signal thread says so before it handles an exit signal; run() is to notify
\* the exit observers only if it has not.
Terminating ==
    /\ sig \in {"exit", "exitPost", "exitWait", "stop", "stopPost", "ended"} => terminating
    /\ app = "notify" =>
          exitCalls = 0 /\ sig \notin {"exitPost", "exitWait", "stop", "stopPost"}

\* Without a signal from outside there is only the one that run() sends, after
\* the loop, to end the signal thread.
Unsignalled ==
    /\ sent = 0 =>
          /\ failing = "no" /\ pending \subseteq {"term"}
          /\ \/ sig \in {"none", "started", "wait"}
             \/ app = "notify" /\ sig \in {"handle", "exit", "ended"} /\ pending = {}
          /\ pending # {} \/ terminating => app = "notify"
          /\ sig = "handle" => slot = "exit"
    /\ app = "join" => sent # 0

\* This run's signal thread asks for the stop only when the exit observers have been
\* notified.
StopAsked ==
    InRun /\ exitSub /\ (stopper \in {Signal, "asked"} \/ sig \in {"stop", "stopPost"})
       => exitCalls # 0

AppInv == /\ AppTypes /\ Phases /\ ExitPosted
          /\ Terminating /\ Unsignalled /\ StopAsked

IInv == LoopInv /\ AppInv

(***************************************************************************)
(* Arithmetic modulo the width of _queue_size                              *)
(***************************************************************************)

\* The quotient and the remainder of a division.
LEMMA Division ==
    ASSUME NEW x \in Int
    PROVE  /\ x % QueueModulus \in 0 .. QueueModulus - 1
           /\ x \div QueueModulus \in Int
           /\ x = ((x \div QueueModulus) * QueueModulus) + (x % QueueModulus)
BY QueueModulusAssumption

\* A positive multiple of the modulus is not below the modulus.
LEMMA MultipleBound ==
    ASSUME NEW k \in Int, k >= 1
    PROVE  k * QueueModulus >= QueueModulus
BY QueueModulusAssumption

\* The remainder is unique.
LEMMA RemainderUnique ==
    ASSUME NEW k \in Int, NEW r \in 0 .. QueueModulus - 1,
           NEW l \in Int, NEW s \in 0 .. QueueModulus - 1,
           k * QueueModulus + r = l * QueueModulus + s
    PROVE  r = s
<1>1. (k - l) * QueueModulus = s - r /\ (l - k) * QueueModulus = r - s
  BY QueueModulusAssumption
<1>2. CASE k - l >= 1
  BY <1>1, <1>2, MultipleBound, QueueModulusAssumption
<1>3. CASE l - k >= 1
  BY <1>1, <1>3, MultipleBound, QueueModulusAssumption
<1>4. CASE k = l
  BY <1>1, <1>4, QueueModulusAssumption
<1>5. QED
  BY <1>2, <1>3, <1>4

\* Counting on a wrapped counter wraps like counting on the number itself.
LEMMA CountWraps ==
    ASSUME NEW x \in Int, NEW n \in Int
    PROVE  ((x % QueueModulus) + n) % QueueModulus = (x + n) % QueueModulus
<1> DEFINE y == (x % QueueModulus) + n
           z == x + n
<1>1. y \in Int /\ z \in Int
  BY Division, QueueModulusAssumption
<1>2. /\ y = ((y \div QueueModulus) * QueueModulus) + (y % QueueModulus)
      /\ y % QueueModulus \in 0 .. QueueModulus - 1 /\ y \div QueueModulus \in Int
  BY <1>1, Division
<1>3. /\ z = ((z \div QueueModulus) * QueueModulus) + (z % QueueModulus)
      /\ z % QueueModulus \in 0 .. QueueModulus - 1 /\ z \div QueueModulus \in Int
  BY <1>1, Division
<1>4. /\ x = ((x \div QueueModulus) * QueueModulus) + (x % QueueModulus)
      /\ x % QueueModulus \in 0 .. QueueModulus - 1 /\ x \div QueueModulus \in Int
  BY Division
<1>5. (((x \div QueueModulus) + (y \div QueueModulus)) * QueueModulus) + (y % QueueModulus)
        = ((z \div QueueModulus) * QueueModulus) + (z % QueueModulus)
  BY <1>2, <1>3, <1>4, QueueModulusAssumption
<1>6. QED
  BY <1>2, <1>3, <1>4, <1>5, RemainderUnique

(***************************************************************************)
(* The main loop                                                           *)
(***************************************************************************)

\* Any step of the loop or its users, with the jobs that an application posts.
LoopNext == \/ MainNext
            \/ \E c \in Clients : Enqueue(c) \/ \E kind \in Kinds \cup SignalKinds : Register(c, kind)

\* The start lambda and the absent callback are not jobs of clients.
LEMMA JobsDiffer ==
    /\ StartJob \notin Jobs /\ NoJob \notin QueueJob /\ StartJob # NoJob
    /\ StartJob.kind = "start" /\ NoJob.kind = "none"
    /\ \A j \in Jobs : j.by \in Clients /\ j.n \in 1 .. MaxPosts /\ j.kind \in Kinds \cup SignalKinds
BY DEF StartJob, NoJob, Jobs, QueueJob, Kinds, SignalKinds

\* What the accounting adds up is finite.
LEMMA SummandsFinite ==
    ASSUME LoopTypes
    PROVE  /\ IsFiniteSet(Pending) /\ Cardinality(Pending) \in 0 .. Cardinality(Clients)
           /\ Cardinality(Clients) \in Nat /\ Len(service.q) \in Nat /\ service.q \in Seq(QueueJob)
           /\ wiped \in Nat /\ queueSize \in Int /\ Live \in Int
<1>1. Pending \subseteq Clients
  BY DEF Pending
<1>2. IsFiniteSet(Pending) /\ Cardinality(Pending) <= Cardinality(Clients)
  BY <1>1, ClientsFinite, FS_Subset
<1>3. Cardinality(Pending) \in Nat /\ Cardinality(Clients) \in Nat
  BY <1>2, ClientsFinite, FS_CardinalityType
<1>4. service.q \in Seq(QueueJob)
  BY DEF LoopTypes, ServiceType
<1>5. wiped \in Nat /\ queueSize \in Int
  BY <1>3, QueueModulusAssumption DEF LoopTypes, TypeOK
<1>6. Live \in Int
  BY <1>3, <1>4 DEF Live
<1>7. QED
  BY <1>2, <1>3, <1>4, <1>5, <1>6

\* A step that counts what it adds to the callbacks keeps the account.
LEMMA AccountsStep ==
    ASSUME LoopTypes, QueueSizeAccounts, NEW n \in Int,
           queueSize' = (queueSize + n) % QueueModulus,
           (Live - wiped)' = (Live - wiped) + n
    PROVE  QueueSizeAccounts'
<1>1. Live - wiped \in Int
  BY SummandsFinite
<1>2. queueSize = (Live - wiped) % QueueModulus
  BY DEF QueueSizeAccounts
<1>3. (((Live - wiped) % QueueModulus) + n) % QueueModulus = ((Live - wiped) + n) % QueueModulus
  BY <1>1, CountWraps
<1>4. QED
  BY <1>2, <1>3 DEF QueueSizeAccounts

\* The counter keeps its type.
LEMMA CountType ==
    ASSUME NEW n \in Int, queueSize \in Int, CountQueue(n)
    PROVE  queueSize' \in 0 .. QueueModulus - 1
<1>1. queueSize + n \in Int
  OBVIOUS
<1>2. QED
  BY <1>1, Division DEF CountQueue

\* Another queue in a service.
LEMMA QueueReplaced ==
    ASSUME NEW s \in ServiceType, NEW r \in Seq(QueueJob)
    PROVE  /\ [s EXCEPT !.q = r] \in ServiceType
           /\ [s EXCEPT !.q = r].q = r
           /\ [s EXCEPT !.q = r].stopped = s.stopped /\ [s EXCEPT !.q = r].work = s.work
BY DEF ServiceType

\* What is posted joins the queue.
LEMMA PostedFacts ==
    ASSUME NEW s \in ServiceType, NEW j \in QueueJob
    PROVE  /\ Posted(s, j) \in ServiceType
           /\ Posted(s, j).stopped = s.stopped /\ Posted(s, j).work = s.work
           /\ Posted(s, j).q = Append(s.q, j) /\ Len(Posted(s, j).q) = Len(s.q) + 1
<1>1. s.q \in Seq(QueueJob)
  BY DEF ServiceType
<1> DEFINE r == Append(s.q, j)
<1>2. r \in Seq(QueueJob) /\ Len(r) = Len(s.q) + 1
  BY <1>1
<1>3. Posted(s, j) = [s EXCEPT !.q = r]
  BY DEF Posted, ServiceType
<1> HIDE DEF r
<1>4. /\ Posted(s, j) \in ServiceType /\ Posted(s, j).q = r
      /\ Posted(s, j).stopped = s.stopped /\ Posted(s, j).work = s.work
  BY <1>2, <1>3, QueueReplaced
<1>5. QED
  BY <1>2, <1>4 DEF r

\* What is taken leaves it.
LEMMA TakenFacts ==
    ASSUME NEW s \in ServiceType, s.q # <<>>
    PROVE  /\ Taken(s) \in ServiceType
           /\ Taken(s).stopped = s.stopped /\ Taken(s).work = s.work
           /\ Taken(s).q = Tail(s.q) /\ Len(Taken(s).q) = Len(s.q) - 1
           /\ Head(s.q) \in QueueJob /\ Head(s.q) = s.q[1]
<1>1. s.q \in Seq(QueueJob)
  BY DEF ServiceType
<1> DEFINE r == Tail(s.q)
<1>2. /\ r \in Seq(QueueJob) /\ Len(r) = Len(s.q) - 1
      /\ Head(s.q) \in QueueJob /\ Head(s.q) = s.q[1]
  BY <1>1
<1>3. Taken(s) = [s EXCEPT !.q = r]
  BY DEF Taken, ServiceType
<1> HIDE DEF r
<1>4. /\ Taken(s) \in ServiceType /\ Taken(s).q = r
      /\ Taken(s).stopped = s.stopped /\ Taken(s).work = s.work
  BY <1>2, <1>3, QueueReplaced
<1>5. QED
  BY <1>2, <1>4 DEF r

\* A fresh service has nothing to do.
LEMMA FreshFacts ==
    /\ FreshService \in ServiceType /\ FreshService.q = <<>> /\ Len(FreshService.q) = 0
    /\ FreshService.stopped = FALSE /\ FreshService.work = FALSE
BY DEF FreshService, ServiceType

\* A constructed loop satisfies the invariant.
LEMMA InitLoopInv == Init => LoopInv
<1> SUFFICES ASSUME Init PROVE LoopInv
  OBVIOUS
<1>1. Pending = {} /\ Cardinality(Pending) = 0 /\ Cardinality(Clients) \in Nat
  <2>1. Pending = {}
    BY DEF Init, Pending
  <2>2. QED
    BY <2>1, FS_EmptySet, ClientsFinite, FS_CardinalityType
<1>2. service = FreshService /\ current = NoJob /\ wiped = 0 /\ queueSize = 0 /\ isRunning = FALSE
  BY DEF Init, InitBase
<1>3. LoopTypes
  <2>1. TypeOK
    <3>1. queueSize \in 0 .. QueueModulus - 1 /\ wiped \in 0 .. Cardinality(Clients) + 1
      BY <1>1, <1>2, QueueModulusAssumption
    <3>2. /\ starts \in 0 .. MaxStarts
          /\ pc \in [Clients -> {"idle", "enqueue"}] /\ call \in [Clients -> Jobs \cup {NoJob}]
      BY BoundsAssumption DEF Init
    <3>3. QED
      BY <1>2, <3>1, <3>2 DEF Init, TypeOK
  <2>2. QED
    BY <1>2, <2>1, FreshFacts DEF Init, LoopTypes
<1>4. Running
  BY <1>2, FreshFacts DEF Running
<1>5. QueueSizeAccounts
  <2>1. Live = 0
    BY <1>1, <1>2, FreshFacts DEF Live
  <2>2. 0 % QueueModulus = 0
    BY QueueModulusAssumption
  <2>3. QED
    BY <1>2, <2>1, <2>2 DEF QueueSizeAccounts
<1>6. QED
  BY <1>3, <1>4, <1>5 DEF LoopInv

\* Every step of the loop and of its users preserves the invariant.
LEMMA LoopNextInv == ASSUME LoopInv, LoopNext PROVE LoopInv'
<1>0. /\ TypeOK /\ service \in ServiceType /\ LoopTypes /\ Running /\ QueueSizeAccounts
      /\ queueSize \in Int
  BY SummandsFinite DEF LoopInv, LoopTypes
<1>1. /\ IsFiniteSet(Pending) /\ Cardinality(Pending) \in 0 .. Cardinality(Clients)
      /\ Cardinality(Clients) \in Nat /\ Len(service.q) \in Nat
      /\ wiped \in Nat /\ Live \in Int
  BY <1>0, SummandsFinite
<1>2. CASE Start
  <2>0. /\ main = "out" /\ ~isRunning /\ starts < MaxStarts /\ isRunning' = TRUE
        /\ service' = Posted([service EXCEPT !.work = TRUE], StartJob) /\ CountQueue(1)
        /\ main' = "run" /\ onOld' = FALSE /\ starts' = starts + 1
        /\ UNCHANGED <<isRun, current, pc, call, wiped>>
    BY <1>2 DEF Start, clientVars
  <2> DEFINE s == [service EXCEPT !.work = TRUE]
  <2>1. s \in ServiceType /\ s.q = service.q /\ s.work = TRUE /\ s.stopped = service.stopped
    BY <1>0 DEF ServiceType
  <2> HIDE DEF s
  <2>2. /\ service' \in ServiceType /\ Len(service'.q) = Len(service.q) + 1
        /\ service'.work = TRUE /\ service'.stopped = service.stopped
    <3>1. StartJob \in QueueJob /\ service' = Posted(s, StartJob)
      BY <2>0 DEF s, QueueJob
    <3>2. QED
      BY <2>1, <3>1, PostedFacts
  <2>3. LoopTypes'
    <3>1. queueSize' \in 0 .. QueueModulus - 1
      BY <1>0, <2>0, CountType
    <3>2. starts' \in 0 .. MaxStarts
      BY <1>0, <2>0, BoundsAssumption DEF TypeOK
    <3>3. QED
      BY <1>0, <2>0, <2>2, <3>1, <3>2 DEF LoopTypes, TypeOK
  <2>4. Running'
    BY <1>0, <2>0, <2>2 DEF Running
  <2>5. Pending' = Pending
    BY <2>0 DEF Pending
  <2>6. (Live - wiped)' = (Live - wiped) + 1
    <3>1. current' = current /\ wiped' = wiped
      BY <2>0
    <3>2. Live' = Live + 1
      BY <1>1, <2>2, <2>5, <3>1 DEF Live
    <3>3. QED
      BY <1>1, <3>1, <3>2
  <2>7. QED
    BY <1>0, <2>0, <2>3, <2>4, <2>6, AccountsStep DEF LoopInv, CountQueue
<1>3. CASE Take
  <2>0. /\ main = "run" /\ ~onOld /\ current = NoJob /\ service.q # <<>>
        /\ current' = Head(service.q) /\ service' = Taken(service)
        /\ isRun' = (isRun \/ current' = StartJob)
        /\ UNCHANGED <<isRunning, queueSize, main, onOld, starts, pc, call, wiped>>
    BY <1>3 DEF Take, CanTake, clientVars
  <2>1. /\ service' \in ServiceType /\ Len(service'.q) = Len(service.q) - 1
        /\ service'.work = service.work /\ service'.stopped = service.stopped
        /\ current' \in QueueJob /\ current' # NoJob
    <3>1. /\ service' \in ServiceType /\ Len(service'.q) = Len(service.q) - 1
          /\ service'.work = service.work /\ service'.stopped = service.stopped
          /\ current' \in QueueJob
      BY <1>0, <2>0, TakenFacts
    <3>2. QED
      BY <3>1, JobsDiffer
  <2>2. isRun' \in BOOLEAN
    BY <2>0, Zenon
  <2>3. LoopTypes'
    BY <1>0, <2>0, <2>1, <2>2 DEF LoopTypes, TypeOK, QueueJob
  <2>4. Running'
    BY <1>0, <2>0, <2>1 DEF Running
  <2>5. Pending' = Pending
    BY <2>0 DEF Pending
  <2>6. (Live - wiped)' = (Live - wiped) + 0
    BY <1>1, <2>0, <2>1, <2>5 DEF Live
  <2>7. QueueSizeAccounts'
    BY <1>0, <1>1, <2>0, <2>6 DEF QueueSizeAccounts
  <2>8. QED
    BY <2>3, <2>4, <2>7 DEF LoopInv
<1>4. CASE StopLoop
  <2>0. /\ main = "run" /\ current.kind = "stop" /\ isRunning /\ isRunning' = FALSE
        /\ service' = [service EXCEPT !.work = FALSE, !.stopped = TRUE] /\ main' = "stopping"
        /\ UNCHANGED <<queueSize, isRun, onOld, current, starts, pc, call, wiped>>
    BY <1>4 DEF StopLoop, stop_loop, clientVars
  <2>1. /\ service' \in ServiceType /\ service'.q = service.q /\ service'.stopped = TRUE
        /\ service'.work = FALSE
    BY <1>0, <2>0 DEF ServiceType
  <2>2. LoopTypes'
    BY <1>0, <2>0, <2>1 DEF LoopTypes, TypeOK
  <2>3. Running'
    BY <2>0, <2>1 DEF Running
  <2>4. Pending' = Pending
    BY <2>0 DEF Pending
  <2>5. QueueSizeAccounts'
    BY <1>0, <2>0, <2>1, <2>4 DEF QueueSizeAccounts, Live
  <2>6. QED
    BY <2>2, <2>3, <2>5 DEF LoopInv
<1>5. CASE StopReset
  <2>0. /\ main = "stopping" /\ main' = "run" /\ isRunning' = FALSE
        /\ service' = FreshService /\ queueSize' = 0 /\ onOld' = TRUE /\ isRun' = FALSE
        /\ wiped' = Cardinality(Pending) + 1
        /\ UNCHANGED <<current, starts, pc, call>>
    BY <1>5 DEF StopReset, reset, clientVars
  <2>1. current # NoJob
    BY <1>0, <2>0, JobsDiffer DEF LoopTypes
  <2>2. LoopTypes'
    <3>1. wiped' \in 0 .. Cardinality(Clients) + 1 /\ queueSize' \in 0 .. QueueModulus - 1
      BY <1>1, <2>0, QueueModulusAssumption
    <3>2. QED
      BY <1>0, <2>0, <3>1, FreshFacts DEF LoopTypes, TypeOK
  <2>3. Running'
    BY <2>0, FreshFacts DEF Running
  <2>4. QueueSizeAccounts'
    <3>1. Pending' = Pending
      BY <2>0 DEF Pending
    <3>2. Live' - wiped' = 0
      BY <1>1, <2>0, <2>1, <3>1, FreshFacts DEF Live
    <3>3. 0 % QueueModulus = 0
      BY QueueModulusAssumption
    <3>4. QED
      BY <2>0, <3>2, <3>3 DEF QueueSizeAccounts
  <2>5. QED
    BY <2>2, <2>3, <2>4 DEF LoopInv
<1>6. CASE Finish
  <2>0. /\ main = "run" /\ current # NoJob /\ current' = NoJob /\ CountQueue(-1)
        /\ UNCHANGED <<isRunning, service, isRun, main, onOld, starts, pc, call, wiped>>
    BY <1>6 DEF Finish, clientVars
  <2>1. LoopTypes'
    <3>1. queueSize' \in 0 .. QueueModulus - 1
      BY <1>0, <2>0, CountType
    <3>2. QED
      BY <1>0, <2>0, <3>1 DEF LoopTypes, TypeOK
  <2>2. Running'
    BY <1>0, <2>0 DEF Running
  <2>3. Pending' = Pending
    BY <2>0 DEF Pending
  <2>4. (Live - wiped)' = (Live - wiped) + (-1)
    BY <1>1, <2>0, <2>3 DEF Live
  <2>5. QED
    BY <1>0, <2>0, <2>1, <2>2, <2>4, AccountsStep DEF LoopInv, CountQueue
<1>7. CASE RunReturn \/ NotifyStop
  <2>0. /\ UNCHANGED <<isRunning, queueSize, service, isRun, onOld, current, starts, pc, call, wiped>>
        /\ \/ main = "run" /\ main' = "notify" /\ (onOld \/ RunReturns(service))
           \/ main = "notify" /\ main' = "out"
    BY <1>7 DEF RunReturn, NotifyStop, baseVars, clientVars
  <2>1. LoopTypes'
    BY <1>0, <2>0 DEF LoopTypes, TypeOK
  <2>2. Running'
    BY <1>0, <2>0 DEF Running, RunReturns
  <2>3. Pending' = Pending
    BY <2>0 DEF Pending
  <2>4. QueueSizeAccounts'
    BY <1>0, <2>0, <2>3 DEF QueueSizeAccounts, Live
  <2>5. QED
    BY <2>1, <2>2, <2>4 DEF LoopInv
<1>8. ASSUME NEW c \in Clients, Enqueue(c) PROVE LoopInv'
  <2>0. /\ pc[c] = "enqueue" /\ pc' = [pc EXCEPT ![c] = "idle"]
        /\ service' = Posted(service, call[c])
        /\ UNCHANGED <<isRunning, queueSize, isRun, main, onOld, current, starts, call, wiped>>
    BY <1>8 DEF Enqueue, loopVars
  <2>1. /\ service' \in ServiceType /\ Len(service'.q) = Len(service.q) + 1
        /\ service'.work = service.work /\ service'.stopped = service.stopped
    <3>1. call[c] \in QueueJob
      BY <1>0, <2>0 DEF LoopTypes, QueueJob
    <3>2. QED
      BY <1>0, <2>0, <3>1, PostedFacts
  <2>2. /\ pc' \in [Clients -> {"idle", "enqueue"}]
        /\ \A d \in Clients : pc'[d] = "enqueue" => pc[d] = "enqueue"
        /\ Pending' = Pending \ {c} /\ c \in Pending
    BY <1>0, <2>0 DEF TypeOK, Pending
  <2>3. LoopTypes'
    BY <1>0, <2>0, <2>1, <2>2 DEF LoopTypes, TypeOK
  <2>4. Running'
    BY <1>0, <2>0, <2>1 DEF Running
  <2>5. Cardinality(Pending') = Cardinality(Pending) - 1
    BY <1>1, <2>2, FS_RemoveElement
  <2>6. (Live - wiped)' = (Live - wiped) + 0
    BY <1>1, <2>0, <2>1, <2>5 DEF Live
  <2>7. QueueSizeAccounts'
    BY <1>0, <1>1, <2>0, <2>6 DEF QueueSizeAccounts
  <2>8. QED
    BY <2>3, <2>4, <2>7 DEF LoopInv
<1>9. ASSUME NEW c \in Clients, NEW kind \in Kinds \cup SignalKinds, Register(c, kind) PROVE LoopInv'
  <2> DEFINE j == [by |-> c, n |-> call[c].n + 1, kind |-> kind]
  <2>0. /\ pc[c] = "idle" /\ call[c].n < MaxPosts /\ call' = [call EXCEPT ![c] = j]
        /\ pc' = [pc EXCEPT ![c] = "enqueue"] /\ CountQueue(1)
        /\ UNCHANGED <<isRunning, service, isRun, main, onOld, current, starts, wiped>>
    BY <1>0, <1>9 DEF Register, loopVars, TypeOK
  <2>1. j \in Jobs
    <3>1. call[c].n \in Nat
      BY <1>0, JobsDiffer DEF TypeOK, NoJob
    <3>2. call[c].n + 1 \in 1 .. MaxPosts
      BY <2>0, <3>1, BoundsAssumption
    <3>3. QED
      BY <3>2 DEF Jobs
  <2> HIDE DEF j
  <2>2. /\ pc' \in [Clients -> {"idle", "enqueue"}] /\ call' \in [Clients -> Jobs \cup {NoJob}]
        /\ Pending' = Pending \cup {c} /\ c \notin Pending
    BY <1>0, <2>0, <2>1 DEF TypeOK, Pending
  <2>3. \A d \in Clients : pc'[d] = "enqueue" => call'[d] \in Jobs
    BY <1>0, <2>0, <2>1 DEF LoopTypes, TypeOK
  <2>4. LoopTypes'
    <3>1. queueSize' \in 0 .. QueueModulus - 1
      BY <1>0, <2>0, CountType
    <3>2. QED
      BY <1>0, <2>0, <2>2, <2>3, <3>1 DEF LoopTypes, TypeOK
  <2>5. Running'
    BY <1>0, <2>0 DEF Running
  <2>6. Cardinality(Pending') = Cardinality(Pending) + 1
    BY <1>1, <2>2, FS_AddElement
  <2>7. (Live - wiped)' = (Live - wiped) + 1
    <3>1. current' = current /\ wiped' = wiped /\ service' = service
      BY <2>0
    <3>2. Live' = Live + 1
      BY <1>1, <2>6, <3>1 DEF Live
    <3>3. QED
      BY <1>1, <3>1, <3>2
  <2>8. QED
    BY <1>0, <2>0, <2>4, <2>5, <2>7, AccountsStep DEF LoopInv, CountQueue
<1>10. QED
  BY <1>2, <1>3, <1>4, <1>5, <1>6, <1>7, <1>8, <1>9 DEF LoopNext, MainNext

\* A step of others leaves the loop as it is.
LEMMA LoopStutters == ASSUME LoopInv, UNCHANGED vars PROVE LoopInv'
<1>1. /\ UNCHANGED <<isRunning, queueSize, service, isRun, main, onOld, current, starts>>
      /\ UNCHANGED <<pc, call, wiped>>
  BY DEF vars, baseVars, loopVars, clientVars
<1>2. LoopTypes' /\ Running'
  BY <1>1 DEF LoopInv, LoopTypes, TypeOK, Running
<1>3. QueueSizeAccounts'
  BY <1>1 DEF LoopInv, QueueSizeAccounts, Live, Pending
<1>4. QED
  BY <1>2, <1>3 DEF LoopInv

\* The invariant holds of a main loop that is used without an application.
THEOREM LoopInvariance == Spec => []LoopInv
<1>1. LoopInv /\ [Next]_vars => LoopInv'
  <2> SUFFICES ASSUME LoopInv, [Next]_vars PROVE LoopInv'
    OBVIOUS
  <2>1. CASE UNCHANGED vars
    BY <2>1, LoopStutters
  <2>2. CASE Next
    <3>1. LoopNext
      BY <2>2 DEF Next, LoopNext
    <3>2. QED
      BY <3>1, LoopNextInv
  <2>3. QED
    BY <2>1, <2>2
<1>2. QED
  BY <1>1, InitLoopInv, PTL DEF Spec

\* _queue_size of a main loop is, modulo its width, the number of callbacks still to
\* be called, less those whose increment a reset() erased.
THEOREM MainLoopAccounting == Spec => []QueueSizeAccounts
<1>1. LoopInv => QueueSizeAccounts
  BY DEF LoopInv
<1>2. QED
  BY <1>1, LoopInvariance, PTL

(***************************************************************************)
(* The application                                                         *)
(***************************************************************************)
\* What the queue of a service has of exit callbacks.
LEMMA ExitInFacts ==
    ASSUME NEW q \in Seq(QueueJob)
    PROVE  /\ ExitIn(<<>>) = {}
           /\ \A j \in QueueJob : j.kind # "exit" => ExitIn(Append(q, j)) = ExitIn(q)
           /\ \A j \in QueueJob : ExitIn(q) = {} => \A i, k \in ExitIn(Append(q, j)) : i = k
           /\ q # <<>> => /\ \A i \in ExitIn(Tail(q)) : i + 1 \in ExitIn(q) /\ i \in Nat \ {0}
                          /\ Head(q).kind = "exit" => 1 \in ExitIn(q)
<1>1. ExitIn(<<>>) = {}
  BY DEF ExitIn
<1>2. ASSUME NEW j \in QueueJob
      PROVE  /\ j.kind # "exit" => ExitIn(Append(q, j)) = ExitIn(q)
             /\ ExitIn(q) = {} => \A i, k \in ExitIn(Append(q, j)) : i = k
  <2> DEFINE r == Append(q, j)
  <2>1. /\ Len(q) \in Nat /\ Len(r) = Len(q) + 1
        /\ r[Len(q) + 1] = j /\ \A i \in 1 .. Len(q) : r[i] = q[i]
    OBVIOUS
  <2> HIDE DEF r
  <2>2. \A i \in 1 .. Len(r) : i \in 1 .. Len(q) \/ i = Len(q) + 1
    BY <2>1
  <2>3. j.kind # "exit" => ExitIn(r) = ExitIn(q)
    BY <2>1, <2>2 DEF ExitIn
  <2>4. ExitIn(q) = {} => \A i \in ExitIn(r) : i = Len(q) + 1
    BY <2>1, <2>2 DEF ExitIn
  <2>5. QED
    BY <2>3, <2>4 DEF r
<1>3. ASSUME q # <<>>
      PROVE  /\ \A i \in ExitIn(Tail(q)) : i + 1 \in ExitIn(q) /\ i \in Nat \ {0}
             /\ Head(q).kind = "exit" => 1 \in ExitIn(q)
  <2> DEFINE r == Tail(q)
  <2>1. /\ Len(r) = Len(q) - 1 /\ Len(q) \in Nat \ {0} /\ Head(q) = q[1]
        /\ \A i \in 1 .. Len(r) : r[i] = q[i + 1]
    BY <1>3
  <2> HIDE DEF r
  <2>2. \A i \in ExitIn(r) : i + 1 \in ExitIn(q) /\ i \in Nat \ {0}
    BY <2>1 DEF ExitIn
  <2>3. Head(q).kind = "exit" => 1 \in ExitIn(q)
    BY <2>1 DEF ExitIn
  <2>4. QED
    BY <2>2, <2>3 DEF r
<1>4. QED
  BY <1>1, <1>2, <1>3

\* A step that posts, takes and runs no exit callback, of threads that stay where
\* they are.
LEMMA ExitPostedKept ==
    ASSUME ExitPosted, UNCHANGED <<sig, exitCalls>>,
           ExitIn(service'.q) \in {ExitIn(service.q), {}},
           current'.kind = "exit" => current.kind = "exit",
           pc'[Signal] = "enqueue" => pc[Signal] = "enqueue",
           \A c \in Clients : pc'[c] = "enqueue" /\ call'[c].kind = "exit" =>
              pc[c] = "enqueue" /\ call[c].kind = "exit"
    PROVE  ExitPosted'
BY DEF ExitPosted

\* What the parts of the invariant depend on in the main loop.
LEMMA VarsUnchanged ==
    ASSUME UNCHANGED vars
    PROVE  UNCHANGED <<isRunning, queueSize, service, isRun, main, onOld, current, starts,
                       pc, call, wiped>>
BY DEF vars, baseVars, loopVars, clientVars

\* An application that was constructed satisfies the invariant.
LEMMA InitAppInv == AppInit => AppInv
<1> SUFFICES ASSUME AppInit PROVE AppInv
  OBVIOUS
<1>1. /\ service = FreshService /\ current = NoJob /\ isRunning = FALSE /\ main = "out"
      /\ \A c \in Clients : pc[c] = "idle"
  BY DEF AppInit, Init, InitBase
<1>2. AppTypes /\ Phases /\ Terminating /\ Unsignalled /\ StopAsked
  BY <1>1 DEF AppInit, AppTypes, SignalSteps, SignalData, Phases, InRun, Terminating, Unsignalled,
              StopAsked
<1>3. ExitIn(service.q) = {} /\ current.kind = "none"
  BY <1>1, FreshFacts, JobsDiffer DEF ExitIn
<1>4. ExitPosted
  BY <1>1, <1>3, ClientsAssumption DEF AppInit, ExitPosted
<1>5. QED
  BY <1>2, <1>4 DEF AppInv

\* Steps of an application while the main loop does nothing: before, after and
\* around the loop.
LEMMA OutsideInv ==
    ASSUME IInv, UNCHANGED vars,
           init \/ on_exit \/ on_control \/ Run \/ AfterLoop \/ Return
    PROVE  AppInv'
<1>0. /\ AppTypes /\ Phases /\ ExitPosted /\ Terminating /\ Unsignalled /\ StopAsked
      /\ UNCHANGED <<isRunning, service, main, current, pc, call>>
  BY VarsUnchanged DEF IInv, AppInv
<1>1. CASE init \/ on_exit \/ on_control
  <2>1. AppTypes'
    BY <1>0, <1>1 DEF init, on_exit, on_control, AppTypes
  <2>2. Phases' /\ Terminating' /\ Unsignalled' /\ StopAsked'
    BY <1>0, <1>1 DEF init, on_exit, on_control, Phases, InRun, Terminating, Unsignalled, StopAsked
  <2>3. ExitPosted'
    BY <1>0, <1>1, ExitPostedKept DEF init, on_exit, on_control
  <2>4. QED
    BY <2>1, <2>2, <2>3 DEF AppInv
<1>2. CASE Run
  <2>1. AppTypes'
    BY <1>0, <1>2 DEF Run, AppTypes, SignalSteps
  <2>2. Phases' /\ Terminating' /\ Unsignalled' /\ StopAsked'
    BY <1>0, <1>2, ClientsAssumption DEF Run, Phases, InRun, Terminating, Unsignalled, StopAsked, Signal
  <2>3. ExitPosted'
    BY <1>0, <1>2 DEF Run, ExitPosted, Phases
  <2>4. QED
    BY <2>1, <2>2, <2>3 DEF AppInv
<1>3. CASE AfterLoop
  <2>1. AppTypes'
    BY <1>0, <1>3 DEF AfterLoop, AppTypes
  <2>2. Phases' /\ StopAsked'
    BY <1>0, <1>3 DEF AfterLoop, Phases, InRun, StopAsked
  <2>3. ~terminating => exitCalls = 0
    BY <1>0, <1>3 DEF AfterLoop, AppTypes, Phases, InRun, ExitPosted, Terminating
  <2>4. Terminating'
    BY <1>0, <1>3, <2>3 DEF AfterLoop, Terminating
  <2>5. Unsignalled'
    BY <1>0, <1>3 DEF AfterLoop, Unsignalled
  <2>6. ExitPosted'
    BY <1>0, <1>3, ExitPostedKept DEF AfterLoop
  <2>7. QED
    BY <2>1, <2>2, <2>4, <2>5, <2>6 DEF AppInv
<1>4. CASE Return
  <2>1. AppTypes'
    <3>1. exitCalls' \in {0, 1}
      BY <1>0, <1>4 DEF Return, NotifyExit, AppTypes, Terminating
    <3>2. /\ app' \in {"exited", "ready"} /\ sig' = "none" /\ initiated' = FALSE
          /\ terminating' = FALSE
          /\ UNCHANGED <<slot, pending, sent, failing, exitCode, exitSub, controlSub, stopper>>
      BY <1>4 DEF Return
    <3>3. QED
      BY <1>0, <3>1, <3>2 DEF AppTypes, SignalSteps
  <2>2. Phases' /\ Terminating' /\ Unsignalled' /\ StopAsked'
    BY <1>0, <1>4 DEF Return, Phases, InRun, Terminating, Unsignalled, StopAsked
  <2>3. ExitPosted'
    BY <1>0, <1>4 DEF Return, ExitPosted
  <2>4. QED
    BY <2>1, <2>2, <2>3 DEF AppInv
<1>5. QED
  BY <1>1, <1>2, <1>3, <1>4

\* What a client puts into the queue is an exit callback only if it called for one.
LEMMA EnqueueFacts ==
    ASSUME LoopInv, NEW c \in Clients, Enqueue(c)
    PROVE  /\ pc[c] = "enqueue" /\ call[c] \in QueueJob /\ pc'[c] = "idle"
           /\ \A d \in Clients \ {c} : pc'[d] = pc[d]
           /\ service.q \in Seq(QueueJob) /\ service'.q = Append(service.q, call[c])
           /\ UNCHANGED <<isRunning, main, current, call>>
<1>1. /\ pc[c] = "enqueue" /\ pc' = [pc EXCEPT ![c] = "idle"] /\ service' = Posted(service, call[c])
      /\ UNCHANGED <<isRunning, main, current, call>>
  BY DEF Enqueue, loopVars
<1>2. /\ service \in ServiceType /\ service.q \in Seq(QueueJob) /\ call[c] \in QueueJob
      /\ pc \in [Clients -> {"idle", "enqueue"}]
  BY <1>1 DEF LoopInv, LoopTypes, TypeOK, ServiceType, QueueJob
<1>3. service'.q = Append(service.q, call[c])
  BY <1>1, <1>2, PostedFacts
<1>4. QED
  BY <1>1, <1>2, <1>3

\* What a client registers is the job of its call.
LEMMA RegisterFacts ==
    ASSUME LoopInv, NEW c \in Clients, NEW kind, Register(c, kind)
    PROVE  /\ pc[c] = "idle" /\ pc'[c] = "enqueue" /\ call'[c].kind = kind
           /\ \A d \in Clients \ {c} : pc'[d] = pc[d] /\ call'[d] = call[d]
           /\ UNCHANGED <<isRunning, service, main, current>>
<1>1. /\ pc[c] = "idle" /\ pc' = [pc EXCEPT ![c] = "enqueue"]
      /\ call' = [call EXCEPT ![c] = [by |-> c, n |-> @.n + 1, kind |-> kind]]
      /\ UNCHANGED <<isRunning, service, main, current>>
  BY DEF Register, loopVars
<1>2. /\ pc \in [Clients -> {"idle", "enqueue"}] /\ call \in [Clients -> Jobs \cup {NoJob}]
  BY DEF LoopInv, LoopTypes, TypeOK
<1>3. QED
  BY <1>1, <1>2

\* Steps of the main loop.
LEMMA LoopStepInv ==
    ASSUME IInv, EnterLoop \/ LoopStep \/ LoopStops \/ CallbackReturns \/ LeaveLoop
    PROVE  AppInv'
<1>0. /\ AppTypes /\ Phases /\ ExitPosted /\ Terminating /\ Unsignalled /\ StopAsked
      /\ LoopTypes /\ Running /\ service \in ServiceType /\ service.q \in Seq(QueueJob)
  BY DEF IInv, AppInv, LoopInv, LoopTypes, ServiceType
<1>1. CASE EnterLoop
  <2>0. /\ app = "init" /\ app' = "loop"
        /\ service' = Posted([service EXCEPT !.work = TRUE], StartJob)
        /\ UNCHANGED <<current, pc, call>>
        /\ UNCHANGED <<sig, initiated, terminating, slot, pending, sent, failing, exitCode,
                       exitSub, controlSub, exitCalls, stopper>>
    BY <1>1 DEF EnterLoop, Start, clientVars
  <2>1. AppTypes' /\ Phases' /\ Terminating' /\ Unsignalled' /\ StopAsked'
    BY <1>0, <2>0 DEF AppTypes, Phases, InRun, Terminating, Unsignalled, StopAsked
  <2>2. service'.q = Append(service.q, StartJob)
    <3> DEFINE s == [service EXCEPT !.work = TRUE]
    <3>1. s \in ServiceType /\ s.q = service.q /\ StartJob \in QueueJob
      BY <1>0 DEF ServiceType, QueueJob
    <3> HIDE DEF s
    <3>2. service' = Posted(s, StartJob)
      BY <2>0 DEF s
    <3>3. QED
      BY <3>1, <3>2, PostedFacts
  <2>3. ExitIn(service'.q) = ExitIn(service.q)
    BY <1>0, <2>2, ExitInFacts, JobsDiffer DEF QueueJob
  <2>4. ExitPosted'
    BY <1>0, <2>0, <2>3, ExitPostedKept
  <2>5. QED
    BY <2>1, <2>4 DEF AppInv
<1>2. CASE LoopStep
  <2>0. app = "loop" /\ UNCHANGED appVars /\ (Take \/ StopReset \/ RunReturn)
    BY <1>2 DEF LoopStep
  <2>1. /\ UNCHANGED <<app, sig, initiated, terminating, slot, pending, sent, failing, exitCode>>
        /\ UNCHANGED <<exitSub, controlSub, exitCalls, stopper>>
    BY <2>0 DEF appVars
  <2>2. AppTypes' /\ Phases' /\ Terminating' /\ Unsignalled' /\ StopAsked'
    BY <1>0, <2>0, <2>1 DEF AppTypes, Phases, InRun, Terminating, Unsignalled, StopAsked
  <2>3. CASE Take
    <3>0. /\ current = NoJob /\ service.q # <<>> /\ current' = Head(service.q)
          /\ service'.q = Tail(service.q) /\ UNCHANGED <<pc, call>>
      BY <1>0, <2>3, TakenFacts DEF Take, CanTake, clientVars
    <3>1. /\ \A i \in ExitIn(service'.q) : i + 1 \in ExitIn(service.q) /\ i \in Nat \ {0}
          /\ current'.kind = "exit" => 1 \in ExitIn(service.q)
      BY <1>0, <3>0, ExitInFacts
    <3>2. current'.kind = "exit" => ExitIn(service'.q) = {}
      <4> SUFFICES ASSUME current'.kind = "exit", NEW i \in ExitIn(service'.q) PROVE FALSE
        OBVIOUS
      <4>1. i + 1 = 1 /\ i \in Nat \ {0}
        BY <1>0, <3>1 DEF ExitPosted
      <4>2. QED
        BY <4>1
    <3>3. \A i, j \in ExitIn(service'.q) : i = j
      <4> SUFFICES ASSUME NEW i \in ExitIn(service'.q), NEW j \in ExitIn(service'.q) PROVE i = j
        OBVIOUS
      <4>1. i + 1 = j + 1 /\ i \in Nat /\ j \in Nat
        BY <1>0, <3>1 DEF ExitPosted
      <4>2. QED
        BY <4>1
    <3>4. ExitIn(service'.q) # {} \/ current'.kind = "exit" => ExitIn(service.q) # {}
      BY <3>1
    <3>5. ExitPosted'
      BY <1>0, <2>1, <3>0, <3>2, <3>3, <3>4 DEF ExitPosted
    <3>6. QED
      BY <2>2, <3>5 DEF AppInv
  <2>4. CASE StopReset
    <3>1. service'.q = <<>> /\ UNCHANGED <<current, pc, call>>
      BY <2>4, FreshFacts DEF StopReset, reset, clientVars
    <3>2. ExitIn(service'.q) = {}
      BY <3>1 DEF ExitIn
    <3>3. ExitPosted'
      BY <1>0, <2>1, <3>1, <3>2, ExitPostedKept
    <3>4. QED
      BY <2>2, <3>3 DEF AppInv
  <2>5. CASE RunReturn
    <3>1. UNCHANGED <<service, current, pc, call>>
      BY <2>5 DEF RunReturn, baseVars, clientVars
    <3>2. ExitPosted'
      BY <1>0, <2>1, <3>1, ExitPostedKept
    <3>3. QED
      BY <2>2, <3>2 DEF AppInv
  <2>6. QED
    BY <2>0, <2>3, <2>4, <2>5
<1>3. CASE LoopStops
  <2>0. /\ app = "loop" /\ current.kind = "stop"
        /\ stopper' = IF current.by = Signal /\ stopper # "asked" THEN "earlier" ELSE current.by
        /\ service' = [service EXCEPT !.work = FALSE, !.stopped = TRUE]
        /\ UNCHANGED <<current, pc, call>>
        /\ UNCHANGED <<app, sig, initiated, terminating, slot, pending, sent, failing, exitCode,
                       exitSub, controlSub, exitCalls>>
    BY <1>3 DEF LoopStops, StopLoop, stop_loop, clientVars
  <2>1. current.by \in Clients
    BY <1>0, <2>0, JobsDiffer DEF LoopTypes, TypeOK
  <2>2. service'.q = service.q
    BY <1>0, <2>0 DEF ServiceType
  <2>3. stopper' \in Clients \cup {"earlier"} /\ (stopper' = Signal => stopper = "asked")
    BY <2>0, <2>1 DEF Signal
  <2>4. AppTypes'
    BY <1>0, <2>0, <2>3 DEF AppTypes
  <2>5. Phases' /\ Terminating' /\ Unsignalled'
    BY <1>0, <2>0 DEF Phases, InRun, Terminating, Unsignalled
  <2>6. StopAsked'
    <3>1. stopper' # "asked"
      BY <2>3, ClientsAssumption
    <3>2. QED
      BY <1>0, <2>0, <2>3, <3>1 DEF StopAsked, InRun
  <2>7. ExitPosted'
    BY <1>0, <2>0, <2>2, ExitPostedKept
  <2>8. QED
    BY <2>4, <2>5, <2>6, <2>7 DEF AppInv
<1>4. CASE CallbackReturns
  <2>0. /\ app = "loop" /\ current' = NoJob /\ UNCHANGED <<service, main, pc, call>>
        /\ IF current.kind = "exit" THEN NotifyExit ELSE UNCHANGED exitCalls
        /\ UNCHANGED <<app, sig, initiated, terminating, slot, pending, sent, failing, exitCode,
                       exitSub, controlSub, stopper>>
    BY <1>4 DEF CallbackReturns, Finish, clientVars
  <2>1. /\ exitCalls' \in {0, 1} /\ (exitCalls # 0 => exitCalls' # 0)
        /\ (exitCalls' # exitCalls => current.kind = "exit")
    BY <1>0, <2>0 DEF AppTypes, ExitPosted, NotifyExit
  <2>2. AppTypes'
    BY <1>0, <2>0, <2>1 DEF AppTypes
  <2>3. Phases' /\ Terminating' /\ Unsignalled' /\ StopAsked'
    BY <1>0, <2>0, <2>1 DEF Phases, InRun, Terminating, Unsignalled, StopAsked
  <2>4. current'.kind = "none"
    BY <2>0, JobsDiffer
  <2>5. ExitPosted'
    <3>1. ExitIn(service'.q) # {} => exitCalls' = 0
      BY <1>0, <2>0, <2>1 DEF ExitPosted
    <3>2. QED
      BY <1>0, <2>0, <2>1, <2>4, <3>1 DEF ExitPosted
  <2>6. QED
    BY <2>2, <2>3, <2>5 DEF AppInv
<1>5. CASE LeaveLoop
  <2>0. /\ app = "loop" /\ app' = "ended" /\ main = "notify" /\ main' = "out"
        /\ UNCHANGED <<isRunning, service, current, pc, call>>
        /\ UNCHANGED <<sig, initiated, terminating, slot, pending, sent, failing, exitCode,
                       exitSub, controlSub, exitCalls, stopper>>
    BY <1>5 DEF LeaveLoop, NotifyStop, baseVars, clientVars
  <2>1. AppTypes' /\ Phases' /\ Terminating' /\ Unsignalled' /\ StopAsked'
    BY <1>0, <2>0 DEF AppTypes, Phases, InRun, Terminating, Unsignalled, StopAsked, Running
  <2>2. ExitPosted'
    BY <1>0, <2>0, ExitPostedKept
  <2>3. QED
    BY <2>1, <2>2 DEF AppInv
<1>6. QED
  BY <1>1, <1>2, <1>3, <1>4, <1>5

\* Steps of the signal thread that leave the main loop alone.
LEMMA SignalAloneInv ==
    ASSUME IInv, UNCHANGED vars,
           SignalThreadStarts \/ WaitSignal \/ process_handler \/ process_exit \/ ExitWaited
    PROVE  AppInv'
<1>0. /\ AppTypes /\ Phases /\ ExitPosted /\ Terminating /\ Unsignalled /\ StopAsked
      /\ UNCHANGED <<isRunning, service, main, current, pc, call>>
  BY VarsUnchanged DEF IInv, AppInv
<1>1. CASE SignalThreadStarts
  <2>1. AppTypes'
    BY <1>0, <1>1 DEF SignalThreadStarts, AppTypes, SignalSteps
  <2>2. Phases' /\ Terminating' /\ Unsignalled' /\ StopAsked'
    BY <1>0, <1>1 DEF SignalThreadStarts, Up, Phases, InRun, Terminating, Unsignalled, StopAsked
  <2>3. ExitPosted'
    BY <1>0, <1>1 DEF SignalThreadStarts, ExitPosted
  <2>4. QED
    BY <2>1, <2>2, <2>3 DEF AppInv
<1>2. CASE WaitSignal
  <2>0. /\ sig = "wait" /\ sig' = "handle"
        /\ UNCHANGED <<app, initiated, sent, failing, exitSub, controlSub, exitCalls, stopper>>
        /\ UNCHANGED <<terminating, exitCode>>
    BY <1>2 DEF WaitSignal, Goes
  <2>1. PICK s \in pending : /\ pending' = pending \ {s}
                             /\ slot' = IF s = "term" THEN "exit" ELSE "usersignal"
    BY <1>2 DEF WaitSignal
  <2>2. AppTypes'
    BY <1>0, <2>0, <2>1 DEF AppTypes, SignalSteps, SignalData
  <2>3. Phases' /\ Terminating' /\ StopAsked'
    BY <1>0, <2>0 DEF Phases, InRun, Terminating, StopAsked
  <2>4. Unsignalled'
    BY <1>0, <2>0, <2>1 DEF Unsignalled
  <2>5. ExitPosted'
    BY <1>0, <2>0 DEF ExitPosted
  <2>6. QED
    BY <2>2, <2>3, <2>4, <2>5 DEF AppInv
<1>3. CASE process_handler
  <2>0. /\ sig = "handle"
        /\ UNCHANGED <<app, initiated, sent, failing, exitSub, controlSub, exitCalls, stopper>>
        /\ UNCHANGED <<slot, pending, exitCode>>
        /\ \/ slot = "exit" /\ terminating' = TRUE /\ sig' = "exit"
           \/ slot # "exit" /\ terminating' = terminating /\ sig' = "wait"
           \/ slot # "exit" /\ terminating' = terminating /\ sig' = "control"
    BY <1>3 DEF process_handler, process_control, Goes
  <2>1. AppTypes'
    <3>1. sig' \in {"exit", "wait", "control"} /\ terminating' \in {terminating, TRUE}
      BY <2>0
    <3>2. terminating' \in BOOLEAN
      BY <1>0, <3>1 DEF AppTypes
    <3>3. QED
      BY <1>0, <2>0, <3>1, <3>2 DEF AppTypes, SignalSteps
  <2>2. Phases' /\ StopAsked'
    BY <1>0, <2>0 DEF Phases, InRun, StopAsked
  <2>3. Terminating'
    BY <1>0, <2>0 DEF Terminating
  <2>4. Unsignalled'
    BY <1>0, <2>0 DEF Unsignalled
  <2>5. ExitPosted'
    BY <1>0, <2>0 DEF ExitPosted
  <2>6. QED
    BY <2>1, <2>2, <2>3, <2>4, <2>5 DEF AppInv
<1>4. CASE process_exit
  <2>0. /\ sig = "exit"
        /\ UNCHANGED <<app, initiated, sent, failing, exitSub, controlSub, exitCalls, stopper>>
        /\ UNCHANGED <<terminating, slot, pending, exitCode>>
        /\ \/ ~isRunning /\ sig' = "ended"
           \/ isRunning /\ exitSub /\ Register(Signal, "exit")
           \/ isRunning /\ ~exitSub /\ sig' = "stop"
    BY <1>4 DEF process_exit, Goes
  <2>1. ~Register(Signal, "exit")
    BY <1>0, ClientsAssumption, RegisterFacts DEF IInv
  <2>2. AppTypes'
    BY <1>0, <2>0, <2>1 DEF AppTypes, SignalSteps
  <2>3. Phases' /\ StopAsked'
    BY <1>0, <2>0, <2>1 DEF Phases, InRun, StopAsked
  <2>4. Terminating' /\ Unsignalled'
    BY <1>0, <2>0, <2>1 DEF Terminating, Unsignalled, Phases
  <2>5. ExitPosted'
    BY <1>0, <2>0, <2>1 DEF ExitPosted
  <2>6. QED
    BY <2>2, <2>3, <2>4, <2>5 DEF AppInv
<1>5. CASE ExitWaited
  <2>0. /\ sig = "exitWait" /\ exitCalls > 0 /\ sig' = "stop"
        /\ UNCHANGED <<app, initiated, sent, failing, exitSub, controlSub, exitCalls, stopper>>
        /\ UNCHANGED <<terminating, slot, pending, exitCode>>
    BY <1>5 DEF ExitWaited, Goes
  <2>1. exitCalls = 1
    BY <1>0, <2>0 DEF AppTypes
  <2>2. AppTypes'
    BY <1>0, <2>0 DEF AppTypes, SignalSteps
  <2>3. Phases' /\ Terminating' /\ Unsignalled' /\ StopAsked'
    BY <1>0, <2>0, <2>1 DEF Phases, InRun, Terminating, Unsignalled, StopAsked
  <2>4. ExitPosted'
    BY <1>0, <2>0, <2>1 DEF ExitPosted
  <2>5. QED
    BY <2>2, <2>3, <2>4 DEF AppInv
<1>6. QED
  BY <1>1, <1>2, <1>3, <1>4, <1>5

\* Steps in which the signal thread uses the main loop: it registers what it posts ...
LEMMA SignalRegistersInv ==
    ASSUME IInv, NEW kind \in {"exit", "control", "stop"}, Register(Signal, kind),
           process_handler \/ process_exit \/ SignalStop
    PROVE  AppInv'
<1>0. /\ AppTypes /\ Phases /\ ExitPosted /\ Terminating /\ Unsignalled /\ StopAsked /\ LoopInv
      /\ Signal \in Clients
  BY ClientsAssumption DEF IInv, AppInv
<1>1. /\ pc[Signal] = "idle" /\ pc'[Signal] = "enqueue" /\ call'[Signal].kind = kind
      /\ \A d \in Clients \ {Signal} : pc'[d] = pc[d] /\ call'[d] = call[d]
      /\ UNCHANGED <<isRunning, service, main, current>>
  BY <1>0, RegisterFacts
<1>2. ~UNCHANGED vars
  BY <1>1, VarsUnchanged
<1>3. CASE process_handler
  <2>0. /\ sig = "handle" /\ sig' = "control" /\ slot # "exit" /\ Register(Signal, "control")
        /\ UNCHANGED <<app, initiated, sent, failing, exitSub, controlSub, exitCalls, stopper>>
        /\ UNCHANGED <<terminating, slot, pending, exitCode>>
    BY <1>2, <1>3 DEF process_handler, process_control, Goes
  <2>1. call'[Signal].kind = "control"
    BY <1>0, <2>0, RegisterFacts
  <2>2. AppTypes'
    BY <1>0, <2>0 DEF AppTypes, SignalSteps
  <2>3. Phases' /\ Terminating' /\ StopAsked'
    BY <1>0, <1>1, <2>0 DEF Phases, InRun, Terminating, StopAsked
  <2>4. Unsignalled'
    BY <1>0, <2>0 DEF Unsignalled
  <2>5. ExitPosted'
    BY <1>0, <1>1, <2>0, <2>1 DEF ExitPosted
  <2>6. QED
    BY <2>2, <2>3, <2>4, <2>5 DEF AppInv
<1>4. CASE process_exit
  <2>0. /\ sig = "exit" /\ sig' = "exitPost" /\ isRunning /\ exitSub
        /\ UNCHANGED <<app, initiated, sent, failing, exitSub, controlSub, exitCalls, stopper>>
        /\ UNCHANGED <<terminating, slot, pending, exitCode>>
    BY <1>2, <1>4 DEF process_exit, Goes
  <2>1. app # "notify" /\ exitCalls = 0
    BY <1>0, <2>0 DEF Phases, ExitPosted
  <2>2. AppTypes'
    BY <1>0, <2>0 DEF AppTypes, SignalSteps
  <2>3. Phases' /\ Terminating' /\ StopAsked'
    BY <1>0, <1>1, <2>0, <2>1 DEF Phases, InRun, Terminating, StopAsked
  <2>4. Unsignalled'
    BY <1>0, <2>0, <2>1 DEF Unsignalled
  <2>5. ExitPosted'
    BY <1>0, <1>1, <2>0, <2>1 DEF ExitPosted
  <2>6. QED
    BY <2>2, <2>3, <2>4, <2>5 DEF AppInv
<1>5. CASE SignalStop
  <2>0. /\ sig = "stop" /\ sig' = "stopPost" /\ Register(Signal, "stop") /\ exitCode' = TRUE
        /\ stopper' = IF stopper = "none" THEN "asked" ELSE stopper
        /\ UNCHANGED <<app, initiated, terminating, slot, pending, sent, failing, exitSub,
                       controlSub, exitCalls>>
    BY <1>5 DEF SignalStop
  <2>1. call'[Signal].kind = "stop"
    BY <1>0, <2>0, RegisterFacts
  <2>2. AppTypes'
    BY <1>0, <2>0 DEF AppTypes, SignalSteps
  <2>3. Phases' /\ Terminating' /\ Unsignalled'
    BY <1>0, <1>1, <2>0 DEF Phases, InRun, Terminating, Unsignalled
  <2>4. StopAsked'
    BY <1>0, <2>0 DEF StopAsked, InRun
  <2>5. ExitPosted'
    BY <1>0, <1>1, <2>0, <2>1 DEF ExitPosted
  <2>6. QED
    BY <2>2, <2>3, <2>4, <2>5 DEF AppInv
<1>6. QED
  BY <1>3, <1>4, <1>5

\* ... and then posts it.
LEMMA SignalPostsInv ==
    ASSUME IInv, SignalPosts
    PROVE  AppInv'
<1>0. /\ AppTypes /\ Phases /\ ExitPosted /\ Terminating /\ Unsignalled /\ StopAsked /\ LoopInv
      /\ Signal \in Clients /\ Enqueue(Signal)
  BY ClientsAssumption DEF IInv, AppInv, SignalPosts
<1>1. /\ UNCHANGED <<app, initiated, sent, failing, exitSub, controlSub, exitCalls, stopper>>
      /\ UNCHANGED <<terminating, slot, pending, exitCode>>
      /\ \/ sig = "control" /\ sig' = "wait"
         \/ sig = "exitPost" /\ sig' = "exitWait"
         \/ sig = "stopPost" /\ sig' = "ended"
  BY DEF SignalPosts, Goes
<1> DEFINE j == call[Signal]
<1>2. /\ pc[Signal] = "enqueue" /\ j \in QueueJob /\ pc'[Signal] = "idle"
      /\ \A d \in Clients \ {Signal} : pc'[d] = pc[d]
      /\ service.q \in Seq(QueueJob) /\ service'.q = Append(service.q, j)
      /\ UNCHANGED <<isRunning, main, current, call>>
  BY <1>0, EnqueueFacts
<1> HIDE DEF j
<1>3. AppTypes'
  BY <1>0, <1>1 DEF AppTypes, SignalSteps
<1>4. Phases' /\ Terminating' /\ StopAsked'
  BY <1>0, <1>1, <1>2 DEF Phases, InRun, Terminating, StopAsked
<1>5. Unsignalled'
  BY <1>0, <1>1 DEF Unsignalled
<1>6. ExitPosted'
  <2>1. ExitIn(service.q) = {} /\ current.kind # "exit" /\ (sig # "stopPost" => exitCalls = 0)
    BY <1>0, <1>1 DEF ExitPosted
  <2>2. j.kind = "exit" => sig = "exitPost"
    BY <1>0, <1>2 DEF ExitPosted, j
  <2>3. /\ j.kind # "exit" => ExitIn(service'.q) = {}
        /\ \A i, k \in ExitIn(service'.q) : i = k
    BY <1>2, <2>1, ExitInFacts
  <2>4. ExitIn(service'.q) # {} => sig' = "exitWait" /\ exitCalls' = 0
    BY <1>1, <2>1, <2>2, <2>3
  <2>5. \A c \in Clients : ~(pc'[c] = "enqueue" /\ call'[c].kind = "exit")
    BY <1>0, <1>2 DEF ExitPosted
  <2>6. exitCalls' # 0 => sig' \in {"none", "exitWait", "stop", "stopPost", "ended"}
    BY <1>1, <2>1
  <2>7. QED
    BY <1>2, <2>1, <2>3, <2>4, <2>5, <2>6 DEF ExitPosted
<1>7. QED
  BY <1>3, <1>4, <1>5, <1>6 DEF AppInv

\* Steps of the other threads and of the outside.
LEMMA OthersInv ==
    ASSUME IInv,
           \/ UNCHANGED vars /\ (SendSignal \/ FailSignal \/ process_fail)
           \/ \E c \in Clients : UserCall(c) \/ UserPosts(c)
    PROVE  AppInv'
<1>0. /\ AppTypes /\ Phases /\ ExitPosted /\ Terminating /\ Unsignalled /\ StopAsked /\ LoopInv
  BY DEF IInv, AppInv
<1>1. CASE UNCHANGED vars /\ SendSignal
  <2>0. /\ UNCHANGED <<isRunning, service, main, current, pc, call>>
        /\ UNCHANGED <<app, sig, initiated, terminating, slot, failing, exitCode, exitSub,
                       controlSub, exitCalls, stopper>>
        /\ sent' = sent + 1
    BY <1>1, VarsUnchanged DEF SendSignal
  <2>1. sent' \in Nat /\ sent' # 0
    BY <1>0, <2>0 DEF AppTypes
  <2>2. pending' \subseteq {"term", "usr"}
    BY <1>0, <1>1 DEF SendSignal, AppTypes
  <2>3. AppTypes' /\ Phases' /\ Terminating' /\ Unsignalled' /\ StopAsked'
    BY <1>0, <2>0, <2>1, <2>2 DEF AppTypes, Phases, InRun, Terminating, Unsignalled, StopAsked
  <2>4. ExitPosted'
    BY <1>0, <2>0, ExitPostedKept
  <2>5. QED
    BY <2>3, <2>4 DEF AppInv
<1>2. CASE UNCHANGED vars /\ FailSignal
  <2>0. /\ UNCHANGED <<isRunning, service, main, current, pc, call>>
        /\ UNCHANGED <<app, sig, initiated, terminating, pending, exitCode, exitSub,
                       controlSub, exitCalls, stopper>>
        /\ sent' = sent + 1 /\ failing' = "caught" /\ slot' = "fail"
    BY <1>2, VarsUnchanged DEF FailSignal
  <2>1. sent' \in Nat /\ sent' # 0
    BY <1>0, <2>0 DEF AppTypes
  <2>2. AppTypes' /\ Phases' /\ Terminating' /\ Unsignalled' /\ StopAsked'
    BY <1>0, <2>0, <2>1 DEF AppTypes, SignalData, Phases, InRun, Terminating, Unsignalled, StopAsked
  <2>3. ExitPosted'
    BY <1>0, <2>0, ExitPostedKept
  <2>4. QED
    BY <2>2, <2>3 DEF AppInv
<1>3. CASE UNCHANGED vars /\ process_fail
  <2>0. /\ UNCHANGED <<isRunning, service, main, current, pc, call>>
        /\ UNCHANGED <<sig, initiated, terminating, slot, pending, sent, failing, exitCode,
                       exitSub, controlSub, exitCalls, stopper>>
        /\ failing = "caught" /\ app' = "crashed"
    BY <1>3, VarsUnchanged DEF process_fail
  <2>1. AppTypes' /\ Phases' /\ Terminating' /\ Unsignalled' /\ StopAsked'
    BY <1>0, <2>0 DEF AppTypes, Phases, InRun, Terminating, Unsignalled, StopAsked
  <2>2. ExitPosted'
    BY <1>0, <2>0, ExitPostedKept
  <2>3. QED
    BY <2>1, <2>2 DEF AppInv
<1>4. ASSUME NEW c \in Clients, UserCall(c) PROVE AppInv'
  <2>0. /\ c # Signal /\ exitCode' \in {exitCode, TRUE, FALSE}
        /\ UNCHANGED <<app, sig, initiated, terminating, slot, pending, sent, failing, exitSub,
                       controlSub, exitCalls, stopper>>
    BY <1>4 DEF UserCall
  <2>1. PICK kind \in {"post", "stop"} : Register(c, kind)
    BY <1>4 DEF UserCall
  <2>2. /\ pc'[c] = "enqueue" /\ call'[c].kind = kind
        /\ \A d \in Clients \ {c} : pc'[d] = pc[d] /\ call'[d] = call[d]
        /\ UNCHANGED <<isRunning, service, main, current>>
    BY <1>0, <2>1, RegisterFacts
  <2>3. /\ AppTypes'
        /\ Phases' /\ Terminating' /\ Unsignalled' /\ StopAsked'
    <3>1. exitCode' \in BOOLEAN
      BY <1>0, <2>0 DEF AppTypes
    <3>2. AppTypes'
      BY <1>0, <2>0, <3>1 DEF AppTypes
    <3>3. Phases' /\ Terminating' /\ Unsignalled' /\ StopAsked'
      BY <1>0, <2>0, <2>2 DEF Phases, InRun, Terminating, Unsignalled, StopAsked
    <3>4. QED
      BY <3>2, <3>3
  <2>4. ExitPosted'
    <3>1. \A d \in Clients : pc'[d] = "enqueue" /\ call'[d].kind = "exit" =>
             pc[d] = "enqueue" /\ call[d].kind = "exit"
      BY <2>1, <2>2
    <3>2. pc'[Signal] = pc[Signal]
      BY <2>0, <2>2, ClientsAssumption
    <3>3. QED
      BY <1>0, <2>0, <2>2, <3>1, <3>2, ExitPostedKept
  <2>5. QED
    BY <2>3, <2>4 DEF AppInv
<1>5. ASSUME NEW c \in Clients, UserPosts(c) PROVE AppInv'
  <2>0. /\ c # Signal /\ Enqueue(c)
        /\ UNCHANGED <<app, sig, initiated, terminating, slot, pending, sent, failing, exitCode>>
        /\ UNCHANGED <<exitSub, controlSub, exitCalls, stopper>>
    BY <1>5 DEF UserPosts, appVars
  <2> DEFINE j == call[c]
  <2>1. /\ pc[c] = "enqueue" /\ j \in QueueJob /\ pc'[c] = "idle"
        /\ \A d \in Clients \ {c} : pc'[d] = pc[d]
        /\ service.q \in Seq(QueueJob) /\ service'.q = Append(service.q, j)
        /\ UNCHANGED <<isRunning, main, current, call>>
    BY <1>0, <2>0, EnqueueFacts
  <2>2. j.kind # "exit"
    BY <1>0, <2>0, <2>1 DEF ExitPosted
  <2> HIDE DEF j
  <2>3. ExitIn(service'.q) = ExitIn(service.q)
    BY <2>1, <2>2, ExitInFacts
  <2>4. AppTypes' /\ Phases' /\ Terminating' /\ Unsignalled' /\ StopAsked'
    BY <1>0, <2>0, <2>1 DEF AppTypes, Phases, InRun, Terminating, Unsignalled, StopAsked
  <2>5. ExitPosted'
    <3>1. \A d \in Clients : pc'[d] = "enqueue" => pc[d] = "enqueue" /\ call'[d] = call[d]
      BY <2>1
    <3>2. QED
      BY <1>0, <2>0, <2>1, <2>3, <3>1, ClientsAssumption, ExitPostedKept
  <2>6. QED
    BY <2>4, <2>5 DEF AppInv
<1>6. QED
  BY <1>1, <1>2, <1>3, <1>4, <1>5

\* A step of the application is a step of its main loop, or leaves the loop alone.
LEMMA AppStepsLoop ==
    ASSUME AppNext
    PROVE  UNCHANGED vars \/ LoopNext
<1>1. CASE init \/ on_exit \/ on_control \/ Run \/ AfterLoop \/ Return \/ SendSignal
             \/ FailSignal \/ process_fail \/ SignalThreadStarts \/ WaitSignal \/ ExitWaited
  BY <1>1 DEF init, on_exit, on_control, Run, AfterLoop, Return, SendSignal, FailSignal, process_fail,
              SignalThreadStarts, WaitSignal, ExitWaited
<1>2. CASE EnterLoop \/ LoopStep \/ LoopStops \/ CallbackReturns \/ LeaveLoop
  BY <1>2 DEF EnterLoop, LoopStep, LoopStops, CallbackReturns, LeaveLoop, LoopNext, MainNext
<1>3. CASE process_handler \/ process_exit \/ SignalStop
  <2>1. UNCHANGED vars \/ \E kind \in {"exit", "control", "stop"} : Register(Signal, kind)
    BY <1>3 DEF process_handler, process_control, process_exit, SignalStop
  <2>2. QED
    BY <2>1, ClientsAssumption DEF LoopNext, Kinds, SignalKinds
<1>4. CASE SignalPosts
  BY <1>4, ClientsAssumption DEF SignalPosts, LoopNext
<1>5. CASE \E c \in Clients : UserCall(c) \/ UserPosts(c)
  BY <1>5 DEF UserCall, UserPosts, LoopNext, Kinds
<1>6. QED
  BY <1>1, <1>2, <1>3, <1>4, <1>5 DEF AppNext, MainStep, SignalStep

\* Every step of the application preserves its part of the invariant.
LEMMA AppNextInv == ASSUME IInv, AppNext PROVE AppInv'
<1>1. CASE init \/ on_exit \/ on_control \/ Run \/ AfterLoop \/ Return
  <2>1. UNCHANGED vars
    BY <1>1 DEF init, on_exit, on_control, Run, AfterLoop, Return
  <2>2. QED
    BY <1>1, <2>1, OutsideInv
<1>2. CASE EnterLoop \/ LoopStep \/ LoopStops \/ CallbackReturns \/ LeaveLoop
  BY <1>2, LoopStepInv
<1>3. CASE SignalThreadStarts \/ WaitSignal \/ ExitWaited
  <2>1. UNCHANGED vars
    BY <1>3 DEF SignalThreadStarts, WaitSignal, ExitWaited
  <2>2. QED
    BY <1>3, <2>1, SignalAloneInv
<1>4. CASE process_handler \/ process_exit \/ SignalStop
  <2>1. \/ UNCHANGED vars /\ (process_handler \/ process_exit)
        \/ \E kind \in {"exit", "control", "stop"} : Register(Signal, kind)
    BY <1>4 DEF process_handler, process_control, process_exit, SignalStop
  <2>2. QED
    BY <1>4, <2>1, SignalAloneInv, SignalRegistersInv
<1>5. CASE SignalPosts
  BY <1>5, SignalPostsInv
<1>6. CASE SendSignal \/ FailSignal \/ process_fail
  <2>1. UNCHANGED vars
    BY <1>6 DEF SendSignal, FailSignal, process_fail
  <2>2. QED
    BY <1>6, <2>1, OthersInv
<1>7. CASE \E c \in Clients : UserCall(c) \/ UserPosts(c)
  BY <1>7, OthersInv
<1>8. QED
  BY <1>1, <1>2, <1>3, <1>4, <1>5, <1>6, <1>7 DEF AppNext, MainStep, SignalStep

\* A step that changes nothing does, too.
LEMMA AppStutters == ASSUME AppInv, UNCHANGED allVars PROVE AppInv'
<1>1. UNCHANGED vars
  BY DEF allVars
<1>2. /\ UNCHANGED <<isRunning, service, main, current, pc, call>>
      /\ UNCHANGED <<app, sig, initiated, terminating, slot, pending, sent, failing, exitCode>>
      /\ UNCHANGED <<exitSub, controlSub, exitCalls, stopper>>
  BY <1>1, VarsUnchanged DEF allVars, appVars
<1>3. AppTypes' /\ Phases' /\ Terminating' /\ Unsignalled' /\ StopAsked'
  BY <1>2 DEF AppInv, AppTypes, Phases, InRun, Terminating, Unsignalled, StopAsked
<1>4. ExitPosted'
  BY <1>2, ExitPostedKept DEF AppInv
<1>5. QED
  BY <1>3, <1>4 DEF AppInv

\* The invariant of the main loop and of the application that runs it holds in every
\* state of the application.
THEOREM AppInvariance == AppSpec => []IInv
<1>1. AppInit => IInv
  BY InitLoopInv, InitAppInv DEF AppInit, IInv
<1>2. IInv /\ [AppNext]_allVars => IInv'
  <2> SUFFICES ASSUME IInv, [AppNext]_allVars PROVE IInv'
    OBVIOUS
  <2>1. UNCHANGED vars \/ LoopNext
    BY AppStepsLoop DEF allVars
  <2>2. LoopInv'
    BY <2>1, LoopNextInv, LoopStutters DEF IInv
  <2>3. AppInv'
    BY AppNextInv, AppStutters DEF IInv
  <2>4. QED
    BY <2>2, <2>3 DEF IInv
<1>3. QED
  BY <1>1, <1>2, PTL DEF AppSpec

\* _queue_size of the main loop counts what it should when the application, its signal
\* thread and its users share the loop, whatever the order of start(), stop() and post().
THEOREM AppAccounting == AppSpec => [](TypeOK /\ QueueSizeAccounts)
<1>1. IInv => TypeOK /\ QueueSizeAccounts
  BY DEF IInv, LoopInv, LoopTypes
<1>2. QED
  BY <1>1, AppInvariance, PTL

\* run() and the signal thread agree on who notifies the exit observers: they are never
\* notified twice in a run, and are left out only when a stop() of somebody else ended the
\* loop and a signal came as well.
THEOREM ExitOnce == AppSpec => ExitNotifiedOnce
<1>1. IInv /\ IInv' /\ [AppNext]_allVars =>
        [/\ exitCalls' <= 1
         /\ Return /\ exitSub /\ exitCalls' = 0 => stopper # Signal /\ sent > 0]_allVars
  <2> SUFFICES ASSUME IInv, IInv'
               PROVE  /\ exitCalls' <= 1
                      /\ Return /\ exitSub /\ exitCalls' = 0 => stopper # Signal /\ sent > 0
    OBVIOUS
  <2>1. exitCalls' <= 1 /\ exitCalls \in {0, 1} /\ sent \in Nat
    BY DEF IInv, AppInv, AppTypes
  <2>2. ASSUME Return, exitSub, exitCalls' = 0 PROVE stopper # Signal /\ sent > 0
    <3>1. app = "join" /\ exitCalls = 0
      BY <2>1, <2>2 DEF Return, NotifyExit
    <3>2. QED
      BY <2>1, <2>2, <3>1 DEF IInv, AppInv, Unsignalled, StopAsked, InRun
  <2>3. QED
    BY <2>1, <2>2
<1>2. QED
  BY <1>1, AppInvariance, PTL DEF AppSpec, ExitNotifiedOnce
=============================================================================
