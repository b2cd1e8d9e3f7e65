-------------------------- MODULE EventLoopProofs --------------------------
(***************************************************************************)
(* Proofs about EventLoop, alone and with the timers that use it, for any  *)
(* finite set of clients and any bounds.                                   *)
(***************************************************************************)
EXTENDS Timers, FiniteSetTheorems, TLAPS

(***************************************************************************)
(* Arithmetic modulo the width of _queue_size                              *)
(***************************************************************************)

\* The quotient and the remainder of a division.
LEMMA Division ==
    ASSUME NEW x \in Int
    PROVE  /\ x % QueueModulus \in 0 .. QueueModulus - 1
           /\ x \div QueueModulus \in Int
           /\ x = ((x \div QueueModulus) * QueueModulus) + (x % QueueModulus)
BY QueueModulusAssumption

\* A positive multiple of the modulus is not below the modulus.
LEMMA MultipleBound ==
    ASSUME NEW k \in Int, k >= 1
    PROVE  k * QueueModulus >= QueueModulus
BY QueueModulusAssumption

\* The remainder is unique.
LEMMA RemainderUnique ==
    ASSUME NEW k \in Int, NEW r \in 0 .. QueueModulus - 1,
           NEW l \in Int, NEW s \in 0 .. QueueModulus - 1,
           k * QueueModulus + r = l * QueueModulus + s
    PROVE  r = s
<1>1. (k - l) * QueueModulus = s - r /\ (l - k) * QueueModulus = r - s
  BY QueueModulusAssumption
<1>2. CASE k - l >= 1
  BY <1>1, <1>2, MultipleBound, QueueModulusAssumption
<1>3. CASE l - k >= 1
  BY <1>1, <1>3, MultipleBound, QueueModulusAssumption
<1>4. CASE k = l
  BY <1>1, <1>4, QueueModulusAssumption
<1>5. QED
  BY <1>2, <1>3, <1>4

\* Counting on a wrapped counter wraps like counting on the number itself.
LEMMA CountWraps ==
    ASSUME NEW x \in Int, NEW n \in Int
    PROVE  ((x % QueueModulus) + n) % QueueModulus = (x + n) % QueueModulus
<1> DEFINE y == (x % QueueModulus) + n
           z == x + n
<1>1. y \in Int /\ z \in Int
  BY Division, QueueModulusAssumption
<1>2. /\ y = ((y \div QueueModulus) * QueueModulus) + (y % QueueModulus)
      /\ y % QueueModulus \in 0 .. QueueModulus - 1 /\ y \div QueueModulus \in Int
  BY <1>1, Division
<1>3. /\ z = ((z \div QueueModulus) * QueueModulus) + (z % QueueModulus)
      /\ z % QueueModulus \in 0 .. QueueModulus - 1 /\ z \div QueueModulus \in Int
  BY <1>1, Division
<1>4. /\ x = ((x \div QueueModulus) * QueueModulus) + (x % QueueModulus)
      /\ x % QueueModulus \in 0 .. QueueModulus - 1 /\ x \div QueueModulus \in Int
  BY Division
<1>5. (((x \div QueueModulus) + (y \div QueueModulus)) * QueueModulus) + (y % QueueModulus)
        = ((z \div QueueModulus) * QueueModulus) + (z % QueueModulus)
  BY <1>2, <1>3, <1>4, QueueModulusAssumption
<1>6. QED
  BY <1>2, <1>3, <1>4, <1>5, RemainderUnique

(***************************************************************************)
(* The numbers of the jobs and the order of the queue                      *)
(***************************************************************************)
ServiceType == [q : Seq(JobType), timers : SUBSET JobType, stopped : BOOLEAN, work : BOOLEAN]

\* Callbacks that are not delayed are clients' calls, but for the start lambda.
LEMMA JobFacts ==
    ASSUME NEW j \in JobType
    PROVE  /\ j.n \in Nat /\ j # NoJob
           /\ Immediate(j) <=> j.by \in Clients /\ j.kind # "delayed"
BY ThreadsAssumption, TimersAssumption DEF JobType, StartJob, NoJob, Immediate, Kinds

\* What a sequence of jobs is after a post and after a job is taken.
LEMMA QueueFacts ==
    ASSUME NEW q \in Seq(JobType)
    PROVE  /\ Len(q) \in Nat /\ \A i \in 1 .. Len(q) : q[i] \in JobType
           /\ \A j \in JobType :
                 /\ Append(q, j) \in Seq(JobType) /\ Len(Append(q, j)) = Len(q) + 1
                 /\ Append(q, j)[Len(q) + 1] = j
                 /\ \A i \in 1 .. Len(q) : Append(q, j)[i] = q[i]
           /\ q # <<>> =>
                 /\ Len(q) # 0 /\ Head(q) = q[1] /\ Head(q) \in JobType
                 /\ Tail(q) \in Seq(JobType) /\ Len(Tail(q)) = Len(q) - 1
                 /\ \A i \in 1 .. Len(Tail(q)) : Tail(q)[i] = q[i + 1]
OBVIOUS

\* Steps that leave queue, timers and numbers alone keep them ordered.
LEMMA OrderKept ==
    ASSUME LoopInv, service'.q = service.q, service'.timers = service.timers,
           UNCHANGED <<call, lastRan>>,
           \A c \in Clients : pc'[c] = "enqueue" => pc[c] = "enqueue"
    PROVE  Numbered' /\ Ordered'
<1>1. ASSUME NEW c \in Clients, NEW n, Behind(c, n) PROVE Behind(c, n)'
  BY <1>1 DEF Behind
<1>2. Numbered'
  BY <1>1 DEF LoopInv, Numbered
<1>3. Ordered'
  BY DEF LoopInv, Ordered
<1>4. QED
  BY <1>2, <1>3

\* Behind in the state after a step.
BehindNext(c, n) == n <= call'[c].n /\ (pc'[c] = "enqueue" => n < call'[c].n)

\* A job that joins the queue behind what its client posted before keeps the
\* order.
LEMMA OrderAppend ==
    ASSUME LoopInv, NEW j \in JobType,
           service'.q = Append(service.q, j), service'.timers \subseteq service.timers,
           UNCHANGED <<call, lastRan>>,
           \A c \in Clients : pc'[c] = "enqueue" => pc[c] = "enqueue",
           j.by \in Clients => BehindNext(j.by, j.n),
           Immediate(j) =>
              /\ lastRan[j.by] < j.n
              /\ \A i \in 1 .. Len(service.q) :
                    Immediate(service.q[i]) /\ service.q[i].by = j.by => service.q[i].n < j.n
    PROVE  Numbered' /\ Ordered'
<1> DEFINE q == service.q
           r == service'.q
<1>1. service.q \in Seq(JobType)
  BY DEF LoopInv, LoopTypeOK
<1>2. /\ Len(q) \in Nat /\ Len(r) = Len(q) + 1
      /\ r[Len(q) + 1] = j /\ \A i \in 1 .. Len(q) : r[i] = q[i]
  BY <1>1, QueueFacts
<1>3. \A i \in 1 .. Len(r) : i \in 1 .. Len(q) \/ i = Len(q) + 1
  BY <1>2
<1>4. ASSUME NEW c \in Clients, NEW n, Behind(c, n) PROVE BehindNext(c, n)
  BY <1>4 DEF Behind, BehindNext
<1> HIDE DEF q, r
<1>5. ASSUME NEW i \in 1 .. Len(r)
      PROVE  r[i].by \in Clients => BehindNext(r[i].by, r[i].n)
  <2>1. CASE i \in 1 .. Len(q)
    <3>1. q[i].by \in Clients => Behind(q[i].by, q[i].n)
      BY <2>1 DEF LoopInv, Numbered, q
    <3>2. QED
      BY <1>2, <1>4, <2>1, <3>1
  <2>2. CASE i = Len(q) + 1
    BY <1>2, <2>2
  <2>3. QED
    BY <1>3, <2>1, <2>2
<1>6. Numbered'
  <2>1. \A c \in Clients : BehindNext(c, lastRan[c])
    BY <1>4 DEF LoopInv, Numbered
  <2>2. \A k \in service'.timers :
           k.kind = "delayed" /\ (k.by \in Clients => BehindNext(k.by, k.n))
    BY <1>4 DEF LoopInv, Numbered
  <2>3. \A c \in Clients : pc'[c] = "enqueue" => call'[c].by = c /\ call'[c].kind # "none"
    BY DEF LoopInv, Numbered
  <2>4. QED
    BY <1>5, <2>1, <2>2, <2>3 DEF Numbered, Behind, BehindNext, r
<1>7. ASSUME NEW i \in 1 .. Len(r), Immediate(r[i])
      PROVE  /\ lastRan[r[i].by] < r[i].n
             /\ \A k \in 1 .. Len(r) :
                   i < k /\ Immediate(r[k]) /\ r[k].by = r[i].by => r[i].n < r[k].n
  <2>1. CASE i \in 1 .. Len(q)
    <3>1. /\ lastRan[q[i].by] < q[i].n
          /\ \A k \in 1 .. Len(q) :
                i < k /\ Immediate(q[k]) /\ q[k].by = q[i].by => q[i].n < q[k].n
      BY <1>2, <1>7, <2>1 DEF LoopInv, Ordered, q
    <3>2. ASSUME NEW k \in 1 .. Len(r), i < k, Immediate(r[k]), r[k].by = r[i].by
          PROVE  r[i].n < r[k].n
      <4>1. CASE k \in 1 .. Len(q)
        BY <1>2, <2>1, <3>1, <3>2, <4>1
      <4>2. CASE k = Len(q) + 1
        BY <1>2, <1>7, <2>1, <3>2, <4>2 DEF q
      <4>3. QED
        BY <1>3, <4>1, <4>2
    <3>3. QED
      BY <1>2, <2>1, <3>1, <3>2
  <2>2. CASE i = Len(q) + 1
    <3>1. \A k \in 1 .. Len(r) : ~(i < k)
      BY <1>2, <2>2
    <3>2. QED
      BY <1>2, <1>7, <2>2, <3>1
  <2>3. QED
    BY <1>3, <2>1, <2>2
<1>8. Ordered'
  BY <1>7 DEF Ordered, r
<1>9. QED
  BY <1>6, <1>8

\* Every step of an event_loop and its users keeps the numbering and the order.
LEMMA OrderNext ==
    ASSUME LoopInv, [Next]_vars
    PROVE  Numbered' /\ Ordered'
<1>1. /\ service \in ServiceType /\ service.q \in Seq(JobType)
      /\ pc \in [Clients -> {"idle", "enqueue", "blocked", "waited"}]
      /\ call \in [Clients -> CallType] /\ lastRan \in [Clients -> Nat]
  BY DEF LoopInv, LoopTypeOK, ServiceType
<1>2. CASE UNCHANGED vars
  BY <1>2, OrderKept DEF vars, baseVars, clientVars, ghostVars
<1>3. CASE StartLoop \/ StopLoop
  <2>1. service'.q = service.q /\ service'.timers = service.timers
    BY <1>1, <1>3 DEF StartLoop, StopLoop, start_loop, stop_loop, ServiceType
  <2>2. UNCHANGED <<call, lastRan, pc>>
    BY <1>3 DEF StartLoop, StopLoop, clientVars, ghostVars
  <2>3. QED
    BY <2>1, <2>2, OrderKept
<1>4. CASE StartThread
  <2>1. /\ service'.q = Append(service.q, StartJob) /\ service'.timers = service.timers
        /\ UNCHANGED <<call, lastRan, pc>>
    BY <1>1, <1>4 DEF StartThread, Posted, ServiceType, clientVars, ghostVars
  <2>2. StartJob \in JobType /\ ~Immediate(StartJob) /\ StartJob.by \notin Clients
    BY ThreadsAssumption DEF StartJob, JobType, Immediate
  <2>3. QED
    BY <2>1, <2>2, OrderAppend
<1>5. CASE StopReset
  <2>1. service'.q = <<>> /\ service'.timers = {} /\ UNCHANGED <<call, lastRan, pc>>
    BY <1>5 DEF StopReset, reset, FreshService, clientVars
  <2>2. \A i \in 1 .. Len(service'.q) : FALSE
    BY <2>1
  <2>3. \A c \in Clients : Behind(c, lastRan[c])'
    BY <2>1 DEF LoopInv, Numbered, Behind
  <2>4. QED
    BY <2>1, <2>2, <2>3 DEF LoopInv, Numbered, Ordered
<1>6. CASE Finish \/ RunReturn \/ NotifyStop
  <2>1. UNCHANGED <<service, call, lastRan>>
    BY <1>6 DEF Finish, RunReturn, NotifyStop, baseVars, clientVars, ghostVars
  <2>2. \A c \in Clients : pc'[c] = "enqueue" => pc[c] = "enqueue"
    BY <1>6 DEF Finish, RunReturn, NotifyStop, clientVars
  <2>3. QED
    BY <2>1, <2>2, OrderKept
<1>7. CASE TimerFires
  <2>1. PICK j \in service.timers : service' = TimerExpired(service, j)
    BY <1>7 DEF TimerFires
  <2>2. /\ service'.q = Append(service.q, j) /\ service'.timers \subseteq service.timers
        /\ UNCHANGED <<call, lastRan, pc>> /\ j \in JobType
    BY <1>1, <1>7, <2>1 DEF TimerFires, TimerExpired, ServiceType, clientVars, ghostVars
  <2>3. /\ ~Immediate(j) /\ (j.by \in Clients => Behind(j.by, j.n))
    BY DEF LoopInv, Numbered, Immediate
  <2>4. j.by \in Clients => BehindNext(j.by, j.n)
    BY <2>2, <2>3 DEF Behind, BehindNext
  <2>5. QED
    BY <2>2, <2>3, <2>4, OrderAppend
<1>8. CASE Take
  <2> DEFINE q == service.q
             r == service'.q
  <2>1. /\ q # <<>> /\ r = Tail(q) /\ service'.timers = service.timers
        /\ current' = Head(q) /\ UNCHANGED <<call, pc>>
        /\ lastRan' = IF current'.kind \in {"start", "delayed"} THEN lastRan
                      ELSE [lastRan EXCEPT ![current'.by] = current'.n]
    BY <1>1, <1>8 DEF Take, CanTake, Taken, ServiceType, clientVars
  <2>2. /\ Len(q) \in Nat \ {0} /\ Len(r) = Len(q) - 1 /\ current' = q[1]
        /\ current' \in JobType /\ \A i \in 1 .. Len(r) : r[i] = q[i + 1]
    BY <1>1, <2>1, QueueFacts
  <2>3. \A i \in 1 .. Len(r) : i + 1 \in 1 .. Len(q) /\ 1 < i + 1
    BY <2>2
  <2>4. 1 \in 1 .. Len(q)
    BY <2>2
  <2>5. \A i \in 1 .. Len(r) : r[i] \in JobType
    BY <1>1, <2>2, <2>3, QueueFacts
  <2> HIDE DEF q, r
  <2>6. /\ Immediate(current') => current'.by \in Clients
        /\ current'.by \in Clients => Behind(current'.by, current'.n)
        /\ current'.n \in Nat
        /\ current'.kind \notin {"start", "delayed"} <=> Immediate(current')
    BY <2>2, <2>4, JobFacts DEF LoopInv, Numbered, JobType, StartJob, Immediate, Kinds, q
  <2>7. /\ lastRan' \in [Clients -> Nat]
        /\ Immediate(current') => lastRan'[current'.by] = current'.n
        /\ \A c \in Clients : lastRan'[c] # lastRan[c] => Immediate(current') /\ c = current'.by
    BY <1>1, <2>1, <2>6
  <2>8. ASSUME NEW c \in Clients, NEW n PROVE BehindNext(c, n) <=> Behind(c, n)
    BY <2>1 DEF Behind, BehindNext
  <2>9. \A c \in Clients : Behind(c, lastRan'[c])
    BY <2>6, <2>7 DEF LoopInv, Numbered
  <2>10. Numbered'
    <3>1. ASSUME NEW i \in 1 .. Len(r)
          PROVE  r[i].by \in Clients => BehindNext(r[i].by, r[i].n)
      <4>1. i + 1 \in 1 .. Len(q) /\ r[i] = q[i + 1]
        BY <2>2, <2>3
      <4>2. r[i].by \in Clients => Behind(r[i].by, r[i].n)
        BY <4>1 DEF LoopInv, Numbered, q
      <4>3. QED
        BY <2>8, <4>2
    <3>2. \A c \in Clients : BehindNext(c, lastRan'[c])
      BY <2>8, <2>9
    <3>3. \A k \in service'.timers :
             k.kind = "delayed" /\ (k.by \in Clients => BehindNext(k.by, k.n))
      BY <2>1, <2>8 DEF LoopInv, Numbered
    <3>4. \A c \in Clients : pc'[c] = "enqueue" => call'[c].by = c /\ call'[c].kind # "none"
      BY <2>1 DEF LoopInv, Numbered
    <3>5. QED
      BY <3>1, <3>2, <3>3, <3>4 DEF Numbered, Behind, BehindNext, r
  <2>11. Ordered'
    <3>1. ASSUME NEW i \in 1 .. Len(r), Immediate(r[i])
          PROVE  /\ lastRan'[r[i].by] < r[i].n
                 /\ \A k \in 1 .. Len(r) :
                       i < k /\ Immediate(r[k]) /\ r[k].by = r[i].by => r[i].n < r[k].n
      <4>1. /\ lastRan[q[i + 1].by] < q[i + 1].n
            /\ \A k \in 1 .. Len(q) :
                  i + 1 < k /\ Immediate(q[k]) /\ q[k].by = q[i + 1].by => q[i + 1].n < q[k].n
        BY <2>2, <2>3, <3>1 DEF LoopInv, Ordered, q
      <4>2. \A k \in 1 .. Len(r) : i < k => i + 1 < k + 1
        OBVIOUS
      <4>3. \A k \in 1 .. Len(r) :
               i < k /\ Immediate(r[k]) /\ r[k].by = r[i].by => r[i].n < r[k].n
        BY <2>2, <2>3, <4>1, <4>2
      <4>4. r[i].by \in Clients
        BY <2>5, <3>1, JobFacts
      <4>5. lastRan'[r[i].by] < r[i].n
        <5>1. CASE lastRan'[r[i].by] = lastRan[r[i].by]
          BY <2>2, <2>3, <4>1, <5>1
        <5>2. CASE lastRan'[r[i].by] # lastRan[r[i].by]
          <6>1. Immediate(q[1]) /\ r[i].by = q[1].by /\ lastRan'[r[i].by] = q[1].n
            BY <2>2, <2>7, <4>4, <5>2
          <6>2. q[1].n < q[i + 1].n
            BY <2>2, <2>3, <2>4, <3>1, <6>1 DEF LoopInv, Ordered, q
          <6>3. QED
            BY <2>2, <6>1, <6>2
        <5>3. QED
          BY <5>1, <5>2
      <4>6. QED
        BY <4>3, <4>5
    <3>2. QED
      BY <3>1 DEF Ordered, r
  <2>12. QED
    BY <2>10, <2>11
<1>9. ASSUME NEW c \in Clients, ClientNext(c) PROVE Numbered' /\ Ordered'
  <2>1. ASSUME NEW kind \in Kinds, NEW l \in {"enqueue", "waited"},
               call' = [call EXCEPT ![c] = [by |-> c, n |-> @.n + 1, kind |-> kind]],
               pc' = [pc EXCEPT ![c] = l], UNCHANGED <<service, lastRan>>
        PROVE  Numbered' /\ Ordered'
    <3>1. /\ call'[c].n = call[c].n + 1 /\ call'[c].by = c /\ call'[c].kind = kind
          /\ call[c].n \in Nat
          /\ \A d \in Clients \ {c} : call'[d] = call[d] /\ pc'[d] = pc[d]
      BY <1>1, <2>1 DEF CallType
    <3>2. ASSUME NEW d \in Clients, NEW n \in Nat, Behind(d, n) PROVE BehindNext(d, n)
      <4>1. CASE d = c
        BY <3>1, <3>2, <4>1 DEF Behind, BehindNext
      <4>2. CASE d # c
        BY <3>1, <3>2, <4>2 DEF Behind, BehindNext
      <4>3. QED
        BY <4>1, <4>2
    <3>3. ASSUME NEW i \in 1 .. Len(service.q)
          PROVE  service.q[i].by \in Clients => BehindNext(service.q[i].by, service.q[i].n)
      <4>1. service.q[i].n \in Nat
        BY <1>1, QueueFacts, JobFacts
      <4>2. QED
        BY <3>2, <4>1 DEF LoopInv, Numbered
    <3>4. \A k \in service.timers :
             k.kind = "delayed" /\ (k.by \in Clients => BehindNext(k.by, k.n))
      <4>1. \A k \in service.timers : k.n \in Nat
        BY <1>1, JobFacts DEF ServiceType
      <4>2. QED
        BY <3>2, <4>1 DEF LoopInv, Numbered
    <3>5. \A d \in Clients : BehindNext(d, lastRan[d])
      BY <1>1, <3>2 DEF LoopInv, Numbered
    <3>6. \A d \in Clients : pc'[d] = "enqueue" => call'[d].by = d /\ call'[d].kind # "none"
      BY <3>1, <2>1 DEF LoopInv, Numbered, Kinds
    <3>7. Numbered'
      BY <2>1, <3>3, <3>4, <3>5, <3>6 DEF Numbered, Behind, BehindNext
    <3>8. Ordered'
      BY <2>1 DEF LoopInv, Ordered
    <3>9. QED
      BY <3>7, <3>8
  <2>2. CASE Call(c) \/ WaitStarted(c)
    <3>1. PICK kind \in Kinds, l \in {"enqueue", "waited"} :
             /\ call' = [call EXCEPT ![c] = [by |-> c, n |-> @.n + 1, kind |-> kind]]
             /\ pc' = [pc EXCEPT ![c] = l] /\ UNCHANGED <<service, lastRan>>
      BY <2>2 DEF Call, WaitStarted, Register, Goto, Kinds, baseVars, ghostVars
    <3>2. QED
      BY <2>1, <3>1
  <2>3. CASE Enqueue(c)
    <3>1. /\ pc[c] = "enqueue" /\ UNCHANGED <<call, lastRan>>
          /\ pc'[c] # "enqueue" /\ \A d \in Clients \ {c} : pc'[d] = pc[d]
      BY <1>1, <2>3 DEF Enqueue, Goto
    <3>2. /\ call[c].by = c /\ call[c].n \in Nat /\ call[c].kind \in Kinds
          /\ call[c] = [by |-> c, n |-> call[c].n, kind |-> call[c].kind]
      BY <1>1, <3>1 DEF LoopInv, Numbered, CallType
    <3>3. ASSUME NEW d \in Clients, NEW n \in Nat, Behind(d, n) PROVE BehindNext(d, n)
      BY <3>1, <3>3 DEF Behind, BehindNext
    <3>4. BehindNext(c, call[c].n)
      BY <3>1, <3>2 DEF BehindNext
    <3>5. CASE call[c].kind \in {"post", "wait", "started"}
      <4>1. service'.q = Append(service.q, call[c]) /\ service'.timers = service.timers
        BY <1>1, <2>3, <3>5 DEF Enqueue, Posted, ServiceType
      <4>2. call[c] \in JobType
        BY <3>2, <3>5 DEF JobType, Kinds
      <4>3. lastRan[c] < call[c].n
        BY <3>1 DEF LoopInv, Numbered, Behind
      <4>4. \A i \in 1 .. Len(service.q) : service.q[i].by = c => service.q[i].n < call[c].n
        BY <3>1 DEF LoopInv, Numbered, Behind
      <4>5. QED
        BY <3>1, <3>2, <3>4, <4>1, <4>2, <4>3, <4>4, OrderAppend
    <3>6. CASE call[c].kind = "delayed"
      <4>1. service'.q = service.q /\ service'.timers = service.timers \cup {call[c]}
        BY <1>1, <2>3, <3>6 DEF Enqueue, ServiceType
      <4>2. \A k \in service'.timers :
               k.kind = "delayed" /\ (k.by \in Clients => BehindNext(k.by, k.n))
        <5>1. ASSUME NEW k \in service.timers
              PROVE  k.kind = "delayed" /\ (k.by \in Clients => BehindNext(k.by, k.n))
          <6>1. k.n \in Nat
            BY <1>1, JobFacts DEF ServiceType
          <6>2. QED
            BY <3>3, <6>1 DEF LoopInv, Numbered
        <5>2. QED
          BY <3>2, <3>4, <3>6, <4>1, <5>1
      <4>3. ASSUME NEW i \in 1 .. Len(service.q)
            PROVE  service.q[i].by \in Clients => BehindNext(service.q[i].by, service.q[i].n)
        <5>1. service.q[i].n \in Nat
          BY <1>1, QueueFacts, JobFacts
        <5>2. QED
          BY <3>3, <5>1 DEF LoopInv, Numbered
      <4>4. \A d \in Clients : BehindNext(d, lastRan[d])
        BY <1>1, <3>3 DEF LoopInv, Numbered
      <4>5. \A d \in Clients : pc'[d] = "enqueue" => call'[d].by = d /\ call'[d].kind # "none"
        BY <3>1 DEF LoopInv, Numbered
      <4>6. Numbered'
        BY <3>1, <4>1, <4>2, <4>3, <4>4, <4>5 DEF Numbered, Behind, BehindNext
      <4>7. Ordered'
        BY <3>1, <4>1 DEF LoopInv, Ordered
      <4>8. QED
        BY <4>6, <4>7
    <3>7. CASE call[c].kind = "zero"
      <4>1. service' = service
        BY <2>3, <3>7 DEF Enqueue
      <4>2. \A d \in Clients : pc'[d] = "enqueue" => pc[d] = "enqueue"
        BY <3>1
      <4>3. QED
        BY <3>1, <4>1, <4>2, OrderKept
    <3>8. QED
      BY <3>2, <3>5, <3>6, <3>7 DEF Kinds
  <2>4. CASE Waited(c)
    <3>1. UNCHANGED <<service, call, lastRan>>
      BY <2>4 DEF Waited, baseVars, ghostVars
    <3>2. \A d \in Clients : pc'[d] = "enqueue" => pc[d] = "enqueue"
      BY <1>1, <2>4 DEF Waited, Goto
    <3>3. QED
      BY <3>1, <3>2, OrderKept
  <2>5. QED
    BY <1>9, <2>2, <2>3, <2>4 DEF ClientNext
<1>10. QED
  BY <1>2, <1>3, <1>4, <1>5, <1>6, <1>7, <1>8, <1>9 DEF Next, ThreadNext, OwnerNext

(***************************************************************************)
(* The life of the loop's thread                                           *)
(***************************************************************************)

\* Every step keeps the thread between start() and the join in stop().
LEMMA ThreadLivesNext ==
    ASSUME LoopInv, [Next]_vars
    PROVE  ThreadLives'
<1> USE DEF LoopInv, ThreadLives
<1>1. CASE UNCHANGED vars
  BY <1>1 DEF vars, baseVars, loopVars, ownerVars, ghostVars
<1>2. CASE StartLoop \/ StartThread \/ StopLoop
  BY <1>2 DEF StartLoop, start_loop, StartThread, StopLoop, stop_loop, loopVars, ghostVars
<1>3. CASE StopReset
  BY <1>3 DEF StopReset, reset
<1>4. CASE Take \/ Finish \/ TimerFires
  BY <1>4 DEF Take, Finish, TimerFires, loopVars, ownerVars, ghostVars
<1>5. CASE RunReturn \/ NotifyStop
  BY <1>5 DEF RunReturn, NotifyStop, baseVars, ownerVars, ghostVars
<1>6. ASSUME NEW c \in Clients, ClientNext(c) PROVE ThreadLives'
  <2>1. UNCHANGED <<isRunning, thread, current, owner, onStop>>
    BY <1>6 DEF ClientNext, Call, WaitStarted, Register, Enqueue, Waited, baseVars,
                loopVars, ownerVars, ghostVars
  <2>2. QED
    BY <2>1
<1>7. QED
  BY <1>1, <1>2, <1>3, <1>4, <1>5, <1>6 DEF Next, ThreadNext, OwnerNext

(***************************************************************************)
(* The accounting of _queue_size                                           *)
(***************************************************************************)

\* What the accounting adds up is finite.
LEMMA SummandsFinite ==
    ASSUME LoopTypeOK
    PROVE  /\ IsFiniteSet(Pending) /\ Cardinality(Pending) \in Nat
           /\ Cardinality(service.timers) \in Nat /\ Len(service.q) \in Nat
           /\ InService \in Nat /\ Executing \in Nat
           /\ Live \in Int /\ leaked \in Nat /\ wiped \in Nat
<1>1. Pending \subseteq Clients
  BY DEF Pending
<1>2. IsFiniteSet(Pending) /\ Cardinality(Pending) \in Nat
  BY <1>1, ThreadsAssumption, FS_Subset, FS_CardinalityType
<1>3. Cardinality(service.timers) \in Nat
  BY FS_CardinalityType DEF LoopTypeOK
<1>4. Len(service.q) \in Nat
  BY DEF LoopTypeOK
<1>5. QED
  BY <1>2, <1>3, <1>4 DEF Live, InService, Executing, LoopTypeOK

\* A step keeps the accounting when the counter moves by as much as what is
\* outstanding does.
LEMMA AccountsStep ==
    ASSUME LoopInv, NEW n \in Int,
           Live' + leaked' - wiped' = Live + leaked - wiped + n,
           CountQueue(n) \/ (n = 0 /\ UNCHANGED queueSize)
    PROVE  QueueSizeAccounts' /\ queueSize' \in Nat
<1> DEFINE x == Live + leaked - wiped
<1>1. x \in Int /\ queueSize = x % QueueModulus
  BY SummandsFinite DEF LoopInv, QueueSizeAccounts
<1>2. Live' + leaked' - wiped' = x + n
  OBVIOUS
<1> HIDE DEF x
<1>3. queueSize' = (x + n) % QueueModulus
  <2>1. CASE CountQueue(n)
    BY <1>1, <2>1, CountWraps DEF CountQueue
  <2>2. CASE n = 0 /\ UNCHANGED queueSize
    BY <1>1, <2>2
  <2>3. QED
    BY <2>1, <2>2
<1>4. queueSize' \in Nat
  BY <1>1, <1>3, Division, QueueModulusAssumption
<1>5. QED
  BY <1>2, <1>3, <1>4 DEF QueueSizeAccounts

\* The two jobs that are no client's are told apart from all others.
LEMMA JobsDiffer == StartJob # NoJob /\ NoJob \notin JobType /\ StartJob \in JobType
BY JobFacts DEF StartJob, NoJob, JobType

\* Every step moves the counter by as much as what is outstanding moves.
LEMMA AccountsNext ==
    ASSUME LoopInv, [Next]_vars
    PROVE  QueueSizeAccounts' /\ queueSize' \in Nat
<1>1. /\ IsFiniteSet(Pending) /\ Cardinality(Pending) \in Nat
      /\ Cardinality(service.timers) \in Nat /\ Len(service.q) \in Nat
      /\ InService \in Nat /\ Executing \in Nat /\ leaked \in Nat /\ wiped \in Nat
  BY SummandsFinite DEF LoopInv
<1>2. /\ service \in ServiceType /\ service.q \in Seq(JobType)
      /\ IsFiniteSet(service.timers)
      /\ current \in JobType \cup {NoJob} /\ call \in [Clients -> CallType]
      /\ pc \in [Clients -> {"idle", "enqueue", "blocked", "waited"}]
      /\ QueueSizeAccounts /\ queueSize \in Nat
  BY DEF LoopInv, LoopTypeOK, ServiceType
<1>3. ASSUME UNCHANGED <<queueSize, leaked, wiped, current>>, Pending' = Pending,
             service'.q = service.q, service'.timers = service.timers
      PROVE  QueueSizeAccounts' /\ queueSize' \in Nat
  BY <1>2, <1>3 DEF QueueSizeAccounts, Live, InService, Executing
<1>4. /\ current' = current => Executing' = Executing
      /\ service' = service => InService' = InService
  BY DEF Executing, InService
<1>5. CASE UNCHANGED vars
  BY <1>3, <1>5 DEF vars, baseVars, loopVars, clientVars, ghostVars, Pending
<1>6. CASE StartLoop \/ StopLoop
  <2>1. service'.q = service.q /\ service'.timers = service.timers
    BY <1>2, <1>6 DEF StartLoop, StopLoop, start_loop, stop_loop, ServiceType
  <2>2. UNCHANGED <<queueSize, leaked, wiped, current, pc>>
    BY <1>6 DEF StartLoop, StopLoop, loopVars, clientVars, ghostVars
  <2>3. QED
    BY <1>3, <2>1, <2>2 DEF Pending
<1>7. CASE RunReturn \/ NotifyStop
  BY <1>3, <1>7 DEF RunReturn, NotifyStop, baseVars, clientVars, ghostVars, Pending
<1>8. CASE StartThread
  <2>1. /\ service'.q = Append(service.q, StartJob) /\ service'.timers = service.timers
        /\ CountQueue(1) /\ UNCHANGED <<leaked, wiped, current, pc>>
    BY <1>2, <1>8 DEF StartThread, Posted, ServiceType, clientVars, ghostVars
  <2>2. InService' = InService + 1
    <3>1. Len(service'.q) = Len(service.q) + 1
      BY <1>2, <2>1, QueueFacts, JobsDiffer
    <3>2. QED
      BY <1>1, <2>1, <3>1 DEF InService
  <2>3. Pending' = Pending
    BY <2>1 DEF Pending
  <2>4. Live' + leaked' - wiped' = Live + leaked - wiped + 1
    BY <1>1, <1>4, <2>1, <2>2, <2>3 DEF Live
  <2>5. QED
    BY <2>1, <2>4, AccountsStep
<1>9. CASE StopReset
  <2>1. /\ service'.q = <<>> /\ service'.timers = {} /\ queueSize' = 0 /\ leaked' = 0
        /\ wiped' = Cardinality(Pending) /\ current' = current /\ pc' = pc
        /\ thread = "exited"
    BY <1>9 DEF StopReset, reset, FreshService, clientVars
  <2>2. current' = NoJob
    BY <2>1 DEF LoopInv, ThreadLives
  <2>3. Pending' = Pending /\ Executing' = 0
    BY <2>1, <2>2 DEF Pending, Executing
  <2>4. InService' = 0
    BY <2>1, FS_EmptySet DEF InService
  <2>5. Live' + leaked' - wiped' = 0
    BY <1>1, <1>4, <2>1, <2>2, <2>3, <2>4 DEF Live
  <2>6. 0 % QueueModulus = 0
    BY QueueModulusAssumption
  <2>7. QED
    BY <2>1, <2>5, <2>6 DEF QueueSizeAccounts
<1>10. CASE Take
  <2>1. /\ service.q # <<>> /\ service'.q = Tail(service.q)
        /\ service'.timers = service.timers /\ current = NoJob
        /\ current' = Head(service.q) /\ UNCHANGED <<queueSize, leaked, wiped, pc>>
    BY <1>2, <1>10 DEF Take, CanTake, Taken, ServiceType, clientVars
  <2>2. Len(service'.q) = Len(service.q) - 1 /\ current' \in JobType
    BY <1>2, <2>1, QueueFacts
  <2>3. Executing = 0 /\ Executing' = 1
    BY <2>1, <2>2, JobsDiffer DEF Executing
  <2>4. Pending' = Pending /\ InService' = InService - 1
    BY <1>1, <2>1, <2>2 DEF Pending, InService
  <2>5. Live' + leaked' - wiped' = Live + leaked - wiped + 0
    BY <1>1, <2>1, <2>3, <2>4 DEF Live
  <2>6. QED
    BY <2>1, <2>5, AccountsStep
<1>11. CASE Finish
  <2>1. /\ current # NoJob /\ current' = NoJob /\ CountQueue(-1)
        /\ UNCHANGED <<service, leaked, wiped>>
    BY <1>11 DEF Finish
  <2>2. Pending' = Pending /\ Executing = 1 /\ Executing' = 0
    BY <1>2, <1>11 DEF Finish, Pending, Executing
  <2>3. Live' + leaked' - wiped' = Live + leaked - wiped + (-1)
    BY <1>1, <1>4, <2>1, <2>2 DEF Live
  <2>4. QED
    BY <2>1, <2>3, AccountsStep
<1>12. CASE TimerFires
  <2>1. PICK j \in service.timers : service' = TimerExpired(service, j)
    BY <1>12 DEF TimerFires
  <2>2. /\ service'.q = Append(service.q, j) /\ service'.timers = service.timers \ {j}
        /\ UNCHANGED <<queueSize, leaked, wiped, current, pc>> /\ j \in JobType
    BY <1>2, <1>12, <2>1 DEF TimerFires, TimerExpired, ServiceType, loopVars, clientVars, ghostVars
  <2>3. Len(service'.q) = Len(service.q) + 1
    BY <1>2, <2>2, QueueFacts
  <2>4. Cardinality(service'.timers) = Cardinality(service.timers) - 1
    <3>1. IsFiniteSet(service.timers)
      BY <1>2
    <3>2. Cardinality(service.timers \ {j}) = Cardinality(service.timers) - 1
      BY <3>1, FS_RemoveElement
    <3>3. QED
      BY <2>2, <3>2
  <2>5. Pending' = Pending
    BY <2>2 DEF Pending
  <2>6. Live' + leaked' - wiped' = Live + leaked - wiped + 0
    <3>1. Executing' = Executing /\ leaked' = leaked /\ wiped' = wiped
      BY <1>4, <2>2
    <3>2. InService' = InService
      BY <1>1, <2>3, <2>4 DEF InService
    <3>3. QED
      BY <1>1, <2>5, <3>1, <3>2 DEF Live
  <2>7. QED
    BY <2>2, <2>6, AccountsStep
<1>13. ASSUME NEW c \in Clients, ClientNext(c) PROVE QueueSizeAccounts' /\ queueSize' \in Nat
  <2>1. ASSUME NEW kind, Register(c, kind) PROVE QueueSizeAccounts' /\ queueSize' \in Nat
    <3>1. /\ CountQueue(1) /\ pc[c] = "idle" /\ pc' = [pc EXCEPT ![c] = "enqueue"]
          /\ UNCHANGED <<service, leaked, wiped, current>>
      BY <2>1 DEF Register, Goto, loopVars, ghostVars
    <3>2. Pending' = Pending \cup {c} /\ c \notin Pending
      BY <1>2, <3>1 DEF Pending
    <3>3. Cardinality(Pending') = Cardinality(Pending) + 1
      BY <1>1, <3>2, FS_AddElement
    <3>4. Live' + leaked' - wiped' = Live + leaked - wiped + 1
      BY <1>1, <1>4, <3>1, <3>3 DEF Live
    <3>5. QED
      BY <3>1, <3>4, AccountsStep
  <2>2. CASE Call(c)
    BY <2>1, <2>2 DEF Call
  <2>3. CASE WaitStarted(c)
    <3>1. CASE Register(c, "started")
      BY <2>1, <3>1
    <3>2. CASE ~Register(c, "started")
      <4>1. /\ pc[c] = "idle" /\ pc' = [pc EXCEPT ![c] = "waited"]
            /\ UNCHANGED <<queueSize, service, leaked, wiped, current>>
        BY <2>3, <3>2 DEF WaitStarted, Goto, baseVars, loopVars, ghostVars
      <4>2. Pending' = Pending
        BY <1>2, <4>1 DEF Pending
      <4>3. QED
        BY <1>3, <4>1, <4>2
    <3>3. QED
      BY <3>1, <3>2
  <2>4. CASE Enqueue(c)
    <3>1. /\ pc[c] = "enqueue" /\ pc'[c] # "enqueue"
          /\ \A d \in Clients \ {c} : pc'[d] = pc[d]
          /\ UNCHANGED <<queueSize, wiped, current, call>>
      BY <1>2, <2>4 DEF Enqueue, Goto, loopVars
    <3>2. Pending' = Pending \ {c} /\ c \in Pending
      BY <3>1 DEF Pending
    <3>3. Cardinality(Pending') = Cardinality(Pending) - 1
      BY <1>1, <3>2, FS_RemoveElement
    <3>4. /\ call[c].by = c /\ call[c].n \in Nat /\ call[c].kind \in Kinds
          /\ call[c] = [by |-> c, n |-> call[c].n, kind |-> call[c].kind]
      BY <1>2, <3>1 DEF LoopInv, Numbered, CallType
    <3>5. CASE call[c].kind \in {"post", "wait", "started"}
      <4>1. /\ service'.q = Append(service.q, call[c]) /\ service'.timers = service.timers
            /\ leaked' = leaked
        BY <1>2, <2>4, <3>5 DEF Enqueue, Posted, ServiceType
      <4>2. call[c] \in JobType
        BY <3>4, <3>5 DEF JobType, Kinds
      <4>3. InService' = InService + 1
        <5>1. Len(service'.q) = Len(service.q) + 1
          BY <1>2, <4>1, <4>2, QueueFacts
        <5>2. QED
          BY <1>1, <4>1, <5>1 DEF InService
      <4>4. Live' + leaked' - wiped' = Live + leaked - wiped + 0
        BY <1>1, <1>4, <3>1, <3>3, <4>1, <4>3 DEF Live
      <4>5. QED
        BY <3>1, <4>4, AccountsStep
    <3>6. CASE call[c].kind = "delayed"
      <4>1. /\ service'.q = service.q /\ service'.timers = service.timers \cup {call[c]}
            /\ leaked' = leaked
        BY <1>2, <2>4, <3>6 DEF Enqueue, ServiceType
      <4>2. call[c] \notin service.timers
        BY <3>1, <3>4 DEF LoopInv, Numbered, Behind
      <4>3. InService' = InService + 1
        <5>1. Cardinality(service'.timers) = Cardinality(service.timers) + 1
          BY <1>2, <4>1, <4>2, FS_AddElement
        <5>2. QED
          BY <1>1, <4>1, <5>1 DEF InService
      <4>4. Live' + leaked' - wiped' = Live + leaked - wiped + 0
        BY <1>1, <1>4, <3>1, <3>3, <4>1, <4>3 DEF Live
      <4>5. QED
        BY <3>1, <4>4, AccountsStep
    <3>7. CASE call[c].kind = "zero"
      <4>1. service' = service /\ leaked' = leaked + 1
        BY <2>4, <3>7 DEF Enqueue
      <4>2. Live' + leaked' - wiped' = Live + leaked - wiped + 0
        BY <1>1, <1>4, <3>1, <3>3, <4>1 DEF Live
      <4>3. QED
        BY <3>1, <4>2, AccountsStep
    <3>8. QED
      BY <3>4, <3>5, <3>6, <3>7 DEF Kinds
  <2>5. CASE Waited(c)
    <3>1. /\ pc[c] = "waited" /\ pc' = [pc EXCEPT ![c] = "idle"]
          /\ UNCHANGED <<queueSize, service, leaked, wiped, current>>
      BY <2>5 DEF Waited, Goto, baseVars, loopVars, ghostVars
    <3>2. Pending' = Pending
      BY <1>2, <3>1 DEF Pending
    <3>3. QED
      BY <1>3, <3>1, <3>2
  <2>6. QED
    BY <1>13, <2>2, <2>3, <2>4, <2>5 DEF ClientNext
<1>14. QED
  BY <1>5, <1>6, <1>7, <1>8, <1>9, <1>10, <1>11, <1>12, <1>13 DEF Next, ThreadNext, OwnerNext

\* Every step preserves the types.
LEMMA TypeNext ==
    ASSUME LoopInv, [Next]_vars
    PROVE  LoopTypeOK'
<1>1. /\ service \in ServiceType /\ service.q \in Seq(JobType)
      /\ service.timers \in SUBSET JobType /\ IsFiniteSet(service.timers)
      /\ queueSize \in Nat /\ leaked \in Nat /\ wiped \in Nat
      /\ current \in JobType \cup {NoJob} /\ call \in [Clients -> CallType]
      /\ pc \in [Clients -> {"idle", "enqueue", "blocked", "waited"}]
      /\ lastRan \in [Clients -> Nat] /\ Cardinality(Pending) \in Nat
  BY SummandsFinite DEF LoopInv, LoopTypeOK, ServiceType
<1>2. queueSize' \in Nat
  BY AccountsNext
<1>3. CASE UNCHANGED vars
  BY <1>3 DEF vars, baseVars, loopVars, clientVars, ghostVars, LoopInv, LoopTypeOK
<1>4. CASE StartLoop \/ StopLoop
  <2>1. service' \in ServiceType /\ service'.timers = service.timers
    BY <1>1, <1>4 DEF StartLoop, StopLoop, start_loop, stop_loop, ServiceType
  <2>2. UNCHANGED <<leaked, wiped, current, pc, call, lastRan>>
    BY <1>4 DEF StartLoop, StopLoop, loopVars, clientVars, ghostVars
  <2>3. QED
    BY <1>1, <1>2, <2>1, <2>2 DEF LoopTypeOK, ServiceType
<1>5. CASE RunReturn \/ NotifyStop
  <2>1. UNCHANGED <<service, leaked, wiped, current, pc, call, lastRan>>
    BY <1>5 DEF RunReturn, NotifyStop, baseVars, clientVars, ghostVars
  <2>2. QED
    BY <1>1, <1>2, <2>1 DEF LoopTypeOK, ServiceType
<1>6. CASE StartThread
  <2>1. Append(service.q, StartJob) \in Seq(JobType)
    BY <1>1, QueueFacts, JobsDiffer
  <2>2. service' \in ServiceType /\ service'.timers = service.timers
    BY <1>1, <1>6, <2>1 DEF StartThread, Posted, ServiceType
  <2>3. UNCHANGED <<leaked, wiped, current, pc, call, lastRan>>
    BY <1>6 DEF StartThread, clientVars, ghostVars
  <2>4. QED
    BY <1>1, <1>2, <2>2, <2>3 DEF LoopTypeOK, ServiceType
<1>7. CASE StopReset
  <2>1. service' \in ServiceType /\ IsFiniteSet(service'.timers)
    BY <1>7, FS_EmptySet DEF StopReset, reset, FreshService, ServiceType
  <2>2. /\ leaked' = 0 /\ wiped' = Cardinality(Pending)
        /\ UNCHANGED <<current, pc, call, lastRan>>
    BY <1>7 DEF StopReset, clientVars
  <2>3. QED
    BY <1>1, <1>2, <2>1, <2>2 DEF LoopTypeOK, ServiceType
<1>8. CASE Take
  <2>1. /\ service.q # <<>> /\ current' = Head(service.q) /\ service' = Taken(service)
        /\ UNCHANGED <<leaked, wiped, pc, call>>
        /\ lastRan' = IF current'.kind \in {"start", "delayed"} THEN lastRan
                      ELSE [lastRan EXCEPT ![current'.by] = current'.n]
    BY <1>8 DEF Take, CanTake, clientVars
  <2>2. Tail(service.q) \in Seq(JobType) /\ current' \in JobType
    BY <1>1, <2>1, QueueFacts
  <2>3. service' \in ServiceType /\ service'.timers = service.timers
    BY <1>1, <2>1, <2>2 DEF Taken, ServiceType
  <2>4. current'.n \in Nat
    BY <2>2, JobFacts
  <2>5. lastRan' \in [Clients -> Nat]
    BY <1>1, <2>1, <2>4
  <2>6. QED
    BY <1>1, <1>2, <2>1, <2>2, <2>3, <2>5 DEF LoopTypeOK, ServiceType
<1>9. CASE Finish
  <2>1. /\ current' = NoJob /\ UNCHANGED <<service, leaked, wiped, call, lastRan>>
    BY <1>9 DEF Finish
  <2>2. pc' \in [Clients -> {"idle", "enqueue", "blocked", "waited"}]
    BY <1>1, <1>9 DEF Finish
  <2>3. QED
    BY <1>1, <1>2, <2>1, <2>2 DEF LoopTypeOK, ServiceType
<1>10. CASE TimerFires
  <2>1. PICK j \in service.timers : service' = TimerExpired(service, j)
    BY <1>10 DEF TimerFires
  <2>2. Append(service.q, j) \in Seq(JobType)
    BY <1>1, QueueFacts
  <2>3. service' \in ServiceType /\ service'.timers = service.timers \ {j}
    BY <1>1, <2>1, <2>2 DEF TimerExpired, ServiceType
  <2>4. IsFiniteSet(service'.timers)
    BY <1>1, <2>3, FS_RemoveElement
  <2>5. UNCHANGED <<leaked, wiped, current, pc, call, lastRan>>
    BY <1>10 DEF TimerFires, loopVars, clientVars, ghostVars
  <2>6. QED
    BY <1>1, <1>2, <2>3, <2>4, <2>5 DEF LoopTypeOK, ServiceType
<1>11. ASSUME NEW c \in Clients, ClientNext(c) PROVE LoopTypeOK'
  <2>1. CASE Call(c) \/ WaitStarted(c)
    <3>1. PICK kind \in Kinds, l \in {"enqueue", "waited"} :
             /\ call' = [call EXCEPT ![c] = [by |-> c, n |-> @.n + 1, kind |-> kind]]
             /\ pc' = [pc EXCEPT ![c] = l]
             /\ UNCHANGED <<service, leaked, wiped, current, lastRan>>
      BY <2>1 DEF Call, WaitStarted, Register, Goto, Kinds, baseVars, loopVars, ghostVars
    <3>2. [by |-> c, n |-> call[c].n + 1, kind |-> kind] \in CallType
      BY <1>1 DEF CallType
    <3>3. call' \in [Clients -> CallType]
      BY <1>1, <3>1, <3>2
    <3>4. pc' \in [Clients -> {"idle", "enqueue", "blocked", "waited"}]
      BY <1>1, <3>1
    <3>5. QED
      BY <1>1, <1>2, <3>1, <3>3, <3>4 DEF LoopTypeOK, ServiceType
  <2>2. CASE Enqueue(c)
    <3>1. /\ pc[c] = "enqueue" /\ UNCHANGED <<wiped, current, call, lastRan>>
          /\ pc' \in [Clients -> {"idle", "enqueue", "blocked", "waited"}]
      BY <1>1, <2>2 DEF Enqueue, Goto, loopVars
    <3>2. /\ call[c].by = c /\ call[c].n \in Nat /\ call[c].kind \in Kinds
          /\ call[c] = [by |-> c, n |-> call[c].n, kind |-> call[c].kind]
      BY <1>1, <3>1 DEF LoopInv, Numbered, CallType
    <3>3. call[c].kind # "zero" => call[c] \in JobType
      BY <3>2 DEF JobType, Kinds
    <3>4. service' \in ServiceType /\ IsFiniteSet(service'.timers) /\ leaked' \in Nat
      <4>1. CASE call[c].kind \in {"post", "wait", "started"}
        <5>1. Append(service.q, call[c]) \in Seq(JobType)
          BY <1>1, <3>3, <4>1, QueueFacts
        <5>2. QED
          BY <1>1, <2>2, <4>1, <5>1 DEF Enqueue, Posted, ServiceType
      <4>2. CASE call[c].kind = "delayed"
        <5>1. /\ service' = [service EXCEPT !.timers = @ \cup {call[c]}] /\ leaked' = leaked
          BY <2>2, <4>2 DEF Enqueue
        <5>2. service' \in ServiceType /\ service'.timers = service.timers \cup {call[c]}
          BY <1>1, <3>3, <4>2, <5>1 DEF ServiceType
        <5>3. IsFiniteSet(service.timers \cup {call[c]})
          BY <1>1, FS_AddElement
        <5>4. QED
          BY <1>1, <5>1, <5>2, <5>3
      <4>3. CASE call[c].kind = "zero"
        BY <1>1, <2>2, <4>3 DEF Enqueue
      <4>4. QED
        BY <3>2, <4>1, <4>2, <4>3 DEF Kinds
    <3>5. QED
      BY <1>1, <1>2, <3>1, <3>4 DEF LoopTypeOK, ServiceType
  <2>3. CASE Waited(c)
    <3>1. UNCHANGED <<service, leaked, wiped, current, call, lastRan>>
      BY <2>3 DEF Waited, baseVars, loopVars, ghostVars
    <3>2. pc' \in [Clients -> {"idle", "enqueue", "blocked", "waited"}]
      BY <1>1, <2>3 DEF Waited, Goto
    <3>3. QED
      BY <1>1, <1>2, <3>1, <3>2 DEF LoopTypeOK, ServiceType
  <2>4. QED
    BY <1>11, <2>1, <2>2, <2>3 DEF ClientNext
<1>12. QED
  BY <1>3, <1>4, <1>5, <1>6, <1>7, <1>8, <1>9, <1>10, <1>11 DEF Next, ThreadNext, OwnerNext

\* A loop that was not started satisfies the invariant.
LEMMA InitLoopInv == Init => LoopInv
<1> SUFFICES ASSUME Init PROVE LoopInv
  OBVIOUS
<1>1. service.q = <<>> /\ service.timers = {} /\ Pending = {}
  BY DEF Init, InitBase, FreshService, Pending
<1>2. LoopTypeOK
  <2>1. service \in ServiceType /\ IsFiniteSet(service.timers)
    BY <1>1, FS_EmptySet DEF Init, InitBase, FreshService, ServiceType
  <2>2. NoJob \in CallType
    BY DEF NoJob, CallType
  <2>3. call \in [Clients -> CallType] /\ current = NoJob
    BY <2>2 DEF Init
  <2>4. QED
    BY <2>1, <2>3 DEF Init, InitBase, LoopTypeOK, ServiceType
<1>3. Numbered
  BY <1>1 DEF Init, Numbered, Behind, NoJob
<1>4. Ordered
  BY <1>1 DEF Ordered
<1>5. ThreadLives
  BY DEF Init, InitBase, ThreadLives
<1>6. QueueSizeAccounts
  <2>1. Cardinality({}) = 0 /\ 0 % QueueModulus = 0
    BY FS_EmptySet, QueueModulusAssumption
  <2>2. InService = 0 /\ Executing = 0 /\ Cardinality(Pending) = 0
    BY <1>1, <2>1 DEF Init, InService, Executing
  <2>3. QED
    BY <2>1, <2>2 DEF Init, InitBase, QueueSizeAccounts, Live
<1>7. QED
  BY <1>2, <1>3, <1>4, <1>5, <1>6 DEF LoopInv

\* Every step of an event_loop and its users preserves it.
LEMMA NextLoopInv == LoopInv /\ [Next]_vars => LoopInv'
BY TypeNext, OrderNext, ThreadLivesNext, AccountsNext DEF LoopInv

(***************************************************************************)
(* The event_loop by itself                                                *)
(***************************************************************************)

\* The invariant holds in every reachable state.
THEOREM LoopInvariance == Spec => []LoopInv
BY InitLoopInv, NextLoopInv, PTL DEF Spec

\* _queue_size is the number of registered callbacks that have not finished,
\* modulo the width of the counter and but for leaked and wiped increments,
\* whatever order clients, owner and thread take their steps in.
THEOREM LoopAccounting == Spec => []QueueSizeAccounts
<1>1. LoopInv => QueueSizeAccounts
  BY DEF LoopInv
<1>2. QED
  BY <1>1, LoopInvariance, PTL

\* What a step from a state of the invariant does to the order of invocations.
LEMMA InvokedNext == ASSUME LoopInv, Next PROVE InvokedStep
<1>1. /\ service.q \in Seq(JobType) /\ lastRan \in [Clients -> Nat] /\ ThreadLives
  BY DEF LoopInv, LoopTypeOK
<1>2. CASE Take
  <2>1. /\ service.q # <<>> /\ current' = Head(service.q) /\ thread = "run"
        /\ UNCHANGED <<owner, onStop>>
        /\ lastRan' = IF current'.kind \in {"start", "delayed"} THEN lastRan
                      ELSE [lastRan EXCEPT ![current'.by] = current'.n]
    BY <1>2 DEF Take, CanTake, ownerVars
  <2>2. current' = service.q[1] /\ current' \in JobType /\ 1 \in 1 .. Len(service.q)
    BY <1>1, <2>1, QueueFacts
  <2>3. /\ current'.n \in Nat
        /\ Immediate(current') <=> current'.by \in Clients /\ current'.kind # "delayed"
        /\ Immediate(current') <=> current'.kind \notin {"start", "delayed"}
        /\ Immediate(current') => lastRan[current'.by] < current'.n
    BY <2>2, JobFacts DEF LoopInv, Ordered, Immediate, JobType, StartJob, Kinds
  <2>4. onStop # 1
    BY <1>1, <2>1 DEF ThreadLives
  <2>5. ASSUME NEW c \in Clients
        PROVE  /\ lastRan'[c] >= lastRan[c]
               /\ current'.by = c /\ current'.kind # "delayed" => current'.n > lastRan[c]
    <3>1. CASE Immediate(current')
      BY <1>1, <2>1, <2>3, <3>1
    <3>2. CASE ~Immediate(current')
      BY <1>1, <2>1, <2>3, <3>2
    <3>3. QED
      BY <3>1, <3>2
  <2>6. QED
    BY <2>1, <2>4, <2>5 DEF InvokedStep
<1>3. CASE Finish
  <2>1. /\ current # NoJob /\ current' = NoJob /\ UNCHANGED <<lastRan, owner, onStop>>
    BY <1>3 DEF Finish, ownerVars
  <2>2. onStop # 1
    BY <1>1, <2>1 DEF ThreadLives
  <2>3. NoJob.by \notin Clients
    BY ThreadsAssumption DEF NoJob
  <2>4. QED
    BY <1>1, <2>1, <2>2, <2>3 DEF InvokedStep
<1>4. CASE ~Take /\ ~Finish
  <2>1. UNCHANGED <<current, lastRan>>
    BY <1>4 DEF Next, ThreadNext, OwnerNext, ClientNext, StartLoop, StartThread, StopLoop,
                StopReset, Call, WaitStarted, Register, Enqueue, Waited, TimerFires,
                RunReturn, NotifyStop, loopVars, ghostVars
  <2>2. owner = "stopping" /\ owner' = "idle" => thread = "exited"
    BY <1>4 DEF Next, ThreadNext, OwnerNext, ClientNext, StartLoop, StartThread, StopLoop,
                StopReset, Call, WaitStarted, Register, Enqueue, Waited, TimerFires,
                RunReturn, NotifyStop, ownerVars
  <2>3. QED
    BY <1>1, <2>1, <2>2 DEF InvokedStep, ThreadLives
<1>5. QED
  BY <1>2, <1>3, <1>4

\* The callbacks of a client are invoked in the order of its calls and once, and
\* stop() returns only after the on_stop callbacks, which are the last.
THEOREM LoopOrder == Spec => InvokedInOrder
<1>1. LoopInv /\ [Next]_vars => [InvokedStep]_vars
  BY InvokedNext
<1>2. QED
  BY <1>1, LoopInvariance, PTL DEF Spec, InvokedInOrder

(***************************************************************************)
(* The event_loop with timers                                              *)
(***************************************************************************)

\* A timer's steps are steps of the event_loop, or none of its; only the start
\* of a periodical timer by itself is new.
LEMMA TimersStep == TimersNext => [Next]_vars \/ AgainStore
<1> SUFFICES ASSUME TimersNext PROVE [Next]_vars \/ AgainStore
  OBVIOUS
<1>1. CASE TimerFires \/ RunReturn \/ NotifyStop \/ StartThread \/ StopLoop \/ StopReset \/ StartLoop
  BY <1>1 DEF Next, ThreadNext, OwnerNext
<1>2. CASE \E c \in Clients : Rest(c)
  BY <1>2 DEF Next, ClientNext, Rest
<1>3. CASE \E c \in Clients, op \in {"start", "stop"} : Begin(c, op)
  BY <1>3 DEF Begin
<1>4. CASE \E c \in Clients : Start(c)
  BY <1>4 DEF Start, Next, ClientNext, Call, Kinds
<1>5. CASE \E c \in Clients : Stop(c)
  BY <1>5 DEF Stop
<1>6. CASE TimerTake \/ TimerFinish
  BY <1>6 DEF TimerTake, TimerFinish, Next, ThreadNext
<1>7. CASE AgainLoad \/ Ring \/ CallbackLoad \/ CallbackStop
  BY <1>7 DEF AgainLoad, Ring, CallbackLoad, CallbackStop
<1>8. QED
  BY <1>1, <1>2, <1>3, <1>4, <1>5, <1>6, <1>7 DEF TimersNext

\* The start of a periodical timer in its own callback preserves the invariant:
\* the new period is a timer the io_service did not have.
LEMMA AgainStoreLoopInv ==
    ASSUME TimersIInv, AgainStore
    PROVE  LoopInv'
<1>1. /\ service \in ServiceType /\ IsFiniteSet(service.timers) /\ periods \in Nat
      /\ LoopInv
  BY DEF TimersIInv, LoopInv, LoopTypeOK, ServiceType, PeriodsNumbered
<1> DEFINE j == Again(periods + 1)
<1>2. /\ CountQueue(1) /\ service' = [service EXCEPT !.timers = @ \cup {j}]
      /\ UNCHANGED <<loopVars, isRunning, ownerVars, clientVars, ghostVars>>
  BY DEF AgainStore, Started
<1>3. j \in JobType /\ j.kind = "delayed" /\ j.by \notin Clients
  BY <1>1, TimersAssumption DEF JobType, Again
<1>4. j \notin service.timers
  BY <1>1 DEF TimersIInv, PeriodsNumbered, Again
<1> HIDE DEF j
<1>5. /\ service' \in ServiceType /\ service'.q = service.q
      /\ service'.timers = service.timers \cup {j}
  BY <1>1, <1>2, <1>3 DEF ServiceType
<1>6. /\ IsFiniteSet(service'.timers)
      /\ Cardinality(service'.timers) = Cardinality(service.timers) + 1
  BY <1>1, <1>4, <1>5, FS_AddElement
<1>7. /\ InService \in Nat /\ Executing \in Nat /\ leaked \in Nat /\ wiped \in Nat
      /\ Cardinality(Pending) \in Nat /\ Len(service.q) \in Nat
      /\ Cardinality(service.timers) \in Nat
  BY <1>1, SummandsFinite DEF LoopInv
<1>8. InService' = InService + 1
  BY <1>5, <1>6, <1>7 DEF InService
<1>9. Executing' = Executing /\ Pending' = Pending /\ leaked' = leaked /\ wiped' = wiped
  BY <1>2 DEF loopVars, clientVars, ghostVars, Executing, Pending
<1>10. Live' + leaked' - wiped' = Live + leaked - wiped + 1
  BY <1>7, <1>8, <1>9 DEF Live
<1>11. QueueSizeAccounts' /\ queueSize' \in Nat
  BY <1>1, <1>2, <1>10, AccountsStep
<1>12. LoopTypeOK'
  BY <1>1, <1>2, <1>5, <1>6, <1>11
     DEF LoopInv, LoopTypeOK, ServiceType, loopVars, clientVars, ghostVars
<1>13. Numbered' /\ Ordered'
  <2>1. UNCHANGED <<call, pc, lastRan>>
    BY <1>2 DEF clientVars, ghostVars
  <2>2. Numbered'
    BY <1>1, <1>3, <1>5, <2>1 DEF LoopInv, Numbered, Behind
  <2>3. Ordered'
    BY <1>1, <1>5, <2>1 DEF LoopInv, Ordered
  <2>4. QED
    BY <2>2, <2>3
<1>14. ThreadLives'
  BY <1>1, <1>2 DEF LoopInv, ThreadLives, loopVars, ownerVars, ghostVars
<1>15. QED
  BY <1>11, <1>12, <1>13, <1>14 DEF LoopInv

\* Periods keep their numbers; nothing else is numbered for the loop's thread.
LEMMA PeriodsNext ==
    ASSUME TimersIInv, [TimersNext]_allVars
    PROVE  PeriodsNumbered'
<1>1. /\ service \in ServiceType /\ periods \in Nat /\ LoopInv
      /\ \A k \in service.timers : k.by = Loop => k.n <= periods
      /\ \A k \in service.timers : k.n \in Nat
  BY JobFacts DEF TimersIInv, LoopInv, LoopTypeOK, ServiceType, PeriodsNumbered
<1>2. CASE AgainStore
  <2>1. /\ periods' = periods + 1 /\ service'.timers = service.timers \cup {Again(periods + 1)}
    BY <1>1, <1>2 DEF AgainStore, Started, ServiceType
  <2>2. Again(periods + 1).n = periods + 1
    BY DEF Again
  <2>3. \A k \in service'.timers : k.by = Loop => k.n <= periods + 1
    BY <1>1, <2>1, <2>2
  <2>4. QED
    BY <1>1, <2>1, <2>3 DEF PeriodsNumbered
<1>3. CASE ~AgainStore
  <2>1. periods' = periods
    BY <1>3 DEF TimersNext, allVars, timerVars, Begin, Start, Stop, TimerTake, TimerFinish,
                AgainLoad, Ring, CallbackLoad, CallbackStop
  <2>2. [Next]_vars
    BY <1>3, TimersStep DEF allVars
  <2>3. \A k \in service'.timers : k \in service.timers \/ k.by \in Clients
    <3>1. CASE UNCHANGED service
      BY <3>1
    <3>2. CASE StartLoop \/ StopLoop \/ StartThread \/ Take \/ TimerFires \/ StopReset
      <4>1. CASE StartLoop \/ StopLoop
        BY <1>1, <4>1 DEF StartLoop, start_loop, StopLoop, stop_loop, ServiceType
      <4>2. CASE StartThread
        BY <1>1, <4>2 DEF StartThread, Posted, ServiceType
      <4>3. CASE Take
        BY <1>1, <4>3 DEF Take, Taken, ServiceType
      <4>4. CASE TimerFires
        <5>1. PICK j \in service.timers : service' = TimerExpired(service, j)
          BY <4>4 DEF TimerFires
        <5>2. service'.timers = service.timers \ {j}
          BY <1>1, <5>1 DEF TimerExpired, ServiceType
        <5>3. QED
          BY <5>2
      <4>5. CASE StopReset
        BY <4>5 DEF StopReset, reset, FreshService
      <4>6. QED
        BY <3>2, <4>1, <4>2, <4>3, <4>4, <4>5
    <3>3. ASSUME NEW c \in Clients, Enqueue(c)
          PROVE  \A k \in service'.timers : k \in service.timers \/ k.by \in Clients
      <4>1. call[c].by = c
        BY <1>1, <3>3 DEF LoopInv, Numbered, Enqueue
      <4>2. QED
        BY <1>1, <3>3, <4>1 DEF Enqueue, Posted, ServiceType
    <3>4. QED
      BY <2>2, <3>1, <3>2, <3>3 DEF Next, ThreadNext, OwnerNext, ClientNext, Call, WaitStarted,
         Register, Waited, Finish, RunReturn, NotifyStop, vars, baseVars
  <2>4. QED
    BY <1>1, <2>1, <2>3, TimersAssumption DEF PeriodsNumbered
<1>4. QED
  BY <1>2, <1>3

\* The invariant holds in every reachable state of a loop whose clients use a
\* timer.
THEOREM TimersInvariance == TimersSpec => []TimersIInv
<1>1. TimersInit => TimersIInv
  BY InitLoopInv DEF TimersInit, Init, InitBase, FreshService, TimersIInv, PeriodsNumbered
<1>2. TimersIInv /\ [TimersNext]_allVars => TimersIInv'
  <2> SUFFICES ASSUME TimersIInv, [TimersNext]_allVars PROVE TimersIInv'
    OBVIOUS
  <2>1. [Next]_vars \/ AgainStore
    BY TimersStep DEF allVars
  <2>2. LoopInv'
    BY <2>1, NextLoopInv, AgainStoreLoopInv DEF TimersIInv
  <2>3. QED
    BY <2>2, PeriodsNext DEF TimersIInv
<1>3. QED
  BY <1>1, <1>2, PTL DEF TimersSpec

\* With timers, too, _queue_size is the number of callbacks still to end.
THEOREM TimersAccounting == TimersSpec => []QueueSizeAccounts
<1>1. TimersIInv => QueueSizeAccounts
  BY DEF TimersIInv, LoopInv
<1>2. QED
  BY <1>1, TimersInvariance, PTL

\* Nor do timers disturb the order of the callbacks.
THEOREM TimersOrder == TimersSpec => InvokedInOrder
<1>1. TimersIInv /\ [TimersNext]_allVars => [InvokedStep]_vars
  <2> SUFFICES ASSUME TimersIInv, [TimersNext]_allVars, ~UNCHANGED vars PROVE InvokedStep
    OBVIOUS
  <2>1. CASE AgainStore
    <3>1. UNCHANGED <<current, lastRan, owner>> /\ lastRan \in [Clients -> Nat]
      BY <2>1 DEF AgainStore, loopVars, ownerVars, ghostVars, TimersIInv, LoopInv, LoopTypeOK
    <3>2. QED
      BY <3>1 DEF InvokedStep
  <2>2. CASE Next
    BY <2>2, InvokedNext DEF TimersIInv
  <2>3. QED
    BY <2>1, <2>2, TimersStep DEF allVars
<1>2. QED
  BY <1>1, TimersInvariance, PTL DEF TimersSpec, InvokedInOrder

(***************************************************************************)
(* The ids of a timer                                                      *)
(***************************************************************************)

\* The numbers of a client's calls only grow.
LEMMA CallsGrow ==
    ASSUME LoopInv, [Next]_vars \/ AgainStore, NEW c \in Clients
    PROVE  call[c].n \in Nat /\ call'[c].n \in Nat /\ call'[c].n >= call[c].n
<1>1. call \in [Clients -> CallType] /\ call[c].n \in Nat
  BY DEF LoopInv, LoopTypeOK, CallType
<1>2. CASE UNCHANGED call
  BY <1>1, <1>2
<1>3. ASSUME NEW d \in Clients, NEW kind,
             call' = [call EXCEPT ![d] = [by |-> d, n |-> @.n + 1, kind |-> kind]]
      PROVE  call'[c].n \in Nat /\ call'[c].n >= call[c].n
  BY <1>1, <1>3
<1>4. CASE \E d \in Clients : Call(d) \/ WaitStarted(d)
  <2>1. PICK d \in Clients, kind \in Kinds :
           call' = [call EXCEPT ![d] = [by |-> d, n |-> @.n + 1, kind |-> kind]]
    BY <1>4 DEF Call, WaitStarted, Register, Kinds
  <2>2. QED
    BY <1>1, <1>3, <2>1
<1>5. QED
  BY <1>2, <1>4 DEF AgainStore, Next, ThreadNext, OwnerNext, ClientNext, StartLoop, StartThread,
     StopLoop, StopReset, Enqueue, Waited, Take, Finish, TimerFires, RunReturn, NotifyStop,
     vars, clientVars

\* Steps outside start() and stop() of the timer; the loop may begin a callback
\* that is going to ring.
LEMMA SilenceFrame ==
    ASSUME SilenceIInv, UNCHANGED <<value, use, id, root, ended, escaped, late, raced, periods>>,
           \A c \in Clients : call'[c].n \in Nat /\ call[c].n \in Nat /\ call'[c].n >= call[c].n,
           \/ phase' \in {"again", "ring"} => phase' = phase /\ current' = current
           \/ current' \in Starts /\ id[current'] = value
    PROVE  Silence'
<1>1. use' = [t \in Users |-> use'[t]]
  BY DEF SilenceIInv, Silence
<1>2. StartsNumbered'
  <2>1. \A j \in Starts : /\ j.by \in Users /\ j.n \in Nat
                          /\ j.n <= IF j.by = Loop THEN periods ELSE call[j.by].n
    BY DEF SilenceIInv, Silence, StartsNumbered
  <2>2. \A j \in Starts : j.n <= IF j.by = Loop THEN periods' ELSE call'[j.by].n
    BY <2>1 DEF Users
  <2>3. QED
    BY <2>2 DEF SilenceIInv, Silence, StartsNumbered, Starts
<1>3. UsesKnown'
  BY DEF SilenceIInv, Silence, UsesKnown, Starts
<1>4. ASSUME ~raced PROVE IdsInTurn'
  <2>1. IdsInTurn
    BY <1>4 DEF SilenceIInv, Silence
  <2>2. value \in Nat
    BY DEF SilenceIInv, Silence, StartsNumbered
  <2>3. phase' \in {"again", "ring"} =>
           root[current'] \notin ended \ escaped \/ (phase' = "ring" /\ current' \in late)
    BY <2>1, <2>2 DEF IdsInTurn
  <2>4. QED
    BY <2>1, <2>3 DEF IdsInTurn, Starts
<1>5. AgainStart'
  BY DEF SilenceIInv, Silence, AgainStart, Starts
<1>6. QED
  BY <1>1, <1>2, <1>3, <1>4, <1>5 DEF Silence

\* The load of an increment.
LEMMA SilenceLoad ==
    ASSUME SilenceIInv, NEW t \in Users, NEW op \in {"start", "stop"}, Load(t, op),
           UNCHANGED <<call, periods, current>>
    PROVE  Silence'
<1>1. /\ use[t] = NoUse /\ UNCHANGED <<value, id, phase, root, ended, escaped, late>>
      /\ use' = [use EXCEPT ![t] = [op |-> op, value |-> value, seen |-> Starts]]
      /\ raced' = (raced \/ \E u \in Users : use[u] # NoUse)
  BY DEF Load
<1>2. /\ use' = [u \in Users |-> use'[u]]
      /\ use'[t] = [op |-> op, value |-> value, seen |-> Starts]
      /\ \A u \in Users \ {t} : use'[u] = use[u]
  BY <1>1 DEF SilenceIInv, Silence
<1>3. StartsNumbered'
  BY <1>1 DEF SilenceIInv, Silence, StartsNumbered, Starts
<1>4. UsesKnown'
  <2>1. value \in Nat /\ Starts' = Starts
    BY <1>1 DEF SilenceIInv, Silence, StartsNumbered, Starts
  <2>2. QED
    BY <1>2, <2>1 DEF SilenceIInv, Silence, UsesKnown
<1>5. ASSUME ~raced' PROVE IdsInTurn'
  <2>1. IdsInTurn /\ \A u \in Users : use[u] = NoUse
    BY <1>1, <1>5 DEF SilenceIInv, Silence
  <2>2. \A u \in Users : use'[u] # NoUse => u = t
    BY <1>2, <2>1
  <2>3. QED
    BY <1>1, <1>2, <2>1, <2>2 DEF IdsInTurn, Starts
<1>6. AgainStart'
  BY <1>1 DEF SilenceIInv, Silence, AgainStart, Starts
<1>7. QED
  BY <1>2, <1>3, <1>4, <1>5, <1>6 DEF Silence

\* The store of an increment by a user, which ends all that was started before,
\* with the start it belongs to, if any.
LEMMA SilenceStore ==
    ASSUME SilenceIInv, NEW t \in Users, use[t] # NoUse, Store(t), use[t].op = "stop" \/ t # Loop,
           UNCHANGED <<periods, phase, current>>,
           \A c \in Clients : call'[c].n \in Nat /\ call[c].n \in Nat /\ call'[c].n >= call[c].n,
           \/ UNCHANGED <<id, root>>
           \/ \E j : /\ j \notin Starts /\ Started(j, t, j)
                     /\ j.by \in Clients /\ j.n \in Nat /\ j.kind = "delayed" /\ j.n <= call'[j.by].n
    PROVE  Silence'
<1>1. /\ value' = use[t].value + 1 /\ use' = [use EXCEPT ![t] = NoUse] /\ raced' = raced
      /\ ended' = ended \cup {root[j] : j \in use[t].seen}
      /\ escaped' = IF phase = "again" THEN escaped \cup {root[current]} ELSE escaped
      /\ late' = IF phase = "ring" THEN late \cup {current} ELSE late
  BY DEF Store
<1>2. /\ StartsNumbered /\ UsesKnown /\ AgainStart /\ use = [u \in Users |-> use[u]]
  BY DEF SilenceIInv, Silence
<1>3. use[t].value \in Nat /\ use[t].seen \subseteq Starts
  BY <1>2 DEF UsesKnown
<1>4. /\ use' = [u \in Users |-> use'[u]] /\ use'[t] = NoUse
      /\ \A u \in Users \ {t} : use'[u] = use[u]
  BY <1>1, <1>2
<1>5. ended' \subseteq Starts
  BY <1>1, <1>2, <1>3 DEF StartsNumbered
<1>6. /\ Starts \subseteq Starts' /\ DOMAIN root' = Starts'
      /\ \A j \in Starts : id'[j] = id[j] /\ root'[j] = root[j]
      /\ \A j \in Starts' \ Starts :
            /\ id'[j] = value' /\ root'[j] = j
            /\ j.by \in Clients /\ j.n \in Nat /\ j.kind = "delayed" /\ j.n <= call'[j.by].n
  <2>1. DOMAIN root = Starts
    BY <1>2 DEF StartsNumbered
  <2>2. CASE UNCHANGED <<id, root>>
    BY <2>1, <2>2 DEF Starts
  <2>3. ASSUME NEW j, j \notin Starts, Started(j, t, j)
        PROVE  /\ Starts' = Starts \cup {j} /\ DOMAIN root' = Starts' /\ id'[j] = value' /\ root'[j] = j
               /\ \A k \in Starts : id'[k] = id[k] /\ root'[k] = root[k]
    BY <1>1, <2>1, <2>3 DEF Started, With, TakenId, Starts
  <2>4. QED
    BY <2>2, <2>3
<1>7. StartsNumbered'
  <2>1. value' \in Nat
    BY <1>1, <1>3
  <2>2. ASSUME NEW j \in Starts
        PROVE  /\ id'[j] \in Nat /\ root'[j] \in Starts'
               /\ j.by \in Users /\ j.n \in Nat /\ j.kind = "delayed"
               /\ j.n <= IF j.by = Loop THEN periods' ELSE call'[j.by].n
    <3>1. /\ id[j] \in Nat /\ root[j] \in Starts
          /\ j.by \in Users /\ j.n \in Nat /\ j.kind = "delayed"
          /\ j.n <= IF j.by = Loop THEN periods ELSE call[j.by].n
      BY <1>2 DEF StartsNumbered
    <3>2. QED
      BY <1>6, <3>1 DEF Users
  <2>3. ASSUME NEW j \in Starts' \ Starts
        PROVE  /\ id'[j] \in Nat /\ root'[j] \in Starts'
               /\ j.by \in Users /\ j.n \in Nat /\ j.kind = "delayed"
               /\ j.n <= IF j.by = Loop THEN periods' ELSE call'[j.by].n
    BY <1>6, <2>1, TimersAssumption DEF Users
  <2>4. QED
    BY <1>5, <1>6, <2>1, <2>2, <2>3 DEF StartsNumbered
<1>8. UsesKnown'
  BY <1>2, <1>4, <1>6 DEF UsesKnown
<1>9. ASSUME ~raced PROVE IdsInTurn'
  <2>1. /\ \A u \in Users : use[u] # NoUse => u = t
        /\ use[t].value = value /\ use[t].seen = Starts
        /\ \A j \in Starts : id[j] <= value
        /\ phase \in {"again", "ring"} => current \in Starts
    BY <1>9 DEF SilenceIInv, Silence, IdsInTurn, AgainStart
  <2>2. \A u \in Users : use'[u] = NoUse
    BY <1>4, <2>1
  <2>3. value \in Nat /\ value' = value + 1 /\ \A j \in Starts : id[j] \in Nat
    BY <1>1, <1>2, <2>1 DEF StartsNumbered
  <2>4. \A j \in Starts : id'[j] < value' /\ id'[j] <= value'
    BY <1>6, <2>1, <2>3
  <2>5. \A j \in Starts' \ Starts : id'[j] <= value' /\ root'[j] \notin ended'
    BY <1>5, <1>6, <2>3
  <2>6. phase' \in {"again", "ring"} =>
           root'[current'] \notin ended' \ escaped' \/ (phase' = "ring" /\ current' \in late')
    BY <1>1, <1>6, <2>1
  <2>7. QED
    BY <2>2, <2>4, <2>5, <2>6 DEF IdsInTurn
<1>10. AgainStart'
  BY <1>2, <1>6 DEF AgainStart
<1>11. QED
  BY <1>1, <1>4, <1>7, <1>8, <1>9, <1>10 DEF Silence

\* The periodical timer's own start: its root was not ended, or escaped.
LEMMA SilenceAgain ==
    ASSUME SilenceIInv, AgainStore
    PROVE  Silence'
<1> DEFINE k == Again(periods + 1)
<1>1. /\ StartsNumbered /\ UsesKnown /\ use = [u \in Users |-> use[u]]
      /\ periods \in Nat /\ Loop \in Users
  BY DEF SilenceIInv, Silence, TimersIInv, PeriodsNumbered, Users
<1>2. /\ value' = use[Loop].value + 1 /\ use' = [use EXCEPT ![Loop] = NoUse]
      /\ UNCHANGED <<raced, ended, escaped, current, call>> /\ periods' = periods + 1
      /\ phase = "again" /\ phase' = "ring" /\ use[Loop].op = "start"
      /\ Started(k, Loop, root[current])
  BY DEF AgainStore, Store, loopVars, clientVars
<1>3. use[Loop] # NoUse
  BY <1>2 DEF NoUse
<1>4. use[Loop].value \in Nat
  BY <1>1, <1>3 DEF UsesKnown
<1>5. k.by = Loop /\ k.n = periods + 1 /\ k.kind = "delayed"
  BY DEF Again
<1> HIDE DEF k
<1>6. k \notin Starts
  BY <1>1, <1>5 DEF StartsNumbered
<1>7. /\ use' = [u \in Users |-> use'[u]] /\ use'[Loop] = NoUse
      /\ \A u \in Users \ {Loop} : use'[u] = use[u]
  BY <1>1, <1>2
<1>8. /\ Starts' = Starts \cup {k} /\ DOMAIN root' = Starts'
      /\ id'[k] = value' /\ root'[k] = root[current]
      /\ \A j \in Starts : id'[j] = id[j] /\ root'[j] = root[j]
  BY <1>1, <1>2, <1>6 DEF Started, With, TakenId, Starts, StartsNumbered
<1>9. current \in Starts /\ root[current] \in Starts
  BY <1>1, <1>2 DEF StartsNumbered, SilenceIInv, Silence, AgainStart
<1>10. value' \in Nat
  BY <1>2, <1>4
<1>11. StartsNumbered'
  <2>1. ASSUME NEW j \in Starts
        PROVE  /\ id'[j] \in Nat /\ root'[j] \in Starts'
               /\ j.by \in Users /\ j.n \in Nat /\ j.kind = "delayed"
               /\ j.n <= IF j.by = Loop THEN periods' ELSE call'[j.by].n
    <3>1. /\ id[j] \in Nat /\ root[j] \in Starts
          /\ j.by \in Users /\ j.n \in Nat /\ j.kind = "delayed"
          /\ j.n <= IF j.by = Loop THEN periods ELSE call[j.by].n
      BY <1>1 DEF StartsNumbered
    <3>2. QED
      BY <1>1, <1>2, <1>8, <3>1
  <2>2. /\ id'[k] \in Nat /\ root'[k] \in Starts' /\ k.by \in Users /\ k.n \in Nat
        /\ k.kind = "delayed" /\ k.n <= IF k.by = Loop THEN periods' ELSE call'[k.by].n
    BY <1>1, <1>2, <1>5, <1>8, <1>9, <1>10
  <2>3. ended' \subseteq Starts'
    BY <1>1, <1>2, <1>8 DEF StartsNumbered
  <2>4. QED
    BY <1>8, <1>10, <2>1, <2>2, <2>3 DEF StartsNumbered
<1>12. UsesKnown' /\ AgainStart'
  BY <1>1, <1>2, <1>7, <1>8, <1>9 DEF UsesKnown, AgainStart
<1>13. ASSUME ~raced PROVE IdsInTurn'
  <2>1. /\ \A u \in Users : use[u] # NoUse => u = Loop
        /\ use[Loop].value = value
        /\ \A j \in Starts : id[j] <= value /\ (root[j] \in ended \ escaped => id[j] < value)
        /\ root[current] \notin ended \ escaped
    BY <1>1, <1>2, <1>3, <1>13 DEF SilenceIInv, Silence, IdsInTurn
  <2>2. \A u \in Users : use'[u] = NoUse
    BY <1>7, <2>1
  <2>3. value \in Nat /\ value' = value + 1 /\ \A j \in Starts : id[j] \in Nat
    BY <1>1, <1>2, <2>1 DEF StartsNumbered
  <2>4. \A j \in Starts : id'[j] < value' /\ id'[j] <= value'
    BY <1>8, <2>1, <2>3
  <2>5. id'[k] <= value' /\ root'[k] \notin ended' \ escaped'
    BY <1>2, <1>8, <1>10, <2>1
  <2>6. root'[current'] \notin ended' \ escaped'
    BY <1>2, <1>8, <1>9, <2>1
  <2>7. QED
    BY <1>8, <2>2, <2>4, <2>5, <2>6 DEF IdsInTurn
<1>14. QED
  BY <1>2, <1>7, <1>11, <1>12, <1>13 DEF Silence

\* Every step keeps the ids of the timer in turn.
LEMMA SilenceNext ==
    ASSUME SilenceIInv, [TimersNext]_allVars
    PROVE  Silence'
<1>1. /\ LoopInv /\ StartsNumbered /\ AgainStart /\ use = [t \in Users |-> use[t]]
  BY DEF SilenceIInv, Silence, TimersIInv
<1>2. \A c \in Clients : call'[c].n \in Nat /\ call[c].n \in Nat /\ call'[c].n >= call[c].n
  BY <1>1, CallsGrow, TimersStep DEF allVars
<1>3. Clients \subseteq Users /\ Loop \in Users
  BY DEF Users
<1>4. CASE UNCHANGED <<timerVars, current>>
  BY <1>2, <1>4, SilenceFrame DEF timerVars
<1>5. CASE TimerTake
  <2>1. phase \notin {"again", "ring"}
    <3>1. current = NoJob /\ NoJob \notin Starts
      BY <1>1, <1>5 DEF TimerTake, Take, StartsNumbered, NoJob
    <3>2. QED
      BY <1>1, <3>1 DEF AgainStart
  <2>2. \/ phase' \in {"again", "ring"} => phase' = phase /\ current' = current
        \/ current' \in Starts /\ id[current'] = value
    BY <1>5, <2>1 DEF TimerTake, Rings
  <2>3. QED
    BY <1>2, <1>5, <2>2, SilenceFrame DEF TimerTake
<1>6. CASE TimerFinish \/ Ring
  <2>1. phase' \notin {"again", "ring"}
    BY <1>6 DEF TimerFinish, Ring
  <2>2. UNCHANGED <<value, use, id, root, ended, escaped, late, raced, periods>>
    BY <1>6 DEF TimerFinish, Ring
  <2>3. QED
    BY <1>2, <2>1, <2>2, SilenceFrame
<1>7. CASE \E c \in Clients, op \in {"start", "stop"} : Begin(c, op)
  BY <1>3, <1>7, SilenceLoad DEF Begin, vars, clientVars, loopVars
<1>8. CASE AgainLoad \/ CallbackLoad
  BY <1>3, <1>8, SilenceLoad DEF AgainLoad, CallbackLoad, vars, clientVars, loopVars
<1>9. CASE AgainStore
  BY <1>9, SilenceAgain
<1>10. ASSUME NEW c \in Clients, Start(c) PROVE Silence'
  <2>1. /\ use[c] # NoUse /\ Store(c) /\ UNCHANGED <<periods, phase, current>>
        /\ Started(call'[c], c, call'[c])
    BY <1>10 DEF Start, Register, NoUse, loopVars
  <2>2. /\ call \in [Clients -> CallType] /\ call[c].n \in Nat
        /\ call' = [call EXCEPT ![c] = [by |-> c, n |-> call[c].n + 1, kind |-> "delayed"]]
    BY <1>1, <1>2, <1>10 DEF Start, Register, LoopInv, LoopTypeOK
  <2>3. call'[c].by = c /\ call'[c].n = call[c].n + 1 /\ call'[c].kind = "delayed"
    BY <2>2
  <2>4. call'[c] \notin Starts
    BY <1>1, <2>2, <2>3, TimersAssumption DEF StartsNumbered
  <2>5. \E j : /\ j \notin Starts /\ Started(j, c, j)
               /\ j.by \in Clients /\ j.n \in Nat /\ j.kind = "delayed" /\ j.n <= call'[j.by].n
    <3>1. call'[c].n <= call'[call'[c].by].n
      BY <2>2, <2>3
    <3>2. QED
      BY <2>1, <2>2, <2>3, <2>4, <3>1
  <2>6. c # Loop
    BY TimersAssumption
  <2>7. QED
    BY <1>2, <1>3, <2>1, <2>5, <2>6, SilenceStore
<1>11. ASSUME NEW t \in Users, \/ t \in Clients /\ Stop(t)
                               \/ t = Loop /\ CallbackStop
       PROVE  Silence'
  <2>1. /\ use[t] # NoUse /\ Store(t) /\ use[t].op = "stop"
        /\ UNCHANGED <<periods, phase, current, id, root>>
    BY <1>11 DEF Stop, CallbackStop, NoUse, vars, loopVars
  <2>2. QED
    BY <1>2, <2>1, SilenceStore
<1>12. ASSUME NEW c \in Clients, Rest(c), UNCHANGED timerVars PROVE Silence'
  <2>1. UNCHANGED current
    BY <1>12 DEF Rest, Call, WaitStarted, Register, Enqueue, Waited, loopVars
  <2>2. QED
    BY <1>4, <1>12, <2>1
<1>13. CASE /\ \/ TimerFires \/ RunReturn \/ NotifyStop \/ StartThread \/ StopLoop \/ StopReset
               \/ StartLoop
            /\ UNCHANGED timerVars
  <2>1. UNCHANGED current
    BY <1>13 DEF TimerFires, RunReturn, NotifyStop, StartThread, StopLoop, StopReset, StartLoop,
       loopVars
  <2>2. QED
    BY <1>4, <1>13, <2>1
<1>14. CASE UNCHANGED allVars
  BY <1>4, <1>14 DEF allVars, vars, loopVars
<1>15. QED
  BY <1>3, <1>5, <1>6, <1>7, <1>8, <1>9, <1>10, <1>11, <1>12, <1>13, <1>14 DEF TimersNext

\* As long as no two calls overlapped, the ids of all starts are at most the
\* timer's, and smaller for a start that was ended, in every reachable state.
THEOREM SilenceInvariance == TimersSpec => []SilenceIInv
<1>1. TimersInit => Silence
  BY DEF TimersInit, Silence, StartsNumbered, UsesKnown, IdsInTurn, AgainStart, Starts
<1>2. TimersIInv /\ Silence /\ [TimersNext]_allVars => Silence'
  BY SilenceNext DEF SilenceIInv
<1>3. QED
  BY <1>1, <1>2, TimersInvariance, PTL DEF TimersSpec, SilenceIInv

\* Once a start() or stop() of the timer has returned, nothing started before it
\* rings any more but the callback that was past its check by then, unless two
\* calls overlapped or the call came between the check of a periodical timer's
\* lambda and the start() in it.
THEOREM StoppedTimerSilent == TimersSpec => StoppedIsSilent
<1>1. ASSUME SilenceIInv, [TimersNext]_allVars, NEW j \in rang' \ rang
      PROVE  root[j] \notin ended \/ j \in late \/ root[j] \in escaped \/ raced
  <2>1. CASE Ring
    <3>1. j = current /\ phase = "ring"
      BY <1>1, <2>1 DEF Ring
    <3>2. ~raced => IdsInTurn
      BY <1>1 DEF SilenceIInv, Silence
    <3>3. QED
      BY <3>1, <3>2 DEF IdsInTurn
  <2>2. CASE ~Ring
    <3>1. rang' = rang
      BY <1>1, <2>2 DEF TimersNext, allVars, timerVars, Begin, Start, Stop, TimerTake, TimerFinish,
         AgainLoad, AgainStore, CallbackLoad, CallbackStop, Load, Store
    <3>2. QED
      BY <1>1, <3>1
  <2>3. QED
    BY <2>1, <2>2
<1>2. SilenceIInv /\ [TimersNext]_allVars =>
        [\A j \in rang' \ rang : \/ root[j] \notin ended \/ j \in late
                                 \/ root[j] \in escaped \/ raced]_allVars
  BY <1>1
<1>3. QED
  BY <1>2, SilenceInvariance, PTL DEF TimersSpec, StoppedIsSilent
=============================================================================
