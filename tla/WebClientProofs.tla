-------------------------- MODULE WebClientProofs --------------------------
(***************************************************************************)
(* Proofs about WebClient for any number of requests and threads, any      *)
(* timeouts and each transport.                                            *)
(***************************************************************************)
EXTENDS WebClient, FiniteSetTheorems, TLAPS

(***************************************************************************)
(* The inductive invariant, in parts                                       *)
(***************************************************************************)

\* A session that uses a connection has one, marked as used, for itself.
UsersExclude ==
    /\ \A r \in Requests : session[r].stage \in UsingStages =>
          session[r].conn \in Conns /\ conn[session[r].conn].in_use
    /\ \A r, q \in Requests, c \in Conns : Uses(r, c) /\ Uses(q, c) => r = q

\* A connection of the set that is marked as used is used: no mark is left
\* behind, so that a slot is found for every request.
MarksAreUsers ==
    \A c \in Conns : conn[c].listed /\ conn[c].in_use => \E r \in Requests : Uses(r, c)

OneIdle == \A c, d \in Conns :
    conn[c].listed /\ ~conn[c].in_use /\ conn[d].listed /\ ~conn[d].in_use => c = d

\* Once the runner is stopped no handler has a scope lock.
RunnerStopped == /\ stopping = "workers" => ~admits
                 /\ ~admits => \A r \in Requests : session[r].stage \notin BusyStages

\* Stages before the request is written, on a new connection.
ConnectStages == {"resolving", "connecting", "proxyWrite", "proxyRead", "handshake"}

\* A session s on connection k has sent its request once, or for the second
\* time, and then attempt_reconnect is off until the response's header is read.
ResendBudget(s, k) ==
    /\ s.writes <= 2
    /\ s.stage \in ConnectStages =>
          s.writes = 0 \/ (s.writes = 1 /\ ~k.attempt_reconnect)
    /\ s.stage \in {"writing", "header"} => s.writes <= 1 \/ ~k.attempt_reconnect
    /\ s.stage = "reconnect" => s.writes <= 1

Resends == \A r \in Requests :
    IF session[r].stage \in UsingStages
    THEN ResendBudget(session[r], conn[session[r].conn])
    ELSE session[r].writes = 0

IInv == TypeOK /\ UsersExclude /\ MarksAreUsers /\ OneIdle /\ RunnerStopped /\ Resends

\* A session that uses no connection, and a slot without one.
LEMMA NewObjects ==
    /\ \A stage \in {"idle", "callback", "answered", "dropped"} :
          LET s == [NewSession EXCEPT !.stage = stage]
          IN s \in Session /\ s.stage = stage /\ s.writes = 0 /\ stage \notin UsingStages
    /\ NoConnection \in Connection /\ ~NoConnection.listed
<1>1. ASSUME NEW stage \in {"idle", "callback", "answered", "dropped"}
      PROVE  LET s == [NewSession EXCEPT !.stage = stage]
             IN s \in Session /\ s.stage = stage /\ s.writes = 0 /\ stage \notin UsingStages
  <2>1. NewSession \in Session /\ NewSession.writes = 0
    BY DEF Session, NewSession, None
  <2>2. stage \notin UsingStages
    BY DEF UsingStages, OpStages, SocketStages
  <2>3. QED
    BY <2>1, <2>2 DEF Session
<1>2. NoConnection \in Connection /\ ~NoConnection.listed
  BY DEF Connection, NoConnection
<1>3. QED
  BY <1>1, <1>2

\* A client that has not been started satisfies the invariant.
LEMMA InitIInv == Init => IInv
<1> SUFFICES ASSUME Init PROVE IInv
  OBVIOUS
<1>1. NoConnection \in Connection /\ ~NoConnection.listed
  BY DEF Connection, NoConnection
<1>2. /\ NewSession \in Session /\ NewSession.writes = 0
      /\ NewSession.stage \notin UsingStages \cup BusyStages
  BY DEF Session, NewSession, UsingStages, BusyStages, OpStages, SocketStages, None
<1>3. /\ \A r \in Requests : session[r] = NewSession
      /\ \A c \in Conns : conn[c] = NoConnection
  BY DEF Init
<1>4. TypeOK
  BY <1>1, <1>2 DEF Init, TypeOK
<1>5. QED
  BY <1>1, <1>2, <1>3, <1>4
     DEF Init, IInv, UsersExclude, MarksAreUsers, OneIdle, RunnerStopped, Resends, Uses

\* A step of a session that keeps its connection, with the marks as they are,
\* preserves the invariant.
LEMMA StepsIInv ==
    ASSUME IInv, NEW r \in Requests, NEW s \in Session, NEW k \in Connection,
           Steps(r, s, k), session[r].stage \in UsingStages, s.stage \in UsingStages,
           s.conn = session[r].conn, s.stage \in BusyStages => admits,
           k.listed = conn[s.conn].listed, k.in_use, ResendBudget(s, k)
    PROVE  IInv'
<1> DEFINE c == s.conn
<1>1. c \in Conns /\ Uses(r, c) /\ conn[c].in_use
  BY DEF IInv, UsersExclude, Uses
<1>2. /\ session' = [session EXCEPT ![r] = s] /\ conn' = [conn EXCEPT ![c] = k]
      /\ UNCHANGED <<running, stopping, admits>>
  BY DEF Steps, clientVars
<1>3. /\ TypeOK' /\ session'[r] = s /\ conn'[c] = k
      /\ \A q \in Requests : q # r => session'[q] = session[q]
      /\ \A d \in Conns : d # c => conn'[d] = conn[d]
  BY <1>1, <1>2 DEF IInv, TypeOK
<1>4. \A q \in Requests, d \in Conns : Uses(q, d)' <=> Uses(q, d)
  BY <1>1, <1>3 DEF Uses
<1>5. \A d \in Conns : conn'[d].listed = conn[d].listed
  BY <1>3
<1>6. \A d \in Conns : conn'[d].in_use <=> conn[d].in_use
  BY <1>1, <1>3
<1>7. UsersExclude'
  <2>1. ASSUME NEW q \in Requests, session'[q].stage \in UsingStages
        PROVE  session'[q].conn \in Conns /\ conn'[session'[q].conn].in_use
    BY <1>1, <1>3, <1>6, <2>1 DEF IInv, UsersExclude
  <2>2. QED
    BY <1>4, <2>1 DEF IInv, UsersExclude
<1>8. MarksAreUsers'
  BY <1>4, <1>5, <1>6 DEF IInv, MarksAreUsers
<1>9. OneIdle'
  BY <1>5, <1>6 DEF IInv, OneIdle
<1>10. RunnerStopped'
  BY <1>2, <1>3 DEF IInv, RunnerStopped
<1>11. ASSUME NEW q \in Requests
       PROVE  IF session'[q].stage \in UsingStages
              THEN ResendBudget(session'[q], conn'[session'[q].conn])
              ELSE session'[q].writes = 0
  <2>1. CASE q = r
    BY <1>3, <2>1
  <2>2. CASE q # r
    <3>1. session[q].stage \in UsingStages => session[q].conn \in Conns \ {c}
      BY <1>1, <2>2 DEF IInv, UsersExclude, Uses
    <3>2. QED
      BY <1>3, <2>2, <3>1 DEF IInv, Resends
  <2>3. QED
    BY <2>1, <2>2
<1>12. Resends'
  BY <1>11 DEF Resends, ResendBudget
<1>13. QED
  BY <1>3, <1>7, <1>8, <1>9, <1>10, <1>12 DEF IInv

\* A session that ends and gives up its connection, which leaves the set.
LEMMA DropIInv ==
    ASSUME IInv, NEW r \in Requests, Refused(r)
    PROVE  IInv'
<1> DEFINE c == session[r].conn
           s == [NewSession EXCEPT !.stage = "dropped"]
<1>1. c \in Conns /\ Uses(r, c)
  BY DEF Refused, IInv, UsersExclude, Uses, UsingStages
<1>2. /\ s \in Session /\ s.stage \notin UsingStages \cup BusyStages /\ s.writes = 0
      /\ NoConnection \in Connection /\ ~NoConnection.listed
  BY NewObjects DEF BusyStages
<1>3. /\ session' = [session EXCEPT ![r] = s] /\ conn' = [conn EXCEPT ![c] = NoConnection]
      /\ UNCHANGED <<running, stopping, admits>>
  BY DEF Refused, clientVars
<1> HIDE DEF s
<1>4. /\ TypeOK' /\ session'[r] = s /\ conn'[c] = NoConnection
      /\ \A q \in Requests : q # r => session'[q] = session[q]
      /\ \A d \in Conns : d # c => conn'[d] = conn[d]
  BY <1>1, <1>2, <1>3 DEF IInv, TypeOK
<1>5. /\ \A q \in Requests, d \in Conns : Uses(q, d)' <=> Uses(q, d) /\ q # r
      /\ \A q \in Requests : Uses(q, c) => q = r
  BY <1>1, <1>2, <1>4 DEF Uses, IInv, UsersExclude
<1>6. \A q \in Requests \ {r} : session[q].stage \in UsingStages => session[q].conn \in Conns \ {c}
  BY <1>5 DEF IInv, UsersExclude, Uses
<1>7. UsersExclude'
  <2>1. ASSUME NEW q \in Requests, session'[q].stage \in UsingStages
        PROVE  session'[q].conn \in Conns /\ conn'[session'[q].conn].in_use
    BY <1>2, <1>4, <1>6, <2>1 DEF IInv, UsersExclude
  <2>2. QED
    BY <1>5, <2>1 DEF IInv, UsersExclude
<1>8. MarksAreUsers'
  BY <1>1, <1>2, <1>4, <1>5 DEF IInv, MarksAreUsers, Uses
<1>9. OneIdle'
  BY <1>2, <1>4 DEF IInv, OneIdle
<1>10. RunnerStopped'
  BY <1>2, <1>3, <1>4 DEF IInv, RunnerStopped
<1>11. ASSUME NEW q \in Requests
       PROVE  IF session'[q].stage \in UsingStages
              THEN ResendBudget(session'[q], conn'[session'[q].conn])
              ELSE session'[q].writes = 0
  BY <1>2, <1>4, <1>6 DEF IInv, Resends
<1>12. Resends'
  BY <1>11 DEF Resends, ResendBudget
<1>13. QED
  BY <1>4, <1>7, <1>8, <1>9, <1>10, <1>12 DEF IInv

\* get_connection() finds a slot: with no idle connection in the set, every
\* occupied slot has a user of its own, and the request that asks is none.
LEMMA SlotExists ==
    ASSUME IInv, NEW r \in Requests, session[r].stage = "calling",
           ~ \E d \in Conns : conn[d].listed /\ ~conn[d].in_use
    PROVE  \E c \in Conns : ~conn[c].listed /\ \A q \in Requests : ~Uses(q, c)
<1> SUFFICES ASSUME \A c \in Conns : conn[c].listed \/ \E q \in Requests : Uses(q, c)
             PROVE  FALSE
  OBVIOUS
<1>1. "calling" \notin UsingStages
  BY DEF UsingStages, OpStages, SocketStages
<1>2. \A c \in Conns : \E q \in Requests \ {r} : Uses(q, c)
  BY <1>1 DEF IInv, MarksAreUsers, Uses
<1> DEFINE f == [c \in Conns |-> CHOOSE q \in Requests \ {r} : Uses(q, c)]
<1>3. \A c \in Conns : f[c] \in Requests \ {r} /\ Uses(f[c], c)
  BY <1>2
<1>4. f \in [Conns -> Requests \ {r}]
  BY <1>3
<1> HIDE DEF f
<1>5. IsFiniteSet(Requests \ {r}) /\ Cardinality(Requests \ {r}) = Cardinality(Requests) - 1
  BY ClientAssumption, FS_RemoveElement
<1>6. Cardinality(Conns) \in Nat /\ Cardinality(Requests) \in Nat
  BY ClientAssumption, FS_CardinalityType
<1>7. Cardinality(Requests \ {r}) < Cardinality(Conns)
  BY <1>5, <1>6, ClientAssumption
<1>8. PICK c \in Conns, d \in Conns : c # d /\ f[c] = f[d]
  BY <1>4, <1>5, <1>7, ClientAssumption, FS_PigeonHole
<1>9. QED
  BY <1>3, <1>8 DEF Uses

\* The set_timeout of a connection touches nothing but its timer.
LEMMA Timer ==
    ASSUME NEW k \in Connection, NEW seconds \in Nat
    PROVE  LET t == set_timeout(k, seconds) IN
           /\ t \in Connection /\ t.listed = k.listed /\ t.in_use = k.in_use
           /\ t.attempt_reconnect = k.attempt_reconnect /\ t.open = k.open
<1> DEFINE b == (IF seconds = 0 THEN timeout ELSE seconds) > 0
<1>1. b \in BOOLEAN
  OBVIOUS
<1> HIDE DEF b
<1>2. [k EXCEPT !.timer = b] \in Connection
  BY <1>1 DEF Connection
<1>3. set_timeout(k, seconds) = [k EXCEPT !.timer = b]
  BY DEF set_timeout, b
<1>4. QED
  BY <1>2, <1>3 DEF Connection

\* The seconds the timers get are natural numbers.
LEMMA Timeouts == timeout \in Nat /\ timeout_connect \in Nat
BY ClientAssumption DEF timeout, timeout_connect

\* connect() sets a timer or none.
LEMMA ConnectTimes ==
    ASSUME NEW k \in Connection
    PROVE  LET t == ConnectTimer(k) IN
           /\ t \in Connection /\ t.listed = k.listed /\ t.in_use = k.in_use
           /\ t.attempt_reconnect = k.attempt_reconnect /\ t.open = k.open
<1>1. CASE k.open
  BY <1>1, Timer DEF ConnectTimer
<1>2. CASE ~k.open /\ Transport = "plain"
  BY <1>2, Timer, Timeouts DEF ConnectTimer
<1>3. CASE ~k.open /\ Transport # "plain"
  BY <1>3 DEF ConnectTimer
<1>4. QED
  BY <1>1, <1>2, <1>3

\* The next operation of a session; only "writing" counts as a write.
LEMMA Awaits ==
    ASSUME NEW s \in Session, NEW stage \in OpStages
    PROVE  LET t == Await(s, stage) IN
           /\ t \in Session /\ t.stage = stage /\ t.conn = s.conn
           /\ t.writes = IF stage = "writing" /\ s.writes < 3 THEN s.writes + 1 ELSE s.writes
<1> DEFINE w == IF stage = "writing" /\ s.writes < 3 THEN s.writes + 1 ELSE s.writes
<1>1. w \in 0 .. 3
  BY DEF Session
<1> HIDE DEF w
<1>2. Await(s, stage) = [s EXCEPT !.stage = stage, !.cancel = "no", !.writes = w]
  BY DEF Await, w
<1>3. QED
  BY <1>1, <1>2 DEF Session, w

\* The end of a session, before its connection is given back.
LEMMA Finishes ==
    ASSUME NEW s \in Session, NEW result \in {"ok", "error"}
    PROVE  LET t == Finish(s, result) IN
           /\ t \in Session /\ t.stage = "finish" /\ t.conn = s.conn /\ t.writes = s.writes
BY DEF Finish, Session

\* A session takes a connection nobody uses, and marks it.
LEMMA TakeIInv ==
    ASSUME IInv, NEW r \in Requests, NEW s \in Session, NEW k \in Connection,
           Steps(r, s, k), session[r].stage \notin UsingStages, s.stage \in OpStages,
           s.conn \in Conns, \A q \in Requests : ~Uses(q, s.conn),
           k.in_use, ResendBudget(s, k)
    PROVE  IInv'
<1> DEFINE c == s.conn
<1>1. /\ session' = [session EXCEPT ![r] = s] /\ conn' = [conn EXCEPT ![c] = k]
      /\ UNCHANGED <<running, stopping, admits>>
  BY DEF Steps, clientVars
<1>2. /\ TypeOK' /\ session'[r] = s /\ conn'[c] = k
      /\ \A q \in Requests : q # r => session'[q] = session[q]
      /\ \A d \in Conns : d # c => conn'[d] = conn[d]
  BY <1>1 DEF IInv, TypeOK
<1>3. s.stage \in UsingStages /\ s.stage \notin BusyStages
  BY DEF UsingStages, BusyStages, OpStages, SocketStages
<1>4. \A q \in Requests, d \in Conns : Uses(q, d)' <=> Uses(q, d) \/ (q = r /\ d = c)
  BY <1>2, <1>3 DEF Uses
<1>5. \A q \in Requests \ {r} : session[q].stage \in UsingStages => session[q].conn \in Conns \ {c}
  BY DEF IInv, UsersExclude, Uses
<1>6. UsersExclude'
  <2>1. ASSUME NEW q \in Requests, session'[q].stage \in UsingStages
        PROVE  session'[q].conn \in Conns /\ conn'[session'[q].conn].in_use
    BY <1>2, <1>5, <2>1 DEF IInv, UsersExclude
  <2>2. QED
    BY <1>4, <2>1 DEF IInv, UsersExclude
<1>7. MarksAreUsers'
  BY <1>2, <1>4 DEF IInv, MarksAreUsers
<1>8. OneIdle'
  BY <1>2 DEF IInv, OneIdle
<1>9. RunnerStopped'
  BY <1>1, <1>2, <1>3 DEF IInv, RunnerStopped
<1>10. ASSUME NEW q \in Requests
       PROVE  IF session'[q].stage \in UsingStages
              THEN ResendBudget(session'[q], conn'[session'[q].conn])
              ELSE session'[q].writes = 0
  BY <1>2, <1>3, <1>5 DEF IInv, Resends
<1>11. Resends'
  BY <1>10 DEF Resends, ResendBudget
<1>12. QED
  BY <1>2, <1>6, <1>7, <1>8, <1>9, <1>11 DEF IInv

\* get_connection() and connect(), on an idle connection or a new one.
LEMMA GetConnectionIInv == ASSUME IInv, NEW r \in Requests, GetConnection(r) PROVE IInv'
<1> DEFINE idle == \E d \in Conns : conn[d].listed /\ ~conn[d].in_use
           k(c) == [(IF conn[c].listed THEN conn[c] ELSE NoConnection)
                    EXCEPT !.listed = TRUE, !.attempt_reconnect = TRUE, !.in_use = TRUE]
           s(c) == Await([session[r] EXCEPT !.conn = c], ConnectStage(k(c)))
<1>1. PICK c \in Conns :
         /\ IF idle THEN conn[c].listed /\ ~conn[c].in_use ELSE c = Fresh
         /\ Steps(r, s(c), ConnectTimer(k(c)))
  BY DEF GetConnection
<1>2. /\ session[r] \in Session /\ session[r].stage = "calling"
      /\ session[r].stage \notin UsingStages /\ session[r].writes = 0
  BY DEF IInv, TypeOK, GetConnection, Resends, UsingStages, OpStages, SocketStages
<1>3. \A q \in Requests : ~Uses(q, c)
  <2>1. CASE idle
    BY <1>1, <2>1 DEF IInv, UsersExclude, Uses
  <2>2. CASE ~idle
    BY <1>1, <1>2, <2>2, SlotExists DEF Fresh
  <2>3. QED
    BY <2>1, <2>2
<1>4. k(c) \in Connection /\ k(c).in_use
  <2>1. (IF conn[c].listed THEN conn[c] ELSE NoConnection) \in Connection
    BY NewObjects DEF IInv, TypeOK
  <2>2. QED
    BY <2>1 DEF Connection
<1> HIDE DEF k
<1>5. /\ ConnectTimer(k(c)) \in Connection /\ ConnectTimer(k(c)).in_use
  BY <1>4, ConnectTimes
<1> DEFINE u == [session[r] EXCEPT !.conn = c]
           stage == ConnectStage(k(c))
<1>6. u \in Session /\ u.writes = 0 /\ u.conn = c
  BY <1>2 DEF Session
<1>7. stage \in {"writing", "resolving"} /\ stage \in OpStages /\ s(c) = Await(u, stage)
  BY DEF ConnectStage, OpStages, SocketStages
<1> HIDE DEF s, u, stage
<1>8. /\ s(c) \in Session /\ s(c).stage = stage /\ s(c).conn = c
      /\ s(c).writes = IF stage = "writing" THEN 1 ELSE 0
  BY <1>6, <1>7, Awaits
<1>9. ResendBudget(s(c), ConnectTimer(k(c))) /\ s(c).stage \in OpStages
  BY <1>7, <1>8 DEF ResendBudget, ConnectStages
<1>10. QED
  BY <1>1, <1>2, <1>3, <1>5, <1>8, <1>9, TakeIInv

\* What the invariant says of a session with a pending operation.
LEMMA Pending ==
    ASSUME IInv, NEW r \in Requests, session[r].stage \in OpStages
    PROVE  /\ session[r] \in Session /\ session[r].stage \in UsingStages
           /\ session[r].conn \in Conns /\ conn[session[r].conn].in_use
           /\ conn[session[r].conn] \in Connection
           /\ ResendBudget(session[r], conn[session[r].conn])
BY DEF IInv, TypeOK, UsersExclude, Resends, UsingStages

\* A handler that starts the next operation.
LEMMA AwaitIInv ==
    ASSUME IInv, NEW r \in Requests, session[r].stage \in OpStages,
           NEW stage \in OpStages, NEW k \in Connection,
           k.listed = conn[session[r].conn].listed, k.in_use = conn[session[r].conn].in_use,
           stage \in ConnectStages \cup {"writing", "header"} =>
              k.attempt_reconnect = conn[session[r].conn].attempt_reconnect,
           stage \in ConnectStages \cup {"writing"} => session[r].stage \in ConnectStages,
           stage = "header" => session[r].stage = "writing",
           Steps(r, Await(session[r], stage), k)
    PROVE  IInv'
<1> DEFINE s == Await(session[r], stage)
<1>1. /\ session[r] \in Session /\ session[r].stage \in UsingStages
      /\ conn[session[r].conn].in_use /\ ResendBudget(session[r], conn[session[r].conn])
  BY Pending
<1>2. /\ s \in Session /\ s.stage = stage /\ s.conn = session[r].conn
      /\ s.writes = IF stage = "writing" /\ session[r].writes < 3
                    THEN session[r].writes + 1 ELSE session[r].writes
  BY <1>1, Awaits
<1> HIDE DEF s
<1>3. s.stage \in UsingStages /\ s.stage \notin BusyStages /\ s.stage # "reconnect"
  BY <1>2 DEF UsingStages, BusyStages, OpStages, SocketStages
<1>4. session[r].writes \in 0 .. 3
  BY <1>1 DEF Session
<1>5. ResendBudget(s, k)
  BY <1>1, <1>2, <1>3, <1>4 DEF ResendBudget, ConnectStages
<1>6. QED
  BY <1>1, <1>2, <1>3, <1>5, StepsIInv DEF s

\* A handler that goes to the session's callback.
LEMMA FinishIInv ==
    ASSUME IInv, NEW r \in Requests, session[r].stage \in OpStages, admits,
           NEW result \in {"ok", "error"}, NEW k \in Connection,
           k.listed = conn[session[r].conn].listed, k.in_use = conn[session[r].conn].in_use,
           Steps(r, Finish(session[r], result), k)
    PROVE  IInv'
<1> DEFINE s == Finish(session[r], result)
<1>1. /\ session[r] \in Session /\ session[r].stage \in UsingStages
      /\ conn[session[r].conn].in_use /\ ResendBudget(session[r], conn[session[r].conn])
  BY Pending
<1>2. s \in Session /\ s.stage = "finish" /\ s.conn = session[r].conn
      /\ s.writes = session[r].writes
  BY <1>1, Finishes
<1> HIDE DEF s
<1>3. ResendBudget(s, k)
  BY <1>1, <1>2 DEF ResendBudget, ConnectStages
<1>4. QED
  BY <1>1, <1>2, <1>3, StepsIInv DEF s, UsingStages
\* The handlers of the socket's operations preserve the invariant.
LEMMA HandlerIInv ==
    ASSUME IInv, NEW r \in Requests,
           \/ OperationFailed(r) \/ Resolved(r) \/ Connected(r) \/ ProxyWritten(r)
           \/ ProxyAnswered(r) \/ Handshaken(r) \/ Written(r) \/ HeaderRead(r)
           \/ ContentRead(r) \/ ChunkHead(r) \/ ChunkBody(r) \/ HeaderFailed(r)
    PROVE  IInv'
<1> DEFINE c == session[r].conn
           k == Own(r)
           Same(t) == /\ t \in Connection /\ t.listed = conn[c].listed /\ t.in_use = conn[c].in_use
           Twin(t) == Same(t) /\ t.attempt_reconnect = conn[c].attempt_reconnect
<1>1. session[r].stage \in OpStages /\ admits
  BY DEF OperationFailed, Resolved, Connected, ProxyWritten, ProxyAnswered, Handshaken,
         Written, HeaderRead, ContentRead, ChunkHead, ChunkBody, HeaderFailed, Ok, Handles,
         OpStages, SocketStages
<1>2. /\ session[r] \in Session /\ c \in Conns /\ conn[c] \in Connection /\ conn[c].in_use
      /\ session[r].stage \in UsingStages /\ ResendBudget(session[r], conn[c])
  BY <1>1, Pending
<1>3. Twin(k)
  BY <1>2 DEF Own, cancel_timeout, Connection
<1> HIDE DEF k
<1>4. \A seconds \in Nat : Twin(set_timeout(k, seconds))
  BY <1>3, Timer
<1>5. 0 \in Nat /\ timeout_connect \in Nat
  BY Timeouts
<1>6. ASSUME NEW stage \in OpStages \ (ConnectStages \cup {"writing", "header"}),
             NEW seconds \in Nat, Continue(r, stage, seconds)
      PROVE  IInv'
  BY <1>1, <1>4, <1>6, AwaitIInv DEF Continue, k
<1>7. ASSUME NEW stage \in OpStages, NEW seconds \in Nat, Continue(r, stage, seconds),
             \/ stage \in ConnectStages \cup {"writing"} /\ session[r].stage \in ConnectStages
             \/ stage = "header" /\ session[r].stage = "writing"
      PROVE  IInv'
  BY <1>1, <1>4, <1>7, AwaitIInv DEF Continue, k, ConnectStages
<1>8. ASSUME NEW result \in {"ok", "error"}, Ends(r, result) PROVE IInv'
  BY <1>1, <1>3, <1>8, FinishIInv DEF Ends, k
<1> HIDE DEF Same, Twin
<1>9. CASE OperationFailed(r)
  BY <1>8, <1>9 DEF OperationFailed
<1>10. CASE Resolved(r)
  <2> DEFINE t == [set_timeout(k, timeout_connect) EXCEPT !.open = TRUE]
  <2>1. Twin(t)
    BY <1>4, <1>5 DEF Twin, Same, Connection
  <2>2. session[r].stage = "resolving" /\ Steps(r, Await(session[r], "connecting"), t)
    BY <1>10 DEF Resolved, Ok, Handles, k
  <2>3. QED
    BY <1>1, <2>1, <2>2, AwaitIInv DEF Twin, Same, ConnectStages, OpStages, SocketStages
<1>11. CASE Connected(r)
  <2>1. session[r].stage = "connecting"
    BY <1>11 DEF Connected, Ok, Handles
  <2>2. PICK stage \in {"writing", "handshake", "proxyWrite"}, seconds \in {0, timeout_connect} :
           Continue(r, stage, seconds)
    BY <1>11, ClientAssumption DEF Connected
  <2>3. QED
    BY <1>5, <1>7, <2>1, <2>2 DEF ConnectStages, OpStages, SocketStages
<1>12. CASE ProxyWritten(r)
  BY <1>5, <1>7, <1>12 DEF ProxyWritten, Ok, Handles, ConnectStages, OpStages, SocketStages
<1>13. CASE ProxyAnswered(r)
  BY <1>5, <1>7, <1>8, <1>13
     DEF ProxyAnswered, Ok, Handles, ConnectStages, OpStages, SocketStages
<1>14. CASE Handshaken(r)
  BY <1>5, <1>7, <1>14 DEF Handshaken, Ok, Handles, ConnectStages, OpStages, SocketStages
<1>15. CASE Written(r)
  BY <1>5, <1>7, <1>15 DEF Written, Ok, Handles, ConnectStages, OpStages, SocketStages
<1>16. CASE HeaderRead(r)
  <2> DEFINE t == [k EXCEPT !.attempt_reconnect = TRUE]
  <2>1. Same(t)
    BY <1>3 DEF Twin, Same, Connection
  <2>2. Same(set_timeout(t, 0))
    BY <1>5, <2>1, Timer DEF Same
  <2>3. \/ \E result \in {"ok", "error"} : Steps(r, Finish(session[r], result), t)
        \/ \E stage \in {"content", "chunkLine", "untilClose"} :
              Steps(r, Await(session[r], stage), set_timeout(t, 0))
    BY <1>16 DEF HeaderRead, k
  <2> HIDE DEF t
  <2>4. CASE \E result \in {"ok", "error"} : Steps(r, Finish(session[r], result), t)
    BY <1>1, <2>1, <2>4, FinishIInv DEF Same
  <2>5. ASSUME NEW stage \in {"content", "chunkLine", "untilClose"},
               Steps(r, Await(session[r], stage), set_timeout(t, 0))
        PROVE  IInv'
    <3>1. stage \in OpStages /\ stage \notin ConnectStages \cup {"writing", "header"}
      BY DEF OpStages, SocketStages, ConnectStages
    <3>2. QED
      BY <1>1, <2>2, <2>5, <3>1, AwaitIInv DEF Same
  <2>6. QED
    BY <2>3, <2>4, <2>5
<1>17. CASE ContentRead(r)
  BY <1>8, <1>17 DEF ContentRead
<1>18. ASSUME ReadChunk(r) PROVE IInv'
  BY <1>5, <1>6, <1>8, <1>18 DEF ReadChunk, ConnectStages, OpStages, SocketStages
<1>19. CASE ChunkHead(r)
  BY <1>5, <1>6, <1>8, <1>18, <1>19 DEF ChunkHead, ConnectStages, OpStages, SocketStages
<1>20. CASE ChunkBody(r)
  BY <1>18, <1>20 DEF ChunkBody
<1>21. CASE HeaderFailed(r)
  <2> DEFINE s == [session[r] EXCEPT !.stage = "reconnect", !.cancel = "no"]
  <2>1. session[r].stage = "header" /\ k.attempt_reconnect /\ Steps(r, s, k)
    BY <1>21 DEF HeaderFailed, Handles, k
  <2>2. /\ s \in Session /\ s.stage = "reconnect" /\ s.conn = c /\ s.writes = session[r].writes
    BY <1>2 DEF Session
  <2> HIDE DEF s
  <2>3. ResendBudget(s, k)
    BY <1>2, <1>3, <2>1, <2>2 DEF ResendBudget, Twin, ConnectStages
  <2>4. QED
    BY <1>1, <1>2, <1>3, <2>1, <2>2, <2>3, StepsIInv DEF Twin, Same, UsingStages
<1>22. QED
  BY <1>9, <1>10, <1>11, <1>12, <1>13, <1>14, <1>15, <1>16, <1>17, <1>19, <1>20, <1>21

\* The second attempt replaces a listed connection by a marked one.
LEMMA ReconnectIInv == ASSUME IInv, NEW r \in Requests, Reconnect(r) PROVE IInv'
<1> DEFINE c == session[r].conn
<1>1. session[r].stage = "reconnect" /\ "reconnect" \in UsingStages /\ "reconnect" \in BusyStages
  BY DEF Reconnect, AtMutex, UsingStages, BusyStages
<1>2. /\ session[r] \in Session /\ c \in Conns /\ conn[c] \in Connection /\ conn[c].in_use
      /\ session[r].writes <= 1 /\ session[r].writes \in 0 .. 3 /\ admits
  BY <1>1 DEF IInv, TypeOK, UsersExclude, Resends, ResendBudget, RunnerStopped, Session
<1>3. CASE conn[c].listed
  <2> DEFINE n == [NoConnection EXCEPT !.listed = TRUE, !.in_use = TRUE,
                                       !.attempt_reconnect = FALSE]
             k == ConnectTimer(n)
             s == Await(session[r], "resolving")
  <2>1. n \in Connection /\ n.listed /\ n.in_use /\ ~n.attempt_reconnect /\ ~n.open
    BY DEF Connection, NoConnection
  <2>2. Steps(r, Await(session[r], ConnectStage(k)), k)
    BY <1>3 DEF Reconnect
  <2> HIDE DEF n
  <2>3. k \in Connection /\ k.listed = conn[c].listed /\ k.in_use /\ ~k.attempt_reconnect /\ ~k.open
    BY <1>2, <1>3, <2>1, ConnectTimes DEF Connection
  <2>4. Steps(r, s, k)
    BY <2>2, <2>3 DEF ConnectStage
  <2> HIDE DEF k
  <2>5. s \in Session /\ s.stage = "resolving" /\ s.conn = c /\ s.writes = session[r].writes
    BY <1>2, Awaits DEF OpStages
  <2> HIDE DEF s
  <2>6. ResendBudget(s, k) /\ s.stage \in UsingStages /\ s.stage \notin BusyStages
    BY <1>2, <2>3, <2>5 DEF ResendBudget, UsingStages, BusyStages, OpStages
  <2>7. QED
    BY <1>1, <2>3, <2>4, <2>5, <2>6, StepsIInv
<1>4. CASE ~conn[c].listed
  <2> DEFINE s == Finish(session[r], "error")
  <2>1. Steps(r, s, conn[c])
    BY <1>4 DEF Reconnect
  <2>2. s \in Session /\ s.stage = "finish" /\ s.conn = c /\ s.writes = session[r].writes
    BY <1>2, Finishes
  <2> HIDE DEF s
  <2>3. ResendBudget(s, conn[c]) /\ s.stage \in UsingStages
    BY <1>2, <2>2 DEF ResendBudget, UsingStages, ConnectStages
  <2>4. QED
    BY <1>1, <1>2, <2>1, <2>2, <2>3, StepsIInv
<1>5. QED
  BY <1>3, <1>4

\* session->callback leaves at most one idle connection and no mark behind.
LEMMA GiveBackIInv == ASSUME IInv, NEW r \in Requests, GiveBack(r) PROVE IInv'
<1> DEFINE c == session[r].conn
           s == [NewSession EXCEPT !.stage = "callback"]
           idle == {d \in Conns : conn[d].listed /\ (d = c \/ ~conn[d].in_use)} \
                   (IF session[r].result = "error" THEN {c} ELSE {})
           new(kept, d) == CASE d \in kept -> [conn[d] EXCEPT !.in_use = FALSE]
                             [] d # c /\ conn[d].in_use -> conn[d]
                             [] OTHER -> NoConnection
<1>1. /\ session[r].stage = "finish" /\ "finish" \in UsingStages /\ "finish" \in BusyStages
      /\ session' = [session EXCEPT ![r] = s] /\ UNCHANGED <<running, stopping, admits>>
  BY DEF GiveBack, AtMutex, UsingStages, BusyStages, clientVars
<1>2. PICK kept \in SUBSET idle : /\ Cardinality(kept) = IF idle = {} THEN 0 ELSE 1
                                  /\ conn' = [d \in Conns |-> new(kept, d)]
  BY DEF GiveBack
<1>3. c \in Conns /\ Uses(r, c) /\ admits /\ \A d \in Conns : conn[d] \in Connection
  BY <1>1 DEF IInv, TypeOK, UsersExclude, Uses, RunnerStopped
<1>4. \A d \in kept : d \in Conns /\ conn[d].listed /\ (d = c \/ ~conn[d].in_use)
  OBVIOUS
<1>5. \A d, e \in kept : d = e
  <2>1. kept \subseteq Conns
    BY <1>4
  <2>2. IsFiniteSet(kept)
    BY <2>1, ClientAssumption, FS_Subset
  <2>3. CASE idle = {}
    BY <2>3
  <2>4. CASE idle # {}
    BY <1>2, <2>2, <2>4, FS_Singleton
  <2>5. QED
    BY <2>3, <2>4
<1>6. ASSUME NEW d \in Conns
      PROVE  /\ conn'[d] \in Connection
             /\ conn'[d].listed => d \in kept \/ (d # c /\ conn[d].in_use /\ conn[d].listed)
             /\ d \in kept => ~conn'[d].in_use
             /\ d # c /\ conn[d].in_use => conn'[d] = conn[d]
  <2>1. conn'[d] = new(kept, d)
    BY <1>2
  <2>2. CASE d \in kept
    <3>1. new(kept, d) = [conn[d] EXCEPT !.in_use = FALSE]
      BY <1>4, <2>2
    <3>2. QED
      BY <1>3, <1>4, <2>1, <2>2, <3>1 DEF Connection
  <2>3. CASE d \notin kept /\ d # c /\ conn[d].in_use
    <3>1. new(kept, d) = conn[d]
      BY <2>3
    <3>2. QED
      BY <1>3, <2>1, <2>3, <3>1
  <2>4. CASE d \notin kept /\ ~(d # c /\ conn[d].in_use)
    <3>1. new(kept, d) = NoConnection
      BY <2>4
    <3>2. QED
      BY <2>1, <2>4, <3>1, NewObjects
  <2>5. QED
    BY <2>2, <2>3, <2>4
<1>7. s \in Session /\ s.stage = "callback" /\ s.stage \notin UsingStages /\ s.writes = 0
  BY NewObjects
<1> HIDE DEF idle, new, s
<1>8. /\ TypeOK' /\ session'[r] = s
      /\ \A q \in Requests : q # r => session'[q] = session[q]
  <2>1. conn' \in [Conns -> Connection]
    BY <1>2, <1>6
  <2>2. QED
    BY <1>1, <1>7, <2>1 DEF IInv, TypeOK
<1>9. /\ \A q \in Requests, d \in Conns : Uses(q, d)' <=> Uses(q, d) /\ q # r
      /\ \A q \in Requests : Uses(q, c) => q = r
  BY <1>3, <1>7, <1>8 DEF Uses, IInv, UsersExclude
<1>10. \A q \in Requests \ {r} : session[q].stage \in UsingStages =>
          /\ session[q].conn \in Conns \ {c}
          /\ conn[session[q].conn].in_use /\ conn'[session[q].conn] = conn[session[q].conn]
  BY <1>6, <1>9 DEF IInv, UsersExclude, Uses
<1>11. UsersExclude'
  <2>1. ASSUME NEW q \in Requests, session'[q].stage \in UsingStages
        PROVE  session'[q].conn \in Conns /\ conn'[session'[q].conn].in_use
    BY <1>7, <1>8, <1>10, <2>1
  <2>2. QED
    BY <1>9, <2>1 DEF IInv, UsersExclude
<1>12. MarksAreUsers'
  <2>1. ASSUME NEW d \in Conns, conn'[d].listed, conn'[d].in_use
        PROVE  \E q \in Requests : Uses(q, d)'
    <3>1. d # c /\ conn[d].in_use /\ conn[d].listed
      BY <1>6, <2>1
    <3>2. PICK q \in Requests : Uses(q, d)
      BY <3>1 DEF IInv, MarksAreUsers
    <3>3. q # r
      BY <3>1, <3>2 DEF Uses
    <3>4. QED
      BY <1>9, <3>2, <3>3
  <2>2. QED
    BY <2>1 DEF MarksAreUsers
<1>13. OneIdle'
  BY <1>5, <1>6 DEF OneIdle
<1>14. RunnerStopped'
  BY <1>1, <1>3 DEF IInv, RunnerStopped
<1>15. ASSUME NEW q \in Requests
       PROVE  IF session'[q].stage \in UsingStages
              THEN ResendBudget(session'[q], conn'[session'[q].conn])
              ELSE session'[q].writes = 0
  BY <1>7, <1>8, <1>10 DEF IInv, Resends
<1>16. Resends'
  BY <1>15 DEF Resends, ResendBudget
<1>17. QED
  BY <1>8, <1>11, <1>12, <1>13, <1>14, <1>16 DEF IInv

\* A step that neither begins nor ends a use of a connection, sends nothing,
\* leaves the marks alone and adds nothing to the set.
LEMMA FrameIInv ==
    ASSUME IInv, TypeOK', RunnerStopped',
           \A r \in Requests :
              IF session[r].stage \in UsingStages
              THEN /\ session'[r].stage = session[r].stage /\ session'[r].conn = session[r].conn
                   /\ session'[r].writes = session[r].writes
              ELSE session'[r].stage \notin UsingStages /\ session'[r].writes = 0,
           \A c \in Conns : /\ conn'[c].in_use = conn[c].in_use
                            /\ conn'[c].attempt_reconnect = conn[c].attempt_reconnect
                            /\ conn'[c].listed => conn[c].listed
    PROVE  IInv'
<1>1. \A r \in Requests, c \in Conns : Uses(r, c)' <=> Uses(r, c)
  BY DEF Uses
<1>2. UsersExclude'
  BY <1>1 DEF IInv, UsersExclude
<1>3. MarksAreUsers'
  BY <1>1 DEF IInv, MarksAreUsers
<1>4. OneIdle'
  BY DEF IInv, OneIdle
<1>5. Resends'
  BY DEF IInv, Resends, ResendBudget, UsersExclude
<1>6. QED
  BY <1>2, <1>3, <1>4, <1>5 DEF IInv

\* A cancel, lost or not, leaves the sessions where they are.
LEMMA CancelKeeps ==
    ASSUME \A r \in Requests : session[r] \in Session, NEW of, Cancel(of)
    PROVE  /\ session' \in [Requests -> Session]
           /\ \A r \in Requests : /\ session'[r].stage = session[r].stage
                                  /\ session'[r].conn = session[r].conn
                                  /\ session'[r].writes = session[r].writes
<1> DEFINE s(r, c) == [session[r] EXCEPT !.cancel = c]
<1>1. ASSUME NEW r \in Requests, NEW c \in {"no", "lost", "done"}
      PROVE  /\ s(r, c) \in Session /\ s(r, c).stage = session[r].stage
             /\ s(r, c).conn = session[r].conn /\ s(r, c).writes = session[r].writes
  BY <1>1 DEF Session
<1>2. PICK ended \in SUBSET of :
         session' = [r \in Requests |->
                       IF r \in of
                       THEN s(r, IF r \in ended \/ session[r].cancel = "done" THEN "done" ELSE "lost")
                       ELSE session[r]]
  BY DEF Cancel
<1> HIDE DEF s
<1>3. QED
  BY <1>1, <1>2

\* start(), stop(), request(), the timers and the application's callback.
LEMMA ClientIInv ==
    ASSUME IInv,
           \/ start \/ StopConnections \/ Stop
           \/ \E r \in Requests : CallRequest(r) \/ Answered(r)
           \/ \E c \in Conns : TimerExpires(c) \/ TimerHandler(c)
    PROVE  IInv'
<1>1. /\ \A r \in Requests : session[r] \in Session
      /\ \A r \in Requests : session[r].stage \notin UsingStages => session[r].writes = 0
      /\ \A c \in Conns : conn[c] \in Connection
  BY DEF IInv, TypeOK, Resends
<1>2. CASE start
  <2>1. TypeOK' /\ RunnerStopped' /\ session' = session /\ conn' = conn
    BY <1>2 DEF start, IInv, TypeOK, RunnerStopped
  <2>2. QED
    BY <1>1, <2>1, FrameIInv
<1>3. CASE StopConnections
  <2> DEFINE k(c) == [conn[c] EXCEPT !.listed = FALSE]
  <2>1. /\ conn' = [c \in Conns |-> k(c)]
        /\ stopping' = "runner" /\ UNCHANGED <<running, admits>>
    BY <1>3 DEF StopConnections
  <2>2. /\ session' \in [Requests -> Session]
        /\ \A r \in Requests : /\ session'[r].stage = session[r].stage
                               /\ session'[r].conn = session[r].conn
                               /\ session'[r].writes = session[r].writes
    BY <1>1, <1>3, CancelKeeps DEF StopConnections
  <2>3. ASSUME NEW c \in Conns
        PROVE  /\ k(c) \in Connection /\ k(c).in_use = conn[c].in_use /\ ~k(c).listed
               /\ k(c).attempt_reconnect = conn[c].attempt_reconnect
    BY <1>1 DEF Connection
  <2> HIDE DEF k
  <2>4. TypeOK' /\ RunnerStopped'
    BY <2>1, <2>2, <2>3 DEF IInv, TypeOK, RunnerStopped
  <2>5. QED
    BY <1>1, <2>1, <2>2, <2>3, <2>4, FrameIInv
<1>4. CASE StopRunner
  <2>1. TypeOK' /\ RunnerStopped' /\ session' = session /\ conn' = conn
    BY <1>4 DEF StopRunner, Busy, IInv, TypeOK, RunnerStopped
  <2>2. QED
    BY <1>1, <2>1, FrameIInv
<1>5. CASE StopWorkers
  <2> DEFINE d == [NewSession EXCEPT !.stage = "dropped"]
  <2>1. /\ d \in Session /\ d.stage = "dropped" /\ d.stage \notin UsingStages \cup BusyStages
        /\ d.writes = 0 /\ NoConnection \in Connection /\ ~NoConnection.listed
    BY NewObjects DEF BusyStages
  <2>2. /\ session' = [r \in Requests |-> IF session[r].stage \in OpStages THEN d ELSE session[r]]
        /\ conn' = [c \in Conns |-> NoConnection] /\ running' = FALSE /\ stopping' = "no"
        /\ UNCHANGED admits
    BY <1>5 DEF StopWorkers
  <2> HIDE DEF d
  <2>3. TypeOK'
    BY <1>1, <2>1, <2>2 DEF IInv, TypeOK
  <2>4. ~admits /\ \A r \in Requests : session[r].stage \notin BusyStages
    BY <1>5 DEF StopWorkers, IInv, RunnerStopped
  <2>5. \A r \in Requests : /\ session'[r].stage \notin UsingStages \cup BusyStages
                            /\ session'[r].writes = 0
    BY <1>1, <2>1, <2>2, <2>4 DEF UsingStages, BusyStages
  <2>6. \A c \in Conns : ~conn'[c].listed
    BY <2>1, <2>2
  <2>7. QED
    BY <2>2, <2>3, <2>5, <2>6
       DEF IInv, UsersExclude, MarksAreUsers, OneIdle, RunnerStopped, Resends, Uses
<1>6. ASSUME NEW r \in Requests, CallRequest(r) PROVE IInv'
  <2> DEFINE s == [session[r] EXCEPT !.stage = "calling"]
  <2>1. /\ s \in Session /\ s.stage = "calling" /\ s.writes = session[r].writes
        /\ "idle" \notin UsingStages /\ "calling" \notin UsingStages \cup BusyStages
    BY <1>1 DEF Session, UsingStages, BusyStages, OpStages, SocketStages
  <2>2. /\ session[r].stage = "idle" /\ session' = [session EXCEPT ![r] = s]
        /\ UNCHANGED <<running, stopping, admits, conn>>
    BY <1>6 DEF CallRequest, request, clientVars
  <2> HIDE DEF s
  <2>3. TypeOK' /\ RunnerStopped'
    BY <2>1, <2>2 DEF IInv, TypeOK, RunnerStopped
  <2>4. session'[r] = s /\ \A q \in Requests : q # r => session'[q] = session[q]
    BY <2>2 DEF IInv, TypeOK
  <2>5. QED
    BY <1>1, <2>1, <2>2, <2>3, <2>4, FrameIInv
<1>7. ASSUME NEW r \in Requests, Answered(r) PROVE IInv'
  <2> DEFINE s == [NewSession EXCEPT !.stage = "answered"]
  <2>1. /\ s \in Session /\ s.writes = 0 /\ s.stage \notin UsingStages \cup BusyStages
        /\ "callback" \notin UsingStages
    BY NewObjects DEF BusyStages
  <2>2. /\ session[r].stage = "callback" /\ session' = [session EXCEPT ![r] = s]
        /\ UNCHANGED <<running, stopping, admits, conn>>
    BY <1>7 DEF Answered, clientVars
  <2> HIDE DEF s
  <2>3. TypeOK' /\ RunnerStopped'
    BY <2>1, <2>2 DEF IInv, TypeOK, RunnerStopped
  <2>4. session'[r] = s /\ \A q \in Requests : q # r => session'[q] = session[q]
    BY <2>2 DEF IInv, TypeOK
  <2>5. QED
    BY <1>1, <2>1, <2>2, <2>3, <2>4, FrameIInv
<1>8. ASSUME NEW c \in Conns, TimerExpires(c) PROVE IInv'
  <2> DEFINE k == [conn[c] EXCEPT !.timer = FALSE, !.expired = TRUE]
  <2>1. /\ k \in Connection /\ k.in_use = conn[c].in_use /\ k.listed = conn[c].listed
        /\ k.attempt_reconnect = conn[c].attempt_reconnect
    BY <1>1 DEF Connection
  <2>2. conn' = [conn EXCEPT ![c] = k] /\ UNCHANGED <<running, stopping, admits, session>>
    BY <1>1, <1>8 DEF TimerExpires, clientVars, Connection, IInv, TypeOK
  <2> HIDE DEF k
  <2>3. TypeOK' /\ RunnerStopped'
    BY <2>1, <2>2 DEF IInv, TypeOK, RunnerStopped
  <2>4. conn'[c] = k /\ \A d \in Conns : d # c => conn'[d] = conn[d]
    BY <2>2 DEF IInv, TypeOK
  <2>5. QED
    BY <1>1, <2>1, <2>2, <2>3, <2>4, FrameIInv
<1>9. ASSUME NEW c \in Conns, TimerHandler(c) PROVE IInv'
  <2> DEFINE k == [conn[c] EXCEPT !.expired = FALSE]
  <2>1. /\ k \in Connection /\ k.in_use = conn[c].in_use /\ k.listed = conn[c].listed
        /\ k.attempt_reconnect = conn[c].attempt_reconnect
    BY <1>1 DEF Connection
  <2>2. /\ session' \in [Requests -> Session]
        /\ \A r \in Requests : /\ session'[r].stage = session[r].stage
                               /\ session'[r].conn = session[r].conn
                               /\ session'[r].writes = session[r].writes
    BY <1>1, <1>9, CancelKeeps DEF TimerHandler
  <2>3. /\ conn' = [conn EXCEPT ![c] = k]
        /\ UNCHANGED <<running, stopping, admits>>
    BY <1>1, <1>9 DEF TimerHandler, clientVars, Connection, IInv, TypeOK
  <2> HIDE DEF k
  <2>4. TypeOK' /\ RunnerStopped'
    BY <2>1, <2>2, <2>3 DEF IInv, TypeOK, RunnerStopped
  <2>5. conn'[c] = k /\ \A d \in Conns : d # c => conn'[d] = conn[d]
    BY <2>3 DEF IInv, TypeOK
  <2>6. QED
    BY <1>1, <2>1, <2>2, <2>3, <2>4, <2>5, FrameIInv
<1>10. QED
  BY <1>2, <1>3, <1>4, <1>5, <1>6, <1>7, <1>8, <1>9 DEF Stop

\* Every step of the client preserves the invariant.
LEMMA NextIInv == IInv /\ [Next]_vars => IInv'
<1> SUFFICES ASSUME IInv, [Next]_vars PROVE IInv'
  OBVIOUS
<1>1. CASE UNCHANGED vars
  BY <1>1 DEF vars, IInv, TypeOK, UsersExclude, MarksAreUsers, OneIdle, RunnerStopped,
              Resends, ResendBudget, Uses
<1>2. CASE Next
  BY <1>2, ClientIInv, GetConnectionIInv, DropIInv, HandlerIInv, ReconnectIInv, GiveBackIInv
     DEF Next, Body
<1>3. QED
  BY <1>1, <1>2

\* The invariant holds in every reachable state of the client.
THEOREM Invariance == Spec => []IInv
BY InitIInv, NextIInv, PTL DEF Spec

\* Sessions and connections are in one of the described states.
THEOREM TypeCorrect == Spec => []TypeOK
<1>1. IInv => TypeOK
  BY DEF IInv
<1>2. QED
  BY <1>1, Invariance, PTL

\* A pooled connection serves one request at a time, and at most one idle
\* connection is kept, whatever the order in which the connections are given
\* back, taken, replaced, dropped and cancelled.
THEOREM Exclusive == Spec => []ConnectionExclusive
<1>1. ASSUME IInv PROVE ConnectionExclusive
  <2>1. ASSUME NEW S, IsFiniteSet(S), \A x, y \in S : x = y PROVE Cardinality(S) <= 1
    <3>1. CASE S = {}
      BY <3>1, FS_EmptySet
    <3>2. CASE S # {}
      <4>1. PICK x \in S : S = {x}
        BY <2>1, <3>2
      <4>2. QED
        BY <4>1, FS_Singleton
    <3>3. QED
      BY <3>1, <3>2
  <2>2. ASSUME NEW c \in Conns PROVE Cardinality({r \in Requests : Uses(r, c)}) <= 1
    <3>1. IsFiniteSet({r \in Requests : Uses(r, c)})
      BY ClientAssumption, FS_Subset
    <3>2. QED
      BY <1>1, <2>1, <3>1 DEF IInv, UsersExclude
  <2>3. Cardinality({c \in Conns : conn[c].listed /\ ~conn[c].in_use}) <= 1
    <3>1. IsFiniteSet({c \in Conns : conn[c].listed /\ ~conn[c].in_use})
      BY ClientAssumption, FS_Subset
    <3>2. QED
      BY <1>1, <2>1, <3>1 DEF IInv, OneIdle
  <2>4. QED
    BY <2>2, <2>3 DEF ConnectionExclusive
<1>2. QED
  BY <1>1, Invariance, PTL

\* The set's marks are exact: a connection of the set is marked in_use if and
\* only if a request uses it, so that none is lost to the pool.
THEOREM NoConnectionLost ==
    Spec => [](\A c \in Conns : conn[c].listed =>
                  (conn[c].in_use <=> \E r \in Requests : Uses(r, c)))
<1>1. IInv => \A c \in Conns : conn[c].listed =>
                 (conn[c].in_use <=> \E r \in Requests : Uses(r, c))
  BY DEF IInv, MarksAreUsers, UsersExclude, Uses
<1>2. QED
  BY <1>1, Invariance, PTL

\* A request is sent at most twice: once more after a failed read on a
\* connection that may have been stale, never again.
THEOREM SentAtMostTwice == Spec => [](\A r \in Requests : session[r].writes <= 2)
<1>1. IInv => \A r \in Requests : session[r].writes <= 2
  BY DEF IInv, Resends, ResendBudget
<1>2. QED
  BY <1>1, Invariance, PTL
=============================================================================
